----------------------- MODULE ExecInteractionsProofs -----------------------
(***************************************************************************)
(* Proofs about the interaction ledger (ExecInteractions), for any number  *)
(* of connections, sessions and mutations: a finished row tells the truth, *)
(* a capture is accounted for, and the attached connection tracks the      *)
(* processes of its session.                                               *)
(***************************************************************************)
EXTENDS ExecInteractions, TLAPS

(* A mutation the exec server has, or will read. *)
Busy(o) == at[o].place \in {"sent", "running"}

Holds(c) == server[c] \in {"attached", "ending"}

(* A connection starts on both sides at once; a tracker that is not there  *)
(* or has no session has nothing to forward.                               *)
TrackersStart ==
  \A c \in Conns :
    /\ conn[c].life = "off" <=> server[c] = "off"
    /\ conn[c].life \in {"off", "gone"} => conn[c].phase = "opened" /\ conn[c].todo = {}
    /\ conn[c].phase # "ready" => conn[c].unforwarded = {}
    /\ conn[c].life = "open" /\ conn[c].phase \in {"opened", "initializing"} => conn[c].todo = {}

(* A session is held by the connection that is attached to it, which asked *)
(* for this session, and by no other; it exists once its creator attached. *)
SessionsAreHeld ==
  /\ \A s \in Conns :
       /\ session[s].attached # None =>
            /\ session[s].state = "live" /\ Holds(session[s].attached)
            /\ conn[session[s].attached].life = "gone" \/ SessionOf(session[s].attached) = s
       /\ session[s].state # "none" => server[s] \notin {"off", "open", "refused"}
  /\ \A c \in Conns :
       Holds(c) /\ conn[c].life # "gone" => session[SessionOf(c)].attached = c

(* Nothing leaves the gateway before it is journaled. *)
JournaledFirst == \A o \in Ops : at[o].place # "client" => row[o].state # "none"

(* A mutation at work came through a tracker that was ready, in the session *)
(* its row names, and its connection keeps the session as long as it lasts. *)
HeldBy(o, c, s) ==
  /\ c \in Conns /\ s \in Conns
  /\ \/ server[c] = "attached"
     \/ at[o].place = "running" /\ server[c] \in {"ending", "ended"}
  /\ conn[c].life = "gone" \/ conn[c].phase = "ready"
  /\ session[s].state # "none"
  /\ Holds(c) => session[s].attached = c
  /\ Unfinished(o) => row[o].session = s

BusyIsHeld == \A o \in Ops : Busy(o) => HeldBy(o, at[o].via, at[o].session)

(* In a session still held by the connection that created it, everything   *)
(* came through that connection.                                           *)
CreatorSent ==
  \A o \in Ops, c \in Conns :
    /\ Busy(o) /\ session[at[o].session].attached = c
    /\ conn[c].life # "gone" /\ conn[c].resume = None
    => at[o].via = c

(* What is journaled and not forwarded is with its client, and its row is   *)
(* unfinished as long as it can reach the exec server.                      *)
UnforwardedIsOpen ==
  \A c \in Conns, o \in Ops : o \in conn[c].unforwarded =>
    /\ at[o].place = "client" /\ row[o].state # "none"
    /\ Unfinished(o) => row[o].session = SessionOf(c)
    /\ o \in Processes => o \in conn[c].processes
    /\ conn[c].life = "open" /\ server[c] = "attached" => Unfinished(o) \/ o \in late
    /\ \A d \in Conns : o \in conn[d].unforwarded => d = c

(* The rows a resume is working on are those of its session. *)
TodoIsOfSession ==
  \A c \in Conns, o \in Ops : o \in conn[c].todo =>
    /\ row[o].state # "none"
    /\ Unfinished(o) => row[o].session = SessionOf(c)
    /\ conn[c].phase = "settling" => o \in Filesystem

ReportTypes == {"response", "error", "read", "quiesced"}

(* The exec server reports only what is over. *)
ReportsAreTrue ==
  \A c \in Conns, o \in Ops :
    (\E type \in ReportTypes : Frame(type, o) \in inbox[c])
      \/ o \in conn[c].quiesced
    => at[o].place = "ended"

(* What assertQuiescent established lasts as long as the lease lock. *)
CaptureIsQuiescent == capturing => \A o \in Ops : Unfinished(o) => Exempt(o)

(* From the list of a resume on, the tracker knows every process of the    *)
(* session, or has still to reattach it.                                   *)
TracksProcesses ==
  \A c \in Conns, o \in Processes :
    /\ conn[c].phase \in {"reattaching", "settling", "ready"}
    /\ Busy(o) /\ session[at[o].session].attached = c
    => o \in conn[c].processes \/ (conn[c].phase = "reattaching" /\ o \in conn[c].todo)

ExecInvariant ==
  /\ TypeOK /\ TrackersStart /\ SessionsAreHeld /\ JournaledFirst /\ BusyIsHeld
  /\ CreatorSent /\ UnforwardedIsOpen /\ TodoIsOfSession /\ ReportsAreTrue
  /\ FinishedIsOver /\ CaptureIsQuiescent /\ TracksProcesses

-----------------------------------------------------------------------------
(* What one tracker becomes, and the others remain. *)
LEMMA TrackerUpdate ==
  ASSUME TypeOK, NEW c \in Conns, NEW n \in Tracker, conn' = [conn EXCEPT ![c] = n]
  PROVE  /\ conn' \in [Conns -> Tracker] /\ conn'[c] = n
         /\ \A d \in Conns : d # c => conn'[d] = conn[d]
  BY DEF TypeOK

(* A transition of a row: finished is terminal, and the identity of a row  *)
(* that is not finished stays.                                             *)
LEMMA TransitionFacts ==
  ASSUME TypeOK, NEW o \in Ops, NEW st \in {"active", "detached", "finished"},
         row' = Transition(o, st)
  PROVE  /\ row' \in [Ops -> LedgerRow]
         /\ \A q \in Ops : q # o => row'[q] = row[q]
         /\ row'[o].state = IF row[o].state = "finished" THEN "finished" ELSE st
         /\ row'[o].state # "finished" =>
              row'[o].session = row[o].session /\ row'[o].generation = row[o].generation
<1>1. row[o] \in LedgerRow
  BY DEF TypeOK
<1> DEFINE r == IF "finished" \in {row[o].state, st}
                  THEN [NoRow EXCEPT !.state = "finished"] ELSE [row[o] EXCEPT !.state = st]
<1>2. row' = [row EXCEPT ![o] = r]
  BY DEF Transition
<1>3. /\ r \in LedgerRow
      /\ r.state = IF row[o].state = "finished" THEN "finished" ELSE st
      /\ r.state # "finished" => r.session = row[o].session /\ r.generation = row[o].generation
  BY <1>1 DEF LedgerRow, NoRow
<1> HIDE DEF r
<1>4. QED
  BY <1>2, <1>3 DEF TypeOK

FrameTypes  == ReportTypes \cup {"initialized", "refused"}

LEMMA FrameFacts ==
  ASSUME NEW t \in FrameTypes, NEW o \in Ops \cup {None}
  PROVE  /\ Frame(t, o) \in Frames
         /\ \A u \in FrameTypes, p \in Ops \cup {None} :
              Frame(u, p) = Frame(t, o) => u = t /\ p = o
  BY DEF Frame, Frames, FrameTypes, ReportTypes

(* A reply adds one frame, or is lost with a gateway that is gone. *)
LEMMA ReplyFacts ==
  ASSUME TypeOK, NEW c \in Conns, NEW t \in FrameTypes, NEW o \in Ops \cup {None},
         Reply(c, Frame(t, o))
  PROVE  /\ inbox' \in [Conns -> SUBSET Frames]
         /\ \A d \in Conns, u \in ReportTypes, p \in Ops :
              Frame(u, p) \in inbox'[d] => Frame(u, p) \in inbox[d] \/ (u = t /\ p = o)
<1>1. Frame(t, o) \in Frames
  BY FrameFacts
<1>2. /\ inbox' \in [Conns -> SUBSET Frames]
      /\ \A d \in Conns : inbox'[d] \subseteq inbox[d] \cup {Frame(t, o)}
  BY <1>1 DEF TypeOK, Reply
<1>3. ASSUME NEW u \in ReportTypes, NEW p \in Ops, Frame(u, p) = Frame(t, o)
      PROVE  u = t /\ p = o
  BY <1>3, FrameFacts DEF FrameTypes
<1>4. QED
  BY <1>2, <1>3

LEMMA RotateStep ==
  ASSUME ExecInvariant, Rotate
  PROVE  ExecInvariant'
<1>1. UNCHANGED <<capturing, row, conn, at, inbox, server, session, late>>
  BY DEF Rotate
<1>2. lease' \in Lease /\ ~capturing
  BY DEF ExecInvariant, TypeOK, Rotate, CompletedReconnect, Lease, LeaseStates
<1>3. TypeOK'
  BY <1>1, <1>2 DEF ExecInvariant, TypeOK
<1>4. /\ TrackersStart' /\ SessionsAreHeld' /\ JournaledFirst' /\ BusyIsHeld'
      /\ CreatorSent' /\ UnforwardedIsOpen' /\ TodoIsOfSession' /\ ReportsAreTrue'
      /\ FinishedIsOver' /\ TracksProcesses'
  BY <1>1
     DEF ExecInvariant, TrackersStart, SessionsAreHeld, JournaledFirst, BusyIsHeld,
         CreatorSent, UnforwardedIsOpen, TodoIsOfSession, ReportsAreTrue, FinishedIsOver,
         TracksProcesses, SessionOf, Holds, HeldBy, Busy, Unfinished, Outlived
<1>5. CaptureIsQuiescent'
  BY <1>1, <1>2 DEF ExecInvariant, CaptureIsQuiescent, Exempt
<1>6. QED
  BY <1>3, <1>4, <1>5 DEF ExecInvariant

LEMMA StartCaptureStep ==
  ASSUME ExecInvariant, StartCapture
  PROVE  ExecInvariant'
<1>1. UNCHANGED <<lease, row, conn, at, inbox, server, session, late>>
  BY DEF StartCapture
<1>2. capturing' = TRUE /\ \A o \in Ops : Unfinished(o) => Exempt(o)
  BY DEF StartCapture, Quiescent
<1>3. TypeOK'
  BY <1>1, <1>2 DEF ExecInvariant, TypeOK
<1>4. /\ TrackersStart' /\ SessionsAreHeld' /\ JournaledFirst' /\ BusyIsHeld'
      /\ CreatorSent' /\ UnforwardedIsOpen' /\ TodoIsOfSession' /\ ReportsAreTrue'
      /\ FinishedIsOver' /\ TracksProcesses'
  BY <1>1
     DEF ExecInvariant, TrackersStart, SessionsAreHeld, JournaledFirst, BusyIsHeld,
         CreatorSent, UnforwardedIsOpen, TodoIsOfSession, ReportsAreTrue, FinishedIsOver,
         TracksProcesses, SessionOf, Holds, HeldBy, Busy, Unfinished, Outlived
<1>5. CaptureIsQuiescent'
  BY <1>1, <1>2 DEF ExecInvariant, CaptureIsQuiescent, Unfinished, Exempt
<1>6. QED
  BY <1>3, <1>4, <1>5 DEF ExecInvariant

LEMMA EndCaptureStep ==
  ASSUME ExecInvariant, EndCapture
  PROVE  ExecInvariant'
<1>1. UNCHANGED <<lease, row, conn, at, inbox, server, session, late>>
  BY DEF EndCapture
<1>2. capturing' = FALSE
  BY DEF EndCapture
<1>3. TypeOK'
  BY <1>1, <1>2 DEF ExecInvariant, TypeOK
<1>4. /\ TrackersStart' /\ SessionsAreHeld' /\ JournaledFirst' /\ BusyIsHeld'
      /\ CreatorSent' /\ UnforwardedIsOpen' /\ TodoIsOfSession' /\ ReportsAreTrue'
      /\ FinishedIsOver' /\ TracksProcesses'
  BY <1>1
     DEF ExecInvariant, TrackersStart, SessionsAreHeld, JournaledFirst, BusyIsHeld,
         CreatorSent, UnforwardedIsOpen, TodoIsOfSession, ReportsAreTrue, FinishedIsOver,
         TracksProcesses, SessionOf, Holds, HeldBy, Busy, Unfinished, Outlived
<1>5. CaptureIsQuiescent'
  BY <1>1, <1>2 DEF ExecInvariant, CaptureIsQuiescent, Exempt
<1>6. QED
  BY <1>3, <1>4, <1>5 DEF ExecInvariant

LEMMA OpenStep ==
  ASSUME ExecInvariant, NEW c \in Conns, NEW s \in Conns \cup {None}, Open(c, s)
  PROVE  ExecInvariant'
<1>1. UNCHANGED <<lease, capturing, row, at, inbox, session, late>>
  BY DEF Open
<1>2. conn[c].life = "off" /\ server' = [server EXCEPT ![c] = "open"] /\ server[c] = "off"
  BY DEF Open, ExecInvariant, TrackersStart
<1>3. conn[c].todo = {} /\ conn[c].unforwarded = {} /\ (s # None => session[s].state # "none")
  BY <1>2 DEF Open, ExecInvariant, TrackersStart
<1>4. TypeOK /\ conn[c] \in Tracker
  BY DEF ExecInvariant, TypeOK
<1> DEFINE n == [conn[c] EXCEPT !.life = "open",
                                !.phase = "initializing",
                                !.generation = lease.generation,
                                !.resume = s]
<1>5. conn' = [conn EXCEPT ![c] = n]
  BY <1>4 DEF Open
<1>6. /\ n \in Tracker
      /\ n.life = "open" /\ n.phase = "initializing"
      /\ n.generation = lease.generation /\ n.resume = s
      /\ n.processes = conn[c].processes /\ n.unforwarded = conn[c].unforwarded
      /\ n.forwarded = conn[c].forwarded /\ n.quiesced = conn[c].quiesced
      /\ n.todo = conn[c].todo /\ n.detach = conn[c].detach
  BY <1>4 DEF Tracker, ExecInvariant, TypeOK, Phases, Lease
<1> HIDE DEF n
<1>7. /\ conn' \in [Conns -> Tracker] /\ conn'[c] = n
      /\ \A d \in Conns : d # c => conn'[d] = conn[d]
  BY <1>4, <1>5, <1>6, TrackerUpdate
<1>8. TypeOK'
  BY <1>1, <1>2, <1>3, <1>7 DEF ExecInvariant, TypeOK, ServerLives
<1>9. JournaledFirst' /\ CaptureIsQuiescent'
  BY <1>1 DEF ExecInvariant, JournaledFirst, CaptureIsQuiescent, Unfinished, Exempt
<1>10. TrackersStart'
  BY <1>1, <1>2, <1>3, <1>6, <1>7 DEF ExecInvariant, TypeOK, TrackersStart
<1>11. SessionsAreHeld'
  BY <1>1, <1>2, <1>3, <1>7
     DEF ExecInvariant, TypeOK, SessionsAreHeld, SessionOf, Holds, Sessions
<1>12. BusyIsHeld'
  BY <1>1, <1>2, <1>3, <1>7
     DEF ExecInvariant, BusyIsHeld, HeldBy, Busy, Holds, Unfinished, TrackersStart
<1>13. CreatorSent'
  BY <1>1, <1>2, <1>3, <1>7, OpsAssumption
     DEF ExecInvariant, CreatorSent, Busy, SessionsAreHeld, Holds, BusyIsHeld, HeldBy
<1>14. UnforwardedIsOpen'
  BY <1>1, <1>2, <1>3, <1>6, <1>7
     DEF ExecInvariant, UnforwardedIsOpen, Unfinished, SessionOf
<1>15. TodoIsOfSession'
  BY <1>1, <1>3, <1>6, <1>7 DEF ExecInvariant, TodoIsOfSession, Unfinished, SessionOf
<1>16. ReportsAreTrue'
  BY <1>1, <1>6, <1>7 DEF ExecInvariant, ReportsAreTrue
<1>17. FinishedIsOver'
  BY <1>1, <1>2, <1>7 DEF ExecInvariant, FinishedIsOver, Outlived, BusyIsHeld, HeldBy
<1>18. TracksProcesses'
  BY <1>1, <1>6, <1>7 DEF ExecInvariant, TracksProcesses, Busy, TrackersStart
<1>19. QED
  BY <1>8, <1>9, <1>10, <1>11, <1>12, <1>13, <1>14, <1>15, <1>16, <1>17, <1>18
     DEF ExecInvariant

LEMMA ReinitializeStep ==
  ASSUME ExecInvariant, NEW c \in Conns, NEW s \in Conns \cup {None}, Reinitialize(c, s)
  PROVE  ExecInvariant'
<1>1. UNCHANGED <<lease, capturing, row, at, inbox, session, late>>
  BY DEF Reinitialize
<1>2. /\ conn[c].life = "open" /\ conn[c].phase = "opened"
      /\ server' = [server EXCEPT ![c] = "open"] /\ server[c] = "refused"
  BY DEF Reinitialize
<1>3. conn[c].todo = {} /\ conn[c].unforwarded = {} /\ (s # None => session[s].state # "none")
  BY <1>2 DEF Reinitialize, ExecInvariant, TrackersStart
<1>4. TypeOK /\ conn[c] \in Tracker
  BY DEF ExecInvariant, TypeOK
<1> DEFINE n == [conn[c] EXCEPT !.phase = "initializing", !.resume = s]
<1>5. conn' = [conn EXCEPT ![c] = n]
  BY <1>4 DEF Reinitialize
<1>6. /\ n \in Tracker
      /\ n.life = "open" /\ n.phase = "initializing"
      /\ n.generation = conn[c].generation /\ n.resume = s
      /\ n.processes = conn[c].processes /\ n.unforwarded = conn[c].unforwarded
      /\ n.forwarded = conn[c].forwarded /\ n.quiesced = conn[c].quiesced
      /\ n.todo = conn[c].todo /\ n.detach = conn[c].detach
  BY <1>2, <1>4 DEF Tracker, ExecInvariant, TypeOK, Phases
<1> HIDE DEF n
<1>7. /\ conn' \in [Conns -> Tracker] /\ conn'[c] = n
      /\ \A d \in Conns : d # c => conn'[d] = conn[d]
  BY <1>4, <1>5, <1>6, TrackerUpdate
<1>8. TypeOK'
  BY <1>1, <1>2, <1>3, <1>7 DEF ExecInvariant, TypeOK, ServerLives
<1>9. JournaledFirst' /\ CaptureIsQuiescent'
  BY <1>1 DEF ExecInvariant, JournaledFirst, CaptureIsQuiescent, Unfinished, Exempt
<1>10. TrackersStart'
  BY <1>1, <1>2, <1>3, <1>6, <1>7 DEF ExecInvariant, TypeOK, TrackersStart
<1>11. SessionsAreHeld'
  BY <1>1, <1>2, <1>3, <1>7
     DEF ExecInvariant, TypeOK, SessionsAreHeld, SessionOf, Holds, Sessions
<1>12. BusyIsHeld'
  BY <1>1, <1>2, <1>3, <1>7
     DEF ExecInvariant, BusyIsHeld, HeldBy, Busy, Holds, Unfinished, TrackersStart
<1>13. CreatorSent'
  BY <1>1, <1>2, <1>3, <1>7, OpsAssumption
     DEF ExecInvariant, CreatorSent, Busy, SessionsAreHeld, Holds, BusyIsHeld, HeldBy
<1>14. UnforwardedIsOpen'
  BY <1>1, <1>2, <1>3, <1>6, <1>7
     DEF ExecInvariant, UnforwardedIsOpen, Unfinished, SessionOf
<1>15. TodoIsOfSession'
  BY <1>1, <1>3, <1>6, <1>7 DEF ExecInvariant, TodoIsOfSession, Unfinished, SessionOf
<1>16. ReportsAreTrue'
  BY <1>1, <1>6, <1>7 DEF ExecInvariant, ReportsAreTrue
<1>17. FinishedIsOver'
  BY <1>1, <1>2, <1>7 DEF ExecInvariant, FinishedIsOver, Outlived, BusyIsHeld, HeldBy
<1>18. TracksProcesses'
  BY <1>1, <1>6, <1>7 DEF ExecInvariant, TracksProcesses, Busy, TrackersStart
<1>19. QED
  BY <1>8, <1>9, <1>10, <1>11, <1>12, <1>13, <1>14, <1>15, <1>16, <1>17, <1>18
     DEF ExecInvariant

LEMMA CloseStep ==
  ASSUME ExecInvariant, NEW c \in Conns, Close(c)
  PROVE  ExecInvariant'
<1>1. UNCHANGED <<lease, capturing, row, at, inbox, server, session, late>>
  BY DEF Close, gatewayOnly
<1>2. conn[c].life = "open"
  BY DEF Close
<1>3. TypeOK /\ conn[c] \in Tracker
  BY DEF ExecInvariant, TypeOK
<1> DEFINE n == [conn[c] EXCEPT !.life = "closing"]
<1>4. conn' = [conn EXCEPT ![c] = n]
  BY <1>3 DEF Close, Closed
<1>5. /\ n \in Tracker
      /\ n.life = "closing" /\ n.phase = conn[c].phase
      /\ n.generation = conn[c].generation /\ n.resume = conn[c].resume
      /\ n.processes = conn[c].processes /\ n.unforwarded = conn[c].unforwarded
      /\ n.forwarded = conn[c].forwarded /\ n.quiesced = conn[c].quiesced
      /\ n.todo = conn[c].todo /\ n.detach = conn[c].detach
  BY <1>3 DEF Tracker, ExecInvariant
<1> HIDE DEF n
<1>6. /\ conn' \in [Conns -> Tracker] /\ conn'[c] = n
      /\ \A d \in Conns : d # c => conn'[d] = conn[d]
  BY <1>3, <1>4, <1>5, TrackerUpdate
<1>7. TypeOK'
  BY <1>1, <1>6 DEF ExecInvariant, TypeOK
<1>8. JournaledFirst' /\ FinishedIsOver' /\ CaptureIsQuiescent'
  BY <1>1
     DEF ExecInvariant, JournaledFirst, FinishedIsOver, CaptureIsQuiescent, Outlived,
         Unfinished, Exempt
<1>9. TrackersStart'
  BY <1>1, <1>2, <1>5, <1>6 DEF ExecInvariant, TrackersStart
<1>10. SessionsAreHeld'
  BY <1>1, <1>2, <1>5, <1>6
     DEF ExecInvariant, TypeOK, SessionsAreHeld, SessionOf, Holds, Sessions
<1>11. BusyIsHeld'
  BY <1>1, <1>2, <1>5, <1>6 DEF ExecInvariant, BusyIsHeld, HeldBy, Busy, Holds, Unfinished
<1>12. CreatorSent'
  BY <1>1, <1>2, <1>5, <1>6 DEF ExecInvariant, CreatorSent, Busy
<1>13. UnforwardedIsOpen'
  BY <1>1, <1>5, <1>6 DEF ExecInvariant, UnforwardedIsOpen, Unfinished, SessionOf
<1>14. TodoIsOfSession'
  BY <1>1, <1>5, <1>6 DEF ExecInvariant, TodoIsOfSession, Unfinished, SessionOf
<1>15. ReportsAreTrue'
  BY <1>1, <1>5, <1>6 DEF ExecInvariant, ReportsAreTrue
<1>16. TracksProcesses'
  BY <1>1, <1>5, <1>6 DEF ExecInvariant, TracksProcesses, Busy
<1>17. QED
  BY <1>7, <1>8, <1>9, <1>10, <1>11, <1>12, <1>13, <1>14, <1>15, <1>16 DEF ExecInvariant

LEMMA GatewayCrashStep ==
  ASSUME ExecInvariant, NEW c \in Conns, GatewayCrash(c)
  PROVE  ExecInvariant'
<1>1. UNCHANGED <<lease, capturing, row, at, server, session, late>>
  BY DEF GatewayCrash
<1>2. conn[c].life # "off" /\ inbox' = [inbox EXCEPT ![c] = {}]
  BY DEF GatewayCrash
<1>3. TypeOK /\ conn[c] \in Tracker
  BY DEF ExecInvariant, TypeOK
<1> DEFINE n == [NewConn EXCEPT !.life = "gone"]
<1>4. conn' = [conn EXCEPT ![c] = n]
  BY <1>3 DEF GatewayCrash
<1>5. /\ n \in Tracker
      /\ n.life = "gone" /\ n.phase = "opened"
      /\ n.generation = 0 /\ n.resume = None
      /\ n.processes = {} /\ n.unforwarded = {}
      /\ n.forwarded = {} /\ n.quiesced = {}
      /\ n.todo = {} /\ n.detach = {}
  BY <1>3 DEF Tracker, ExecInvariant, NewConn, Phases
<1> HIDE DEF n
<1>6. /\ conn' \in [Conns -> Tracker] /\ conn'[c] = n
      /\ \A d \in Conns : d # c => conn'[d] = conn[d]
  BY <1>3, <1>4, <1>5, TrackerUpdate
<1>7. TypeOK'
  BY <1>1, <1>2, <1>6 DEF ExecInvariant, TypeOK
<1>8. JournaledFirst' /\ FinishedIsOver' /\ CaptureIsQuiescent'
  BY <1>1
     DEF ExecInvariant, JournaledFirst, FinishedIsOver, CaptureIsQuiescent, Outlived,
         Unfinished, Exempt
<1>9. TrackersStart'
  BY <1>1, <1>2, <1>5, <1>6 DEF ExecInvariant, TrackersStart
<1>10. SessionsAreHeld'
  BY <1>1, <1>5, <1>6
     DEF ExecInvariant, TypeOK, SessionsAreHeld, SessionOf, Holds, Sessions
<1>11. BusyIsHeld'
  BY <1>1, <1>5, <1>6 DEF ExecInvariant, BusyIsHeld, HeldBy, Busy, Holds, Unfinished
<1>12. CreatorSent'
  BY <1>1, <1>5, <1>6 DEF ExecInvariant, CreatorSent, Busy
<1>13. UnforwardedIsOpen'
  BY <1>1, <1>5, <1>6 DEF ExecInvariant, UnforwardedIsOpen, Unfinished, SessionOf
<1>14. TodoIsOfSession'
  BY <1>1, <1>5, <1>6 DEF ExecInvariant, TodoIsOfSession, Unfinished, SessionOf
<1>15. ReportsAreTrue'
  BY <1>1, <1>2, <1>5, <1>6 DEF ExecInvariant, ReportsAreTrue
<1>16. TracksProcesses'
  BY <1>1, <1>5, <1>6 DEF ExecInvariant, TracksProcesses, Busy
<1>17. QED
  BY <1>7, <1>8, <1>9, <1>10, <1>11, <1>12, <1>13, <1>14, <1>15, <1>16 DEF ExecInvariant

LEMMA StartDetachStep ==
  ASSUME ExecInvariant, NEW c \in Conns, StartDetach(c)
  PROVE  ExecInvariant'
<1>1. UNCHANGED <<lease, capturing, row, at, inbox, server, session, late>>
  BY DEF StartDetach, gatewayOnly
<1>2. conn[c].life = "closing"
  BY DEF StartDetach
<1>3. TypeOK /\ conn[c] \in Tracker
  BY DEF ExecInvariant, TypeOK
<1> DEFINE n == [conn[c] EXCEPT !.life = "detaching",
                                !.detach = conn[c].processes \cup conn[c].forwarded \cup conn[c].unforwarded]
<1>4. conn' = [conn EXCEPT ![c] = n]
  BY <1>3 DEF StartDetach, Detaching
<1>5. /\ n \in Tracker
      /\ n.life = "detaching" /\ n.phase = conn[c].phase
      /\ n.generation = conn[c].generation /\ n.resume = conn[c].resume
      /\ n.processes = conn[c].processes /\ n.unforwarded = conn[c].unforwarded
      /\ n.forwarded = conn[c].forwarded /\ n.quiesced = conn[c].quiesced
      /\ n.todo = conn[c].todo
      /\ n.detach = conn[c].processes \cup conn[c].forwarded \cup conn[c].unforwarded
  BY <1>3 DEF Tracker, ExecInvariant
<1> HIDE DEF n
<1>6. /\ conn' \in [Conns -> Tracker] /\ conn'[c] = n
      /\ \A d \in Conns : d # c => conn'[d] = conn[d]
  BY <1>3, <1>4, <1>5, TrackerUpdate
<1>7. TypeOK'
  BY <1>1, <1>6 DEF ExecInvariant, TypeOK
<1>8. JournaledFirst' /\ FinishedIsOver' /\ CaptureIsQuiescent'
  BY <1>1
     DEF ExecInvariant, JournaledFirst, FinishedIsOver, CaptureIsQuiescent, Outlived,
         Unfinished, Exempt
<1>9. TrackersStart'
  BY <1>1, <1>2, <1>5, <1>6 DEF ExecInvariant, TrackersStart
<1>10. SessionsAreHeld'
  BY <1>1, <1>2, <1>5, <1>6
     DEF ExecInvariant, TypeOK, SessionsAreHeld, SessionOf, Holds, Sessions
<1>11. BusyIsHeld'
  BY <1>1, <1>2, <1>5, <1>6 DEF ExecInvariant, BusyIsHeld, HeldBy, Busy, Holds, Unfinished
<1>12. CreatorSent'
  BY <1>1, <1>2, <1>5, <1>6 DEF ExecInvariant, CreatorSent, Busy
<1>13. UnforwardedIsOpen'
  BY <1>1, <1>5, <1>6 DEF ExecInvariant, UnforwardedIsOpen, Unfinished, SessionOf
<1>14. TodoIsOfSession'
  BY <1>1, <1>5, <1>6 DEF ExecInvariant, TodoIsOfSession, Unfinished, SessionOf
<1>15. ReportsAreTrue'
  BY <1>1, <1>5, <1>6 DEF ExecInvariant, ReportsAreTrue
<1>16. TracksProcesses'
  BY <1>1, <1>5, <1>6 DEF ExecInvariant, TracksProcesses, Busy
<1>17. QED
  BY <1>7, <1>8, <1>9, <1>10, <1>11, <1>12, <1>13, <1>14, <1>15, <1>16 DEF ExecInvariant

LEMMA DetachRowStep ==
  ASSUME ExecInvariant, NEW c \in Conns, NEW o \in Ops, DetachRow(c, o)
  PROVE  ExecInvariant'
<1>1. UNCHANGED <<lease, capturing, at, inbox, server, session, late>>
  BY DEF DetachRow, gatewayOnly
<1>2. conn[c].life = "detaching"
  BY DEF DetachRow
<1>3. /\ row' \in [Ops -> LedgerRow] /\ \A q \in Ops : q # o => row'[q] = row[q]
      /\ \/ row'[o] = row[o]
         \/ /\ ~capturing /\ row'[o].state = "finished"
            /\ row[o].state = "finished" \/ o \in conn[c].unforwarded
         \/ /\ ~capturing /\ row[o].state # "finished" /\ row'[o].state = "detached"
            /\ row'[o].session = row[o].session /\ row'[o].generation = row[o].generation
  BY TransitionFacts DEF ExecInvariant, TypeOK, DetachRow, NeverForwarded
<1>4. TypeOK /\ conn[c] \in Tracker
  BY DEF ExecInvariant, TypeOK
<1> DEFINE n == [conn[c] EXCEPT !.detach = @ \ {o}]
<1>5. conn' = [conn EXCEPT ![c] = n]
  BY <1>4 DEF DetachRow
<1>6. /\ n \in Tracker
      /\ n.life = conn[c].life /\ n.phase = conn[c].phase
      /\ n.generation = conn[c].generation /\ n.resume = conn[c].resume
      /\ n.processes = conn[c].processes /\ n.unforwarded = conn[c].unforwarded
      /\ n.forwarded = conn[c].forwarded /\ n.quiesced = conn[c].quiesced
      /\ n.todo = conn[c].todo /\ n.detach = conn[c].detach \ {o}
  BY <1>4 DEF Tracker, ExecInvariant
<1> HIDE DEF n
<1>7. /\ conn' \in [Conns -> Tracker] /\ conn'[c] = n
      /\ \A d \in Conns : d # c => conn'[d] = conn[d]
  BY <1>4, <1>5, <1>6, TrackerUpdate
<1>8. TypeOK'
  BY <1>1, <1>3, <1>7 DEF ExecInvariant, TypeOK
<1>9. TrackersStart'
  BY <1>1, <1>6, <1>7 DEF ExecInvariant, TrackersStart
<1>10. SessionsAreHeld'
  BY <1>1, <1>6, <1>7
     DEF ExecInvariant, TypeOK, SessionsAreHeld, SessionOf, Holds, Sessions
<1>11. JournaledFirst'
  BY <1>1, <1>3, <1>7 DEF ExecInvariant, JournaledFirst
<1>12. BusyIsHeld'
  <2> SUFFICES ASSUME NEW q \in Ops, Busy(q)' PROVE HeldBy(q, at[q].via, at[q].session)'
    BY DEF BusyIsHeld
  <2>1. Busy(q) /\ HeldBy(q, at[q].via, at[q].session) /\ row[q].state # "none"
    BY <1>1 DEF ExecInvariant, BusyIsHeld, JournaledFirst, Busy
  <2>2. Unfinished(q)' => Unfinished(q) /\ row'[q].session = row[q].session
    BY <1>3, <2>1 DEF ExecInvariant, TypeOK, LedgerRow, Unfinished
  <2>3. QED
    BY <1>1, <1>6, <1>7, <2>1, <2>2 DEF HeldBy, Holds
<1>13. CreatorSent'
  BY <1>1, <1>6, <1>7 DEF ExecInvariant, CreatorSent, Busy
<1>14. UnforwardedIsOpen'
  <2>1. \A d \in Conns, q \in Ops : q \in conn[d].unforwarded =>
          /\ row'[q].state # "none"
          /\ Unfinished(q)' => Unfinished(q) /\ row'[q].session = row[q].session
    BY <1>3 DEF ExecInvariant, TypeOK, LedgerRow, UnforwardedIsOpen, Unfinished
  <2>2. \A d \in Conns, q \in Ops : q \in conn[d].unforwarded /\ conn[d].life = "open" =>
          (Unfinished(q) => Unfinished(q)')
    BY <1>2, <1>3 DEF ExecInvariant, UnforwardedIsOpen, Unfinished
  <2>3. QED
    BY <1>1, <1>6, <1>7, <2>1, <2>2 DEF ExecInvariant, UnforwardedIsOpen, SessionOf
<1>15. TodoIsOfSession'
  BY <1>1, <1>3, <1>6, <1>7
     DEF ExecInvariant, TypeOK, TodoIsOfSession, Unfinished, SessionOf, LedgerRow
<1>16. ReportsAreTrue'
  BY <1>1, <1>6, <1>7 DEF ExecInvariant, ReportsAreTrue
<1>17. FinishedIsOver'
  BY <1>1, <1>3, <1>7 DEF ExecInvariant, FinishedIsOver, Outlived, UnforwardedIsOpen
<1>18. CaptureIsQuiescent'
  BY <1>1, <1>3, <1>7 DEF ExecInvariant, CaptureIsQuiescent, Unfinished, Exempt
<1>19. TracksProcesses'
  BY <1>1, <1>6, <1>7 DEF ExecInvariant, TracksProcesses, Busy
<1>20. QED
  BY <1>8, <1>9, <1>10, <1>11, <1>12, <1>13, <1>14, <1>15, <1>16, <1>17, <1>18, <1>19
     DEF ExecInvariant

LEMMA BeginKeptStep ==
  ASSUME ExecInvariant, NEW c \in Conns, NEW o \in Ops, Begin(c, o),
         conn' = [conn EXCEPT ![c].unforwarded = {o},
                              ![c].processes = @ \cup ({o} \cap Processes)]
  PROVE  ExecInvariant'
<1>1. UNCHANGED <<lease, capturing, at, inbox, server, session, late>>
  BY DEF Begin, gatewayOnly
<1>2. /\ conn[c].life \in {"open", "closing"} /\ conn[c].phase = "ready" /\ conn[c].unforwarded = {}
      /\ row[o].state = "none" /\ ~capturing
  BY DEF Begin, NoRow
<1>3. /\ row' \in [Ops -> LedgerRow] /\ \A q \in Ops : q # o => row'[q] = row[q]
      /\ row'[o].state = "active" /\ row'[o].session = SessionOf(c)
  BY OpsAssumption DEF ExecInvariant, TypeOK, Begin, NewRow, LedgerRow, Tracker, SessionOf
<1>4. TypeOK /\ conn[c] \in Tracker
  BY DEF ExecInvariant, TypeOK
<1> DEFINE n == [conn[c] EXCEPT !.unforwarded = {o},
                                !.processes = @ \cup ({o} \cap Processes)]
<1>5. conn' = [conn EXCEPT ![c] = n]
  BY <1>4 DEF Begin
<1>6. /\ n \in Tracker
      /\ n.life = conn[c].life /\ n.phase = conn[c].phase
      /\ n.generation = conn[c].generation /\ n.resume = conn[c].resume
      /\ n.processes = conn[c].processes \cup ({o} \cap Processes) /\ n.unforwarded = {o}
      /\ n.forwarded = conn[c].forwarded /\ n.quiesced = conn[c].quiesced
      /\ n.todo = conn[c].todo /\ n.detach = conn[c].detach
  BY <1>4 DEF Tracker, ExecInvariant
<1> HIDE DEF n
<1>7. /\ conn' \in [Conns -> Tracker] /\ conn'[c] = n
      /\ \A d \in Conns : d # c => conn'[d] = conn[d]
  BY <1>4, <1>5, <1>6, TrackerUpdate
<1>8. TypeOK'
  BY <1>1, <1>3, <1>7 DEF ExecInvariant, TypeOK
<1>9. TrackersStart'
  BY <1>1, <1>2, <1>7 DEF ExecInvariant, TrackersStart
<1>10. SessionsAreHeld'
  BY <1>1, <1>7 DEF ExecInvariant, TypeOK, SessionsAreHeld, SessionOf, Holds, Sessions
<1>11. JournaledFirst'
  BY <1>1, <1>3, <1>7 DEF ExecInvariant, JournaledFirst
<1>12. BusyIsHeld'
  BY <1>1, <1>2, <1>3, <1>7
     DEF ExecInvariant, BusyIsHeld, HeldBy, Busy, Holds, Unfinished, JournaledFirst
<1>13. CreatorSent'
  BY <1>1, <1>7 DEF ExecInvariant, CreatorSent, Busy
<1>14. UnforwardedIsOpen'
  BY <1>1, <1>2, <1>3, <1>7
     DEF ExecInvariant, UnforwardedIsOpen, Unfinished, SessionOf, JournaledFirst
<1>15. TodoIsOfSession'
  BY <1>1, <1>2, <1>3, <1>7 DEF ExecInvariant, TodoIsOfSession, Unfinished, SessionOf
<1>16. ReportsAreTrue'
  BY <1>1, <1>7 DEF ExecInvariant, ReportsAreTrue
<1>17. FinishedIsOver'
  BY <1>1, <1>3, <1>7 DEF ExecInvariant, FinishedIsOver, Outlived
<1>18. CaptureIsQuiescent'
  BY <1>1, <1>2, <1>7 DEF ExecInvariant, CaptureIsQuiescent, Exempt
<1>19. TracksProcesses'
  BY <1>1, <1>7 DEF ExecInvariant, TracksProcesses, Busy, JournaledFirst
<1>20. QED
  BY <1>8, <1>9, <1>10, <1>11, <1>12, <1>13, <1>14, <1>15, <1>16, <1>17, <1>18, <1>19
     DEF ExecInvariant

LEMMA BeginLostStep ==
  ASSUME ExecInvariant, NEW c \in Conns, NEW o \in Ops, Begin(c, o),
         conn' = [conn EXCEPT ![c] = Detaching(c)]
  PROVE  ExecInvariant'
<1>1. UNCHANGED <<lease, capturing, at, inbox, server, session, late>>
  BY DEF Begin, gatewayOnly
<1>2. /\ conn[c].life \in {"open", "closing"} /\ conn[c].phase = "ready" /\ conn[c].unforwarded = {}
      /\ row[o].state = "none" /\ ~capturing
  BY DEF Begin, NoRow
<1>3. /\ row' \in [Ops -> LedgerRow] /\ \A q \in Ops : q # o => row'[q] = row[q]
      /\ row'[o].state = "active" /\ row'[o].session = SessionOf(c)
  BY OpsAssumption DEF ExecInvariant, TypeOK, Begin, NewRow, LedgerRow, Tracker, SessionOf
<1>4. TypeOK /\ conn[c] \in Tracker
  BY DEF ExecInvariant, TypeOK
<1> DEFINE n == [conn[c] EXCEPT !.life = "detaching",
                                !.detach = conn[c].processes \cup conn[c].forwarded \cup conn[c].unforwarded]
<1>5. conn' = [conn EXCEPT ![c] = n]
  BY <1>4 DEF Begin, Detaching
<1>6. /\ n \in Tracker
      /\ n.life = "detaching" /\ n.phase = conn[c].phase
      /\ n.generation = conn[c].generation /\ n.resume = conn[c].resume
      /\ n.processes = conn[c].processes /\ n.unforwarded = conn[c].unforwarded
      /\ n.forwarded = conn[c].forwarded /\ n.quiesced = conn[c].quiesced
      /\ n.todo = conn[c].todo
      /\ n.detach = conn[c].processes \cup conn[c].forwarded \cup conn[c].unforwarded
  BY <1>4 DEF Tracker, ExecInvariant
<1> HIDE DEF n
<1>7. /\ conn' \in [Conns -> Tracker] /\ conn'[c] = n
      /\ \A d \in Conns : d # c => conn'[d] = conn[d]
  BY <1>4, <1>5, <1>6, TrackerUpdate
<1>8. TypeOK'
  BY <1>1, <1>3, <1>7 DEF ExecInvariant, TypeOK
<1>9. TrackersStart'
  BY <1>1, <1>2, <1>6, <1>7 DEF ExecInvariant, TrackersStart
<1>10. SessionsAreHeld'
  BY <1>1, <1>2, <1>6, <1>7 DEF ExecInvariant, SessionsAreHeld, SessionOf, Holds
<1>11. JournaledFirst'
  BY <1>1, <1>3, <1>7 DEF ExecInvariant, JournaledFirst
<1>12. BusyIsHeld'
  BY <1>1, <1>2, <1>3, <1>6, <1>7
     DEF ExecInvariant, BusyIsHeld, HeldBy, Busy, Holds, Unfinished, JournaledFirst
<1>13. CreatorSent'
  BY <1>1, <1>2, <1>6, <1>7 DEF ExecInvariant, CreatorSent, Busy
<1>14. UnforwardedIsOpen'
  BY <1>1, <1>2, <1>3, <1>6, <1>7
     DEF ExecInvariant, UnforwardedIsOpen, Unfinished, SessionOf, JournaledFirst
<1>15. TodoIsOfSession'
  BY <1>1, <1>2, <1>3, <1>6, <1>7
     DEF ExecInvariant, TodoIsOfSession, Unfinished, SessionOf
<1>16. ReportsAreTrue'
  BY <1>1, <1>6, <1>7 DEF ExecInvariant, ReportsAreTrue
<1>17. FinishedIsOver'
  BY <1>1, <1>3, <1>7 DEF ExecInvariant, FinishedIsOver, Outlived
<1>18. CaptureIsQuiescent'
  BY <1>1, <1>2, <1>7 DEF ExecInvariant, CaptureIsQuiescent, Exempt
<1>19. TracksProcesses'
  BY <1>1, <1>6, <1>7 DEF ExecInvariant, TracksProcesses, Busy, JournaledFirst
<1>20. QED
  BY <1>8, <1>9, <1>10, <1>11, <1>12, <1>13, <1>14, <1>15, <1>16, <1>17, <1>18, <1>19
     DEF ExecInvariant

LEMMA ForwardStep ==
  ASSUME ExecInvariant, NEW c \in Conns, NEW o \in Ops, Forward(c, o)
  PROVE  ExecInvariant'
<1>1. UNCHANGED <<lease, capturing, row, inbox, server, session, late>>
  BY DEF Forward
<1>2. conn[c].life = "open" /\ o \in conn[c].unforwarded
  BY DEF Forward
<1>3. /\ at' \in [Ops -> Whereabouts] /\ \A q \in Ops : q # o => at'[q] = at[q]
      /\ at'[o].place # "client" /\ at'[o].place # "ended" /\ at'[o].place # "running"
      /\ at'[o].place = "sent" =>
           server[c] = "attached" /\ at'[o].via = c /\ at'[o].session = SessionOf(c)
  BY OpsAssumption
     DEF ExecInvariant, TypeOK, Forward, Place, Whereabouts, SessionOf, Tracker
<1>4. TypeOK /\ conn[c] \in Tracker
  BY DEF ExecInvariant, TypeOK
<1> DEFINE n == [conn[c] EXCEPT !.unforwarded = @ \ {o}, !.forwarded = @ \cup {o}]
<1>5. conn' = [conn EXCEPT ![c] = n]
  BY <1>4 DEF Forward
<1>6. /\ n \in Tracker
      /\ n.life = conn[c].life /\ n.phase = conn[c].phase
      /\ n.generation = conn[c].generation /\ n.resume = conn[c].resume
      /\ n.processes = conn[c].processes /\ n.unforwarded = conn[c].unforwarded \ {o}
      /\ n.forwarded = conn[c].forwarded \cup {o} /\ n.quiesced = conn[c].quiesced
      /\ n.todo = conn[c].todo /\ n.detach = conn[c].detach
  BY <1>4 DEF Tracker, ExecInvariant
<1> HIDE DEF n
<1>7. /\ conn' \in [Conns -> Tracker] /\ conn'[c] = n
      /\ \A d \in Conns : d # c => conn'[d] = conn[d]
  BY <1>4, <1>5, <1>6, TrackerUpdate
<1>8. TypeOK'
  BY <1>1, <1>3, <1>7 DEF ExecInvariant, TypeOK
<1>9. CaptureIsQuiescent'
  BY <1>1 DEF ExecInvariant, CaptureIsQuiescent, Unfinished, Exempt
<1>10. TrackersStart'
  BY <1>1, <1>6, <1>7 DEF ExecInvariant, TrackersStart
<1>11. SessionsAreHeld'
  BY <1>1, <1>6, <1>7
     DEF ExecInvariant, TypeOK, SessionsAreHeld, SessionOf, Holds, Sessions
<1>12. JournaledFirst'
  BY <1>1, <1>2, <1>3, <1>7 DEF ExecInvariant, JournaledFirst, UnforwardedIsOpen
<1>13. BusyIsHeld'
  <2> SUFFICES ASSUME NEW q \in Ops, Busy(q)' PROVE HeldBy(q, at[q].via, at[q].session)'
    BY DEF BusyIsHeld
  <2>1. CASE q # o
    BY <1>1, <1>3, <1>6, <1>7, <2>1
       DEF ExecInvariant, BusyIsHeld, HeldBy, Busy, Holds, Unfinished
  <2>2. CASE q = o
    <3>1. server[c] = "attached" /\ at'[o].via = c /\ at'[o].session = SessionOf(c)
      BY <1>3, <2>2 DEF Busy
    <3>2. session[SessionOf(c)].attached = c /\ session[SessionOf(c)].state # "none"
      BY <1>2, <3>1, OpsAssumption
         DEF ExecInvariant, TypeOK, SessionsAreHeld, Holds, SessionOf, Tracker
    <3>3. conn[c].phase = "ready" /\ SessionOf(c) \in Conns
      BY <1>2 DEF ExecInvariant, TypeOK, TrackersStart, SessionOf, Tracker
    <3>4. Unfinished(o) => row[o].session = SessionOf(c)
      BY <1>2 DEF ExecInvariant, UnforwardedIsOpen
    <3>5. QED
      BY <1>1, <1>6, <1>7, <2>2, <3>1, <3>2, <3>3, <3>4 DEF HeldBy, Unfinished
  <2>3. QED
    BY <2>1, <2>2
<1>14. CreatorSent'
  BY <1>1, <1>2, <1>3, <1>6, <1>7
     DEF ExecInvariant, CreatorSent, Busy, SessionsAreHeld, Holds, TrackersStart
<1>15. UnforwardedIsOpen'
  BY <1>1, <1>2, <1>3, <1>6, <1>7
     DEF ExecInvariant, UnforwardedIsOpen, Unfinished, SessionOf
<1>16. TodoIsOfSession'
  BY <1>1, <1>6, <1>7 DEF ExecInvariant, TodoIsOfSession, Unfinished, SessionOf
<1>17. ReportsAreTrue'
  BY <1>1, <1>2, <1>3, <1>6, <1>7 DEF ExecInvariant, ReportsAreTrue, UnforwardedIsOpen
<1>18. FinishedIsOver'
  <2>1. at'[o].place = "sent" => row[o].state # "finished" \/ o \in late
    BY <1>2, <1>3 DEF ExecInvariant, UnforwardedIsOpen, Unfinished
  <2>2. QED
    BY <1>1, <1>3, <2>1 DEF ExecInvariant, FinishedIsOver, Outlived
<1>19. TracksProcesses'
  BY <1>1, <1>2, <1>3, <1>6, <1>7
     DEF ExecInvariant, TracksProcesses, Busy, Processes, UnforwardedIsOpen,
         SessionsAreHeld, Holds, TrackersStart
<1>20. QED
  BY <1>8, <1>9, <1>10, <1>11, <1>12, <1>13, <1>14, <1>15, <1>16, <1>17, <1>18, <1>19
     DEF ExecInvariant

LEMMA FinishOverStep ==
  ASSUME ExecInvariant, NEW c \in Conns, NEW o \in Ops, Finish(c, o), at[o].place = "ended",
         inbox' \in [Conns -> SUBSET Frames], \A d \in Conns : inbox'[d] \subseteq inbox[d]
  PROVE  ExecInvariant'
<1>1. UNCHANGED <<lease, capturing, at, server, session, late>>
  BY DEF Finish, ledgerStep
<1>2. ~capturing /\ at[o].place = "ended"
  BY DEF Finish
<1>3. /\ row' \in [Ops -> LedgerRow] /\ \A q \in Ops : q # o => row'[q] = row[q]
      /\ row'[o].state = "finished"
  BY TransitionFacts DEF ExecInvariant, Finish
<1>4. inbox' \in [Conns -> SUBSET Frames] /\ \A d \in Conns : inbox'[d] \subseteq inbox[d]
  OBVIOUS
<1>5. TypeOK /\ conn[c] \in Tracker
  BY DEF ExecInvariant, TypeOK
<1> DEFINE n == [conn[c] EXCEPT !.processes = @ \ {o},
                                !.forwarded = @ \ {o},
                                !.quiesced = @ \ {o}]
<1>6. conn' = [conn EXCEPT ![c] = n]
  BY <1>4 DEF Finish
<1>7. /\ n \in Tracker
      /\ n.life = conn[c].life /\ n.phase = conn[c].phase
      /\ n.generation = conn[c].generation /\ n.resume = conn[c].resume
      /\ n.processes = conn[c].processes \ {o} /\ n.unforwarded = conn[c].unforwarded
      /\ n.forwarded = conn[c].forwarded \ {o} /\ n.quiesced = conn[c].quiesced \ {o}
      /\ n.todo = conn[c].todo /\ n.detach = conn[c].detach
  BY <1>5 DEF Tracker, ExecInvariant
<1> HIDE DEF n
<1>8. /\ conn' \in [Conns -> Tracker] /\ conn'[c] = n
      /\ \A d \in Conns : d # c => conn'[d] = conn[d]
  BY <1>5, <1>6, <1>7, TrackerUpdate
<1>9. TypeOK'
  BY <1>1, <1>3, <1>7, <1>8 DEF ExecInvariant, TypeOK
<1>10. TrackersStart'
  BY <1>1, <1>7, <1>8 DEF ExecInvariant, TrackersStart
<1>11. SessionsAreHeld'
  BY <1>1, <1>7, <1>8
     DEF ExecInvariant, TypeOK, SessionsAreHeld, SessionOf, Holds, Sessions
<1>12. JournaledFirst'
  BY <1>1, <1>3, <1>7, <1>8 DEF ExecInvariant, JournaledFirst
<1>13. BusyIsHeld'
  BY <1>1, <1>3, <1>7, <1>8 DEF ExecInvariant, BusyIsHeld, HeldBy, Busy, Holds, Unfinished
<1>14. CreatorSent'
  BY <1>1, <1>7, <1>8 DEF ExecInvariant, CreatorSent, Busy
<1>15. UnforwardedIsOpen'
  BY <1>1, <1>3, <1>7, <1>8 DEF ExecInvariant, UnforwardedIsOpen, Unfinished, SessionOf
<1>16. TodoIsOfSession'
  BY <1>1, <1>3, <1>7, <1>8 DEF ExecInvariant, TodoIsOfSession, Unfinished, SessionOf
<1>17. ReportsAreTrue'
  BY <1>1, <1>7, <1>8 DEF ExecInvariant, ReportsAreTrue
<1>18. FinishedIsOver'
  BY <1>1, <1>3, <1>7, <1>8 DEF ExecInvariant, FinishedIsOver, Outlived
<1>19. CaptureIsQuiescent'
  BY <1>1, <1>2, <1>7, <1>8 DEF ExecInvariant, CaptureIsQuiescent, Exempt
<1>20. TracksProcesses'
  BY <1>1, <1>7, <1>8 DEF ExecInvariant, TracksProcesses, Busy
<1>21. QED
  BY <1>9, <1>10, <1>11, <1>12, <1>13, <1>14, <1>15, <1>16, <1>17, <1>18, <1>19, <1>20
     DEF ExecInvariant

LEMMA HandleRefusedStep ==
  ASSUME ExecInvariant, NEW c \in Conns, HandleRefused(c)
  PROVE  ExecInvariant'
<1>1. UNCHANGED <<lease, capturing, row, at, server, session, late>>
  BY DEF HandleRefused
<1>2. conn[c].phase = "initializing"
  BY DEF HandleRefused
<1>3. inbox' \in [Conns -> SUBSET Frames] /\ \A d \in Conns : inbox'[d] \subseteq inbox[d]
  BY DEF ExecInvariant, TypeOK, HandleRefused, Handled
<1>4. TypeOK /\ conn[c] \in Tracker
  BY DEF ExecInvariant, TypeOK
<1> DEFINE n == [conn[c] EXCEPT !.phase = "opened", !.quiesced = {}]
<1>5. conn' = [conn EXCEPT ![c] = n]
  BY <1>4 DEF HandleRefused
<1>6. /\ n \in Tracker
      /\ n.life = conn[c].life /\ n.phase = "opened"
      /\ n.generation = conn[c].generation /\ n.resume = conn[c].resume
      /\ n.processes = conn[c].processes /\ n.unforwarded = conn[c].unforwarded
      /\ n.forwarded = conn[c].forwarded /\ n.quiesced = {}
      /\ n.todo = conn[c].todo /\ n.detach = conn[c].detach
  BY <1>4 DEF Tracker, ExecInvariant, Phases
<1> HIDE DEF n
<1>7. /\ conn' \in [Conns -> Tracker] /\ conn'[c] = n
      /\ \A d \in Conns : d # c => conn'[d] = conn[d]
  BY <1>4, <1>5, <1>6, TrackerUpdate
<1>8. TypeOK'
  BY <1>1, <1>3, <1>7 DEF ExecInvariant, TypeOK
<1>9. JournaledFirst' /\ FinishedIsOver' /\ CaptureIsQuiescent'
  BY <1>1
     DEF ExecInvariant, JournaledFirst, FinishedIsOver, CaptureIsQuiescent, Outlived,
         Unfinished, Exempt
<1>10. TrackersStart'
  BY <1>1, <1>2, <1>6, <1>7 DEF ExecInvariant, TrackersStart
<1>11. SessionsAreHeld'
  BY <1>1, <1>6, <1>7
     DEF ExecInvariant, TypeOK, SessionsAreHeld, SessionOf, Holds, Sessions
<1>12. BusyIsHeld'
  BY <1>1, <1>2, <1>7
     DEF ExecInvariant, BusyIsHeld, HeldBy, Busy, Holds, Unfinished, TrackersStart
<1>13. CreatorSent'
  BY <1>1, <1>6, <1>7 DEF ExecInvariant, CreatorSent, Busy
<1>14. UnforwardedIsOpen'
  BY <1>1, <1>6, <1>7 DEF ExecInvariant, UnforwardedIsOpen, Unfinished, SessionOf
<1>15. TodoIsOfSession'
  BY <1>1, <1>6, <1>7 DEF ExecInvariant, TodoIsOfSession, Unfinished, SessionOf
<1>16. ReportsAreTrue'
  BY <1>1, <1>3, <1>6, <1>7 DEF ExecInvariant, ReportsAreTrue
<1>17. TracksProcesses'
  BY <1>1, <1>6, <1>7 DEF ExecInvariant, TracksProcesses, Busy
<1>18. QED
  BY <1>8, <1>9, <1>10, <1>11, <1>12, <1>13, <1>14, <1>15, <1>16, <1>17 DEF ExecInvariant

LEMMA InitializedNewStep ==
  ASSUME ExecInvariant, NEW c \in Conns, HandleInitialized(c), conn[c].resume = None
  PROVE  ExecInvariant'
<1>1. UNCHANGED <<lease, capturing, row, at, server, session, late>>
  BY DEF HandleInitialized
<1>2. conn[c].phase = "initializing" /\ conn[c].resume = None
  BY DEF HandleInitialized
<1>3. inbox' \in [Conns -> SUBSET Frames] /\ \A d \in Conns : inbox'[d] \subseteq inbox[d]
  BY DEF ExecInvariant, TypeOK, HandleInitialized, Handled
<1>4. TypeOK /\ conn[c] \in Tracker
  BY DEF ExecInvariant, TypeOK
<1> DEFINE n == [conn[c] EXCEPT !.phase = "ready"]
<1>5. conn' = [conn EXCEPT ![c] = n]
  BY <1>4 DEF HandleInitialized
<1>6. /\ n \in Tracker
      /\ n.life = conn[c].life /\ n.phase = "ready"
      /\ n.generation = conn[c].generation /\ n.resume = conn[c].resume
      /\ n.processes = conn[c].processes /\ n.unforwarded = conn[c].unforwarded
      /\ n.forwarded = conn[c].forwarded /\ n.quiesced = conn[c].quiesced
      /\ n.todo = conn[c].todo /\ n.detach = conn[c].detach
  BY <1>4 DEF Tracker, ExecInvariant, Phases
<1> HIDE DEF n
<1>7. /\ conn' \in [Conns -> Tracker] /\ conn'[c] = n
      /\ \A d \in Conns : d # c => conn'[d] = conn[d]
  BY <1>4, <1>5, <1>6, TrackerUpdate
<1>8. TypeOK'
  BY <1>1, <1>3, <1>7 DEF ExecInvariant, TypeOK
<1>9. JournaledFirst' /\ FinishedIsOver' /\ CaptureIsQuiescent'
  BY <1>1
     DEF ExecInvariant, JournaledFirst, FinishedIsOver, CaptureIsQuiescent, Outlived,
         Unfinished, Exempt
<1>10. TrackersStart'
  BY <1>1, <1>2, <1>6, <1>7 DEF ExecInvariant, TrackersStart
<1>11. SessionsAreHeld'
  BY <1>1, <1>6, <1>7
     DEF ExecInvariant, TypeOK, SessionsAreHeld, SessionOf, Holds, Sessions
<1>12. BusyIsHeld'
  BY <1>1, <1>6, <1>7
     DEF ExecInvariant, BusyIsHeld, HeldBy, Busy, Holds, Unfinished, TrackersStart
<1>13. CreatorSent'
  BY <1>1, <1>6, <1>7 DEF ExecInvariant, CreatorSent, Busy
<1>14. UnforwardedIsOpen'
  BY <1>1, <1>6, <1>7
     DEF ExecInvariant, UnforwardedIsOpen, Unfinished, SessionOf, TrackersStart
<1>15. TodoIsOfSession'
  BY <1>1, <1>6, <1>7 DEF ExecInvariant, TodoIsOfSession, Unfinished, SessionOf
<1>16. ReportsAreTrue'
  BY <1>1, <1>3, <1>6, <1>7 DEF ExecInvariant, ReportsAreTrue
<1>17. TracksProcesses'
  BY <1>1, <1>2, <1>7
     DEF ExecInvariant, TracksProcesses, Busy, Processes, CreatorSent, BusyIsHeld, HeldBy,
         TrackersStart
<1>18. QED
  BY <1>8, <1>9, <1>10, <1>11, <1>12, <1>13, <1>14, <1>15, <1>16, <1>17 DEF ExecInvariant

LEMMA InitializedResumeStep ==
  ASSUME ExecInvariant, NEW c \in Conns, HandleInitialized(c), conn[c].resume # None
  PROVE  ExecInvariant'
<1>1. UNCHANGED <<lease, capturing, row, at, server, session, late>>
  BY DEF HandleInitialized
<1>2. conn[c].phase = "initializing" /\ conn[c].resume # None
  BY DEF HandleInitialized
<1>3. inbox' \in [Conns -> SUBSET Frames] /\ \A d \in Conns : inbox'[d] \subseteq inbox[d]
  BY DEF ExecInvariant, TypeOK, HandleInitialized, Handled
<1>4. TypeOK /\ conn[c] \in Tracker
  BY DEF ExecInvariant, TypeOK
<1> DEFINE n == [conn[c] EXCEPT !.phase = "listing"]
<1>5. conn' = [conn EXCEPT ![c] = n]
  BY <1>4 DEF HandleInitialized
<1>6. /\ n \in Tracker
      /\ n.life = conn[c].life /\ n.phase = "listing"
      /\ n.generation = conn[c].generation /\ n.resume = conn[c].resume
      /\ n.processes = conn[c].processes /\ n.unforwarded = conn[c].unforwarded
      /\ n.forwarded = conn[c].forwarded /\ n.quiesced = conn[c].quiesced
      /\ n.todo = conn[c].todo /\ n.detach = conn[c].detach
  BY <1>4 DEF Tracker, ExecInvariant, Phases
<1> HIDE DEF n
<1>7. /\ conn' \in [Conns -> Tracker] /\ conn'[c] = n
      /\ \A d \in Conns : d # c => conn'[d] = conn[d]
  BY <1>4, <1>5, <1>6, TrackerUpdate
<1>8. TypeOK'
  BY <1>1, <1>3, <1>7 DEF ExecInvariant, TypeOK
<1>9. JournaledFirst' /\ FinishedIsOver' /\ CaptureIsQuiescent'
  BY <1>1
     DEF ExecInvariant, JournaledFirst, FinishedIsOver, CaptureIsQuiescent, Outlived,
         Unfinished, Exempt
<1>10. TrackersStart'
  BY <1>1, <1>2, <1>6, <1>7 DEF ExecInvariant, TrackersStart
<1>11. SessionsAreHeld'
  BY <1>1, <1>6, <1>7
     DEF ExecInvariant, TypeOK, SessionsAreHeld, SessionOf, Holds, Sessions
<1>12. BusyIsHeld'
  BY <1>1, <1>2, <1>7
     DEF ExecInvariant, BusyIsHeld, HeldBy, Busy, Holds, Unfinished, TrackersStart
<1>13. CreatorSent'
  BY <1>1, <1>6, <1>7 DEF ExecInvariant, CreatorSent, Busy
<1>14. UnforwardedIsOpen'
  BY <1>1, <1>6, <1>7
     DEF ExecInvariant, UnforwardedIsOpen, Unfinished, SessionOf, TrackersStart
<1>15. TodoIsOfSession'
  BY <1>1, <1>6, <1>7 DEF ExecInvariant, TodoIsOfSession, Unfinished, SessionOf
<1>16. ReportsAreTrue'
  BY <1>1, <1>3, <1>6, <1>7 DEF ExecInvariant, ReportsAreTrue
<1>17. TracksProcesses'
  BY <1>1, <1>6, <1>7
     DEF ExecInvariant, TracksProcesses, Busy, CreatorSent, BusyIsHeld, HeldBy,
         TrackersStart
<1>18. QED
  BY <1>8, <1>9, <1>10, <1>11, <1>12, <1>13, <1>14, <1>15, <1>16, <1>17 DEF ExecInvariant

LEMMA ResumeListStep ==
  ASSUME ExecInvariant, NEW c \in Conns, ResumeList(c)
  PROVE  ExecInvariant'
<1>1. UNCHANGED <<lease, capturing, row, at, inbox, server, session, late>>
  BY DEF ResumeList, gatewayOnly
<1>2. conn[c].phase = "listing"
  BY DEF ResumeList
<1>3. TypeOK /\ conn[c] \in Tracker
  BY DEF ExecInvariant, TypeOK
<1> DEFINE n == [conn[c] EXCEPT !.phase = "reattaching",
                                !.todo = ListUnfinishedProcesses(c)]
<1>4. conn' = [conn EXCEPT ![c] = n]
  BY <1>3 DEF ResumeList
<1>5. /\ n \in Tracker
      /\ n.life = conn[c].life /\ n.phase = "reattaching"
      /\ n.generation = conn[c].generation /\ n.resume = conn[c].resume
      /\ n.processes = conn[c].processes /\ n.unforwarded = conn[c].unforwarded
      /\ n.forwarded = conn[c].forwarded /\ n.quiesced = conn[c].quiesced
      /\ n.todo = ListUnfinishedProcesses(c) /\ n.detach = conn[c].detach
  BY <1>3 DEF Tracker, ExecInvariant, Phases, ListUnfinishedProcesses, OfSession
<1> HIDE DEF n
<1>6. /\ conn' \in [Conns -> Tracker] /\ conn'[c] = n
      /\ \A d \in Conns : d # c => conn'[d] = conn[d]
  BY <1>3, <1>4, <1>5, TrackerUpdate
<1>7. TypeOK'
  BY <1>1, <1>6 DEF ExecInvariant, TypeOK
<1>8. JournaledFirst' /\ FinishedIsOver' /\ CaptureIsQuiescent'
  BY <1>1
     DEF ExecInvariant, JournaledFirst, FinishedIsOver, CaptureIsQuiescent, Outlived,
         Unfinished, Exempt
<1>9. TrackersStart'
  BY <1>1, <1>2, <1>5, <1>6 DEF ExecInvariant, TrackersStart
<1>10. SessionsAreHeld'
  BY <1>1, <1>5, <1>6
     DEF ExecInvariant, TypeOK, SessionsAreHeld, SessionOf, Holds, Sessions
<1>11. BusyIsHeld'
  BY <1>1, <1>2, <1>6
     DEF ExecInvariant, BusyIsHeld, HeldBy, Busy, Holds, Unfinished, TrackersStart
<1>12. CreatorSent'
  BY <1>1, <1>5, <1>6 DEF ExecInvariant, CreatorSent, Busy
<1>13. UnforwardedIsOpen'
  BY <1>1, <1>5, <1>6 DEF ExecInvariant, UnforwardedIsOpen, Unfinished, SessionOf
<1>14. TodoIsOfSession'
  BY <1>1, <1>5, <1>6
     DEF ExecInvariant, TodoIsOfSession, Unfinished, SessionOf, ListUnfinishedProcesses,
         OfSession
<1>15. ReportsAreTrue'
  BY <1>1, <1>5, <1>6 DEF ExecInvariant, ReportsAreTrue
<1>16. TracksProcesses'
  <2> SUFFICES ASSUME NEW d \in Conns, NEW q \in Processes,
                      conn'[d].phase \in {"reattaching", "settling", "ready"},
                      Busy(q), session[at[q].session].attached = d
               PROVE  \/ q \in conn'[d].processes
                      \/ conn'[d].phase = "reattaching" /\ q \in conn'[d].todo
    BY <1>1 DEF TracksProcesses, Busy
  <2>1. CASE d # c
    BY <1>6, <2>1 DEF ExecInvariant, TracksProcesses
  <2>2. CASE d = c
    <3>1. q \in Ops /\ q \notin Filesystem
      BY DEF Processes
    <3>2. Unfinished(q)
      BY <3>1
         DEF ExecInvariant, TypeOK, JournaledFirst, FinishedIsOver, Outlived, Busy, Unfinished,
             LedgerRow
    <3>3. row[q].session = at[q].session /\ at[q].session \in Conns
      BY <3>1, <3>2 DEF ExecInvariant, BusyIsHeld, HeldBy
    <3>4. at[q].session = SessionOf(c)
      BY <1>2, <2>2, <3>3, OpsAssumption DEF ExecInvariant, SessionsAreHeld, TrackersStart
    <3>5. q \in ListUnfinishedProcesses(c)
      BY <3>1, <3>2, <3>3, <3>4 DEF ListUnfinishedProcesses, OfSession
    <3>6. QED
      BY <1>5, <1>6, <2>2, <3>5
  <2>3. QED
    BY <2>1, <2>2
<1>17. QED
  BY <1>7, <1>8, <1>9, <1>10, <1>11, <1>12, <1>13, <1>14, <1>15, <1>16 DEF ExecInvariant

LEMMA ReattachStep ==
  ASSUME ExecInvariant, NEW c \in Conns, NEW o \in Ops, Reattach(c, o)
  PROVE  ExecInvariant'
<1>1. UNCHANGED <<lease, capturing, at, inbox, server, session, late>>
  BY DEF Reattach, gatewayOnly
<1>2. conn[c].phase = "reattaching" /\ o \in conn[c].todo /\ Unfinished(o) /\ ~capturing
  BY DEF Reattach
<1>3. /\ row' \in [Ops -> LedgerRow] /\ \A q \in Ops : q # o => row'[q] = row[q]
      /\ row'[o].state = "active" /\ row'[o].session = row[o].session
      /\ row'[o].generation = row[o].generation
  BY TransitionFacts DEF ExecInvariant, Reattach, Unfinished
<1>4. TypeOK /\ conn[c] \in Tracker
  BY DEF ExecInvariant, TypeOK
<1> DEFINE n == [conn[c] EXCEPT !.todo = @ \ {o}, !.processes = @ \cup {o}]
<1>5. conn' = [conn EXCEPT ![c] = n]
  BY <1>4 DEF Reattach
<1>6. /\ n \in Tracker
      /\ n.life = conn[c].life /\ n.phase = conn[c].phase
      /\ n.generation = conn[c].generation /\ n.resume = conn[c].resume
      /\ n.processes = conn[c].processes \cup {o} /\ n.unforwarded = conn[c].unforwarded
      /\ n.forwarded = conn[c].forwarded /\ n.quiesced = conn[c].quiesced
      /\ n.todo = conn[c].todo \ {o} /\ n.detach = conn[c].detach
  BY <1>4 DEF Tracker, ExecInvariant
<1> HIDE DEF n
<1>7. /\ conn' \in [Conns -> Tracker] /\ conn'[c] = n
      /\ \A d \in Conns : d # c => conn'[d] = conn[d]
  BY <1>4, <1>5, <1>6, TrackerUpdate
<1>8. TypeOK'
  BY <1>1, <1>3, <1>7 DEF ExecInvariant, TypeOK
<1>9. TrackersStart'
  BY <1>1, <1>6, <1>7 DEF ExecInvariant, TrackersStart
<1>10. SessionsAreHeld'
  BY <1>1, <1>6, <1>7
     DEF ExecInvariant, TypeOK, SessionsAreHeld, SessionOf, Holds, Sessions
<1>11. JournaledFirst'
  BY <1>1, <1>3, <1>7 DEF ExecInvariant, JournaledFirst
<1>12. BusyIsHeld'
  BY <1>1, <1>2, <1>3, <1>6, <1>7
     DEF ExecInvariant, BusyIsHeld, HeldBy, Busy, Holds, Unfinished
<1>13. CreatorSent'
  BY <1>1, <1>6, <1>7 DEF ExecInvariant, CreatorSent, Busy
<1>14. UnforwardedIsOpen'
  BY <1>1, <1>2, <1>3, <1>6, <1>7
     DEF ExecInvariant, UnforwardedIsOpen, Unfinished, SessionOf
<1>15. TodoIsOfSession'
  BY <1>1, <1>2, <1>3, <1>6, <1>7
     DEF ExecInvariant, TodoIsOfSession, Unfinished, SessionOf
<1>16. ReportsAreTrue'
  BY <1>1, <1>6, <1>7 DEF ExecInvariant, ReportsAreTrue
<1>17. FinishedIsOver'
  BY <1>1, <1>3, <1>7 DEF ExecInvariant, FinishedIsOver, Outlived
<1>18. CaptureIsQuiescent'
  BY <1>1, <1>2, <1>7 DEF ExecInvariant, CaptureIsQuiescent, Exempt
<1>19. TracksProcesses'
  BY <1>1, <1>6, <1>7 DEF ExecInvariant, TracksProcesses, Busy
<1>20. QED
  BY <1>8, <1>9, <1>10, <1>11, <1>12, <1>13, <1>14, <1>15, <1>16, <1>17, <1>18, <1>19
     DEF ExecInvariant

LEMMA ListFilesystemStep ==
  ASSUME ExecInvariant, NEW c \in Conns, ListFilesystem(c)
  PROVE  ExecInvariant'
<1>1. UNCHANGED <<lease, capturing, row, at, inbox, server, session, late>>
  BY DEF ListFilesystem, gatewayOnly
<1>2. conn[c].phase = "reattaching" /\ conn[c].todo = {}
  BY DEF ListFilesystem
<1>3. TypeOK /\ conn[c] \in Tracker
  BY DEF ExecInvariant, TypeOK
<1> DEFINE n == [conn[c] EXCEPT !.phase = "settling", !.todo = OfSession(c) \cap Filesystem]
<1>4. conn' = [conn EXCEPT ![c] = n]
  BY <1>3 DEF ListFilesystem
<1>5. /\ n \in Tracker
      /\ n.life = conn[c].life /\ n.phase = "settling"
      /\ n.generation = conn[c].generation /\ n.resume = conn[c].resume
      /\ n.processes = conn[c].processes /\ n.unforwarded = conn[c].unforwarded
      /\ n.forwarded = conn[c].forwarded /\ n.quiesced = conn[c].quiesced
      /\ n.todo = OfSession(c) \cap Filesystem /\ n.detach = conn[c].detach
  BY <1>3 DEF Tracker, ExecInvariant, Phases, OfSession
<1> HIDE DEF n
<1>6. /\ conn' \in [Conns -> Tracker] /\ conn'[c] = n
      /\ \A d \in Conns : d # c => conn'[d] = conn[d]
  BY <1>3, <1>4, <1>5, TrackerUpdate
<1>7. TypeOK'
  BY <1>1, <1>6 DEF ExecInvariant, TypeOK
<1>8. JournaledFirst' /\ FinishedIsOver' /\ CaptureIsQuiescent'
  BY <1>1
     DEF ExecInvariant, JournaledFirst, FinishedIsOver, CaptureIsQuiescent, Outlived,
         Unfinished, Exempt
<1>9. TrackersStart'
  BY <1>1, <1>2, <1>5, <1>6 DEF ExecInvariant, TrackersStart
<1>10. SessionsAreHeld'
  BY <1>1, <1>5, <1>6
     DEF ExecInvariant, TypeOK, SessionsAreHeld, SessionOf, Holds, Sessions
<1>11. BusyIsHeld'
  BY <1>1, <1>2, <1>6
     DEF ExecInvariant, BusyIsHeld, HeldBy, Busy, Holds, Unfinished, TrackersStart
<1>12. CreatorSent'
  BY <1>1, <1>5, <1>6 DEF ExecInvariant, CreatorSent, Busy
<1>13. UnforwardedIsOpen'
  BY <1>1, <1>5, <1>6 DEF ExecInvariant, UnforwardedIsOpen, Unfinished, SessionOf
<1>14. TodoIsOfSession'
  BY <1>1, <1>5, <1>6 DEF ExecInvariant, TodoIsOfSession, Unfinished, SessionOf, OfSession
<1>15. ReportsAreTrue'
  BY <1>1, <1>5, <1>6 DEF ExecInvariant, ReportsAreTrue
<1>16. TracksProcesses'
  BY <1>1, <1>2, <1>5, <1>6 DEF ExecInvariant, TracksProcesses, Busy
<1>17. QED
  BY <1>7, <1>8, <1>9, <1>10, <1>11, <1>12, <1>13, <1>14, <1>15, <1>16 DEF ExecInvariant

LEMMA ResumedStep ==
  ASSUME ExecInvariant, NEW c \in Conns, Resumed(c)
  PROVE  ExecInvariant'
<1>1. UNCHANGED <<lease, capturing, row, at, inbox, server, session, late>>
  BY DEF Resumed, gatewayOnly
<1>2. conn[c].phase = "settling" /\ conn[c].todo = {}
  BY DEF Resumed
<1>3. TypeOK /\ conn[c] \in Tracker
  BY DEF ExecInvariant, TypeOK
<1> DEFINE n == [conn[c] EXCEPT !.phase = "ready", !.quiesced = {}]
<1>4. conn' = [conn EXCEPT ![c] = n]
  BY <1>3 DEF Resumed
<1>5. /\ n \in Tracker
      /\ n.life = conn[c].life /\ n.phase = "ready"
      /\ n.generation = conn[c].generation /\ n.resume = conn[c].resume
      /\ n.processes = conn[c].processes /\ n.unforwarded = conn[c].unforwarded
      /\ n.forwarded = conn[c].forwarded /\ n.quiesced = {}
      /\ n.todo = conn[c].todo /\ n.detach = conn[c].detach
  BY <1>3 DEF Tracker, ExecInvariant, Phases
<1> HIDE DEF n
<1>6. /\ conn' \in [Conns -> Tracker] /\ conn'[c] = n
      /\ \A d \in Conns : d # c => conn'[d] = conn[d]
  BY <1>3, <1>4, <1>5, TrackerUpdate
<1>7. TypeOK'
  BY <1>1, <1>6 DEF ExecInvariant, TypeOK
<1>8. JournaledFirst' /\ FinishedIsOver' /\ CaptureIsQuiescent'
  BY <1>1
     DEF ExecInvariant, JournaledFirst, FinishedIsOver, CaptureIsQuiescent, Outlived,
         Unfinished, Exempt
<1>9. TrackersStart'
  BY <1>1, <1>2, <1>5, <1>6 DEF ExecInvariant, TrackersStart
<1>10. SessionsAreHeld'
  BY <1>1, <1>5, <1>6
     DEF ExecInvariant, TypeOK, SessionsAreHeld, SessionOf, Holds, Sessions
<1>11. BusyIsHeld'
  BY <1>1, <1>5, <1>6
     DEF ExecInvariant, BusyIsHeld, HeldBy, Busy, Holds, Unfinished, TrackersStart
<1>12. CreatorSent'
  BY <1>1, <1>5, <1>6 DEF ExecInvariant, CreatorSent, Busy
<1>13. UnforwardedIsOpen'
  BY <1>1, <1>5, <1>6
     DEF ExecInvariant, UnforwardedIsOpen, Unfinished, SessionOf, TrackersStart
<1>14. TodoIsOfSession'
  BY <1>1, <1>5, <1>6 DEF ExecInvariant, TodoIsOfSession, Unfinished, SessionOf
<1>15. ReportsAreTrue'
  BY <1>1, <1>5, <1>6 DEF ExecInvariant, ReportsAreTrue
<1>16. TracksProcesses'
  BY <1>1, <1>2, <1>5, <1>6 DEF ExecInvariant, TracksProcesses, Busy
<1>17. QED
  BY <1>7, <1>8, <1>9, <1>10, <1>11, <1>12, <1>13, <1>14, <1>15, <1>16 DEF ExecInvariant

LEMMA ResumeFailsStep ==
  ASSUME ExecInvariant, NEW c \in Conns, ResumeFails(c)
  PROVE  ExecInvariant'
<1>1. UNCHANGED <<lease, capturing, row, at, inbox, server, session, late>>
  BY DEF ResumeFails, gatewayOnly
<1>2. conn[c].phase \in {"listing", "reattaching", "settling"} /\ conn[c].life \notin {"off", "gone"}
  BY DEF ResumeFails, ExecInvariant, TrackersStart
<1>3. TypeOK /\ conn[c] \in Tracker
  BY DEF ExecInvariant, TypeOK
<1> DEFINE n == [conn[c] EXCEPT !.life = IF @ = "open" THEN "closing" ELSE @,
                                !.phase = "opened"]
<1>4. conn' = [conn EXCEPT ![c] = n]
  BY <1>3 DEF ResumeFails, Closed
<1>5. /\ n \in Tracker
      /\ n.life # "open" /\ n.life \in {conn[c].life, "closing"} /\ n.phase = "opened"
      /\ n.generation = conn[c].generation /\ n.resume = conn[c].resume
      /\ n.processes = conn[c].processes /\ n.unforwarded = conn[c].unforwarded
      /\ n.forwarded = conn[c].forwarded /\ n.quiesced = conn[c].quiesced
      /\ n.todo = conn[c].todo /\ n.detach = conn[c].detach
  BY <1>3 DEF Tracker, ExecInvariant, Phases
<1> HIDE DEF n
<1>6. /\ conn' \in [Conns -> Tracker] /\ conn'[c] = n
      /\ \A d \in Conns : d # c => conn'[d] = conn[d]
  BY <1>3, <1>4, <1>5, TrackerUpdate
<1>7. TypeOK'
  BY <1>1, <1>6 DEF ExecInvariant, TypeOK
<1>8. JournaledFirst' /\ FinishedIsOver' /\ CaptureIsQuiescent'
  BY <1>1
     DEF ExecInvariant, JournaledFirst, FinishedIsOver, CaptureIsQuiescent, Outlived,
         Unfinished, Exempt
<1>9. TrackersStart'
  BY <1>1, <1>2, <1>5, <1>6 DEF ExecInvariant, TrackersStart
<1>10. SessionsAreHeld'
  BY <1>1, <1>2, <1>5, <1>6
     DEF ExecInvariant, TypeOK, SessionsAreHeld, SessionOf, Holds, Sessions
<1>11. BusyIsHeld'
  BY <1>1, <1>2, <1>6
     DEF ExecInvariant, BusyIsHeld, HeldBy, Busy, Holds, Unfinished, TrackersStart
<1>12. CreatorSent'
  BY <1>1, <1>2, <1>5, <1>6 DEF ExecInvariant, CreatorSent, Busy
<1>13. UnforwardedIsOpen'
  BY <1>1, <1>5, <1>6
     DEF ExecInvariant, UnforwardedIsOpen, Unfinished, SessionOf, TrackersStart
<1>14. TodoIsOfSession'
  BY <1>1, <1>5, <1>6 DEF ExecInvariant, TodoIsOfSession, Unfinished, SessionOf
<1>15. ReportsAreTrue'
  BY <1>1, <1>5, <1>6 DEF ExecInvariant, ReportsAreTrue
<1>16. TracksProcesses'
  BY <1>1, <1>5, <1>6 DEF ExecInvariant, TracksProcesses, Busy
<1>17. QED
  BY <1>7, <1>8, <1>9, <1>10, <1>11, <1>12, <1>13, <1>14, <1>15, <1>16 DEF ExecInvariant

LEMMA SettleFilesystemStep ==
  ASSUME ExecInvariant, NEW c \in Conns, NEW o \in Ops, SettleFilesystem(c, o)
  PROVE  ExecInvariant'
<1>1. UNCHANGED <<lease, capturing, at, inbox, server, session>>
  BY DEF SettleFilesystem
<1>2. conn[c].phase = "settling" /\ o \in conn[c].todo /\ ~capturing
  BY DEF SettleFilesystem
<1>3. /\ row' \in [Ops -> LedgerRow] /\ \A q \in Ops : q # o => row'[q] = row[q]
      /\ row'[o].state = "finished"
  BY TransitionFacts DEF ExecInvariant, SettleFilesystem
<1>4. /\ late \subseteq late' /\ late' \subseteq late \cup {o} /\ o \in Filesystem
      /\ o \in late' \/ session[SessionOf(c)].attached \in {c, None}
  BY <1>2 DEF SettleFilesystem, ExecInvariant, TodoIsOfSession
<1>5. TypeOK /\ conn[c] \in Tracker
  BY DEF ExecInvariant, TypeOK
<1> DEFINE n == [conn[c] EXCEPT !.todo = @ \ {o}]
<1>6. conn' = [conn EXCEPT ![c] = n]
  BY <1>4 DEF SettleFilesystem
<1>7. /\ n \in Tracker
      /\ n.life = conn[c].life /\ n.phase = conn[c].phase
      /\ n.generation = conn[c].generation /\ n.resume = conn[c].resume
      /\ n.processes = conn[c].processes /\ n.unforwarded = conn[c].unforwarded
      /\ n.forwarded = conn[c].forwarded /\ n.quiesced = conn[c].quiesced
      /\ n.todo = conn[c].todo \ {o} /\ n.detach = conn[c].detach
  BY <1>5 DEF Tracker, ExecInvariant
<1> HIDE DEF n
<1>8. /\ conn' \in [Conns -> Tracker] /\ conn'[c] = n
      /\ \A d \in Conns : d # c => conn'[d] = conn[d]
  BY <1>5, <1>6, <1>7, TrackerUpdate
<1>9. TypeOK'
  BY <1>1, <1>3, <1>4, <1>7, <1>8 DEF ExecInvariant, TypeOK
<1>10. TrackersStart'
  BY <1>1, <1>7, <1>8 DEF ExecInvariant, TrackersStart
<1>11. SessionsAreHeld'
  BY <1>1, <1>7, <1>8
     DEF ExecInvariant, TypeOK, SessionsAreHeld, SessionOf, Holds, Sessions
<1>12. JournaledFirst'
  BY <1>1, <1>3, <1>7, <1>8 DEF ExecInvariant, JournaledFirst
<1>13. BusyIsHeld'
  BY <1>1, <1>3, <1>7, <1>8 DEF ExecInvariant, BusyIsHeld, HeldBy, Busy, Holds, Unfinished
<1>14. CreatorSent'
  BY <1>1, <1>7, <1>8 DEF ExecInvariant, CreatorSent, Busy
<1>15. UnforwardedIsOpen'
  <2>1. ASSUME NEW d \in Conns, o \in conn[d].unforwarded,
               conn[d].life = "open", server[d] = "attached"
        PROVE  o \in late'
    <3>1. o \in late \/ Unfinished(o)
      BY <2>1 DEF ExecInvariant, UnforwardedIsOpen
    <3>2. d # c /\ conn[d].life # "gone"
      BY <1>2, <2>1 DEF ExecInvariant, TrackersStart
    <3>3. session[SessionOf(d)].attached = d
      BY <2>1, <3>2 DEF ExecInvariant, SessionsAreHeld, Holds
    <3>4. Unfinished(o) => SessionOf(c) = SessionOf(d)
      BY <1>2, <2>1 DEF ExecInvariant, UnforwardedIsOpen, TodoIsOfSession
    <3>5. QED
      BY <1>4, <3>1, <3>2, <3>3, <3>4, OpsAssumption
  <2>2. QED
    BY <1>1, <1>3, <1>4, <1>7, <1>8, <2>1
       DEF ExecInvariant, UnforwardedIsOpen, Unfinished, SessionOf
<1>16. TodoIsOfSession'
  BY <1>1, <1>3, <1>7, <1>8 DEF ExecInvariant, TodoIsOfSession, Unfinished, SessionOf
<1>17. ReportsAreTrue'
  BY <1>1, <1>7, <1>8 DEF ExecInvariant, ReportsAreTrue
<1>18. FinishedIsOver'
  <2>1. ASSUME Busy(o) PROVE Outlived(o) \/ o \in late'
    <3>1. row[o].state = "finished" => Outlived(o) \/ o \in late
      BY <2>1 DEF ExecInvariant, FinishedIsOver, Busy
    <3>2. row[o].state # "finished" => Unfinished(o)
      BY <2>1 DEF ExecInvariant, TypeOK, LedgerRow, JournaledFirst, Unfinished, Busy
    <3>3. HeldBy(o, at[o].via, at[o].session) /\ (Unfinished(o) => at[o].session = SessionOf(c))
      BY <1>2, <2>1 DEF ExecInvariant, BusyIsHeld, HeldBy, TodoIsOfSession
    <3>4. at[o].via # c
      BY <1>2, <3>3 DEF ExecInvariant, TrackersStart, HeldBy
    <3>5. Unfinished(o) /\ o \notin late' => ~Holds(at[o].via)
      BY <1>4, <3>3, <3>4, OpsAssumption DEF HeldBy
    <3>6. ~Holds(at[o].via) => Outlived(o)
      BY <1>4, <2>1, <3>3 DEF HeldBy, Holds, Outlived
    <3>7. QED
      BY <1>4, <3>1, <3>2, <3>5, <3>6
  <2>2. QED
    BY <1>1, <1>3, <1>4, <1>7, <1>8, <2>1
       DEF ExecInvariant, FinishedIsOver, Outlived, Busy
<1>19. CaptureIsQuiescent'
  BY <1>1, <1>2, <1>7, <1>8 DEF ExecInvariant, CaptureIsQuiescent, Exempt
<1>20. TracksProcesses'
  BY <1>1, <1>2, <1>7, <1>8 DEF ExecInvariant, TracksProcesses, Busy
<1>21. QED
  BY <1>9, <1>10, <1>11, <1>12, <1>13, <1>14, <1>15, <1>16, <1>17, <1>18, <1>19, <1>20
     DEF ExecInvariant

LEMMA ServerAttachStep ==
  ASSUME ExecInvariant, NEW c \in Conns, ServerInitialize(c),
         conn[c].resume = None \/ session[SessionOf(c)] = [state |-> "live", attached |-> None]
  PROVE  ExecInvariant'
<1>1. UNCHANGED <<lease, capturing, row, conn, at, late>>
  BY DEF ServerInitialize, ServerStep
<1>2. /\ server[c] = "open" /\ conn[c].phase = "initializing" /\ conn[c].life # "gone"
      /\ conn[c].unforwarded = {} /\ SessionOf(c) \in Conns
  BY OpsAssumption
     DEF ServerInitialize, ExecInvariant, TypeOK, TrackersStart, SessionOf, Tracker
<1>3. /\ session' = [session EXCEPT ![SessionOf(c)] = [state |-> "live", attached |-> c]]
      /\ server' = [server EXCEPT ![c] = "attached"] /\ Reply(c, Frame("initialized", None))
  BY DEF ServerInitialize
<1>4. /\ session[SessionOf(c)].attached = None
      /\ conn[c].resume = None => SessionOf(c) = c /\ session[SessionOf(c)].state = "none"
  BY <1>2 DEF ExecInvariant, SessionsAreHeld, SessionOf
<1>5. /\ inbox' \in [Conns -> SUBSET Frames]
      /\ \A d \in Conns, u \in ReportTypes, p \in Ops :
           Frame(u, p) \in inbox'[d] => Frame(u, p) \in inbox[d] \/ at'[p].place = "ended"
  BY <1>1, <1>3, ReplyFacts DEF ExecInvariant, FrameTypes, ReportTypes
<1>6. TypeOK'
  BY <1>1, <1>3, <1>5 DEF ExecInvariant, TypeOK, Sessions, ServerLives
<1>7. JournaledFirst' /\ TodoIsOfSession' /\ CaptureIsQuiescent'
  BY <1>1
     DEF ExecInvariant, JournaledFirst, TodoIsOfSession, CaptureIsQuiescent, Unfinished,
         SessionOf, Exempt
<1>8. TrackersStart'
  BY <1>1, <1>2, <1>3 DEF ExecInvariant, TrackersStart
<1>9. SessionsAreHeld'
  BY <1>1, <1>2, <1>3, OpsAssumption
     DEF ExecInvariant, TypeOK, SessionsAreHeld, SessionOf, Holds, TrackersStart
<1>10. BusyIsHeld'
  BY <1>1, <1>2, <1>3, <1>4, OpsAssumption
     DEF ExecInvariant, BusyIsHeld, HeldBy, Busy, Holds, Unfinished
<1>11. CreatorSent'
  BY <1>1, <1>3, <1>4 DEF ExecInvariant, CreatorSent, Busy, BusyIsHeld, HeldBy
<1>12. UnforwardedIsOpen'
  BY <1>1, <1>2, <1>3 DEF ExecInvariant, UnforwardedIsOpen, Unfinished, SessionOf
<1>13. ReportsAreTrue'
  BY <1>1, <1>5 DEF ExecInvariant, ReportsAreTrue
<1>14. FinishedIsOver'
  BY <1>1, <1>2, <1>3 DEF ExecInvariant, FinishedIsOver, Outlived, BusyIsHeld, HeldBy
<1>15. TracksProcesses'
  BY <1>1, <1>2, <1>3 DEF ExecInvariant, TracksProcesses, Busy, BusyIsHeld, HeldBy
<1>16. QED
  BY <1>6, <1>7, <1>8, <1>9, <1>10, <1>11, <1>12, <1>13, <1>14, <1>15 DEF ExecInvariant

LEMMA ServerRefuseStep ==
  ASSUME ExecInvariant, NEW c \in Conns, ServerInitialize(c),
         ~(conn[c].resume = None \/ session[SessionOf(c)] = [state |-> "live", attached |-> None])
  PROVE  ExecInvariant'
<1>1. UNCHANGED <<lease, capturing, row, conn, at, session, late>>
  BY DEF ServerInitialize, ServerStep
<1>2. /\ server[c] = "open" /\ conn[c].phase = "initializing" /\ conn[c].life # "gone"
      /\ conn[c].unforwarded = {} /\ SessionOf(c) \in Conns
  BY OpsAssumption
     DEF ServerInitialize, ExecInvariant, TypeOK, TrackersStart, SessionOf, Tracker
<1>3. server' = [server EXCEPT ![c] = "refused"] /\ Reply(c, Frame("refused", None))
  BY DEF ServerInitialize
<1>4. /\ inbox' \in [Conns -> SUBSET Frames]
      /\ \A d \in Conns, u \in ReportTypes, p \in Ops :
           Frame(u, p) \in inbox'[d] => Frame(u, p) \in inbox[d] \/ at'[p].place = "ended"
  BY <1>1, <1>3, ReplyFacts DEF ExecInvariant, FrameTypes, ReportTypes
<1>5. TypeOK'
  BY <1>1, <1>3, <1>4 DEF ExecInvariant, TypeOK, ServerLives
<1>6. JournaledFirst' /\ CreatorSent' /\ TodoIsOfSession' /\ CaptureIsQuiescent' /\ TracksProcesses'
  BY <1>1
     DEF ExecInvariant, JournaledFirst, CreatorSent, TodoIsOfSession, CaptureIsQuiescent,
         TracksProcesses, Busy, Unfinished, SessionOf, Exempt
<1>7. TrackersStart'
  BY <1>1, <1>2, <1>3 DEF ExecInvariant, TrackersStart
<1>8. SessionsAreHeld'
  BY <1>1, <1>2, <1>3 DEF ExecInvariant, SessionsAreHeld, SessionOf, Holds
<1>9. BusyIsHeld'
  BY <1>1, <1>2, <1>3 DEF ExecInvariant, BusyIsHeld, HeldBy, Busy, Holds, Unfinished
<1>10. UnforwardedIsOpen'
  BY <1>1, <1>3 DEF ExecInvariant, UnforwardedIsOpen, Unfinished, SessionOf
<1>11. ReportsAreTrue'
  BY <1>1, <1>4 DEF ExecInvariant, ReportsAreTrue
<1>12. FinishedIsOver'
  BY <1>1, <1>2, <1>3 DEF ExecInvariant, FinishedIsOver, Outlived, BusyIsHeld, HeldBy
<1>13. QED
  BY <1>5, <1>6, <1>7, <1>8, <1>9, <1>10, <1>11, <1>12 DEF ExecInvariant

LEMMA ExecuteStep ==
  ASSUME ExecInvariant, NEW c \in Conns, NEW o \in Ops, Execute(c, o)
  PROVE  ExecInvariant'
<1>1. UNCHANGED <<lease, capturing, row, conn, server, session, late>>
  BY DEF Execute, ServerStep
<1>2. at[o].place = "sent"
  BY DEF Execute
<1>3. /\ at' \in [Ops -> Whereabouts] /\ \A q \in Ops : q # o => at'[q] = at[q]
      /\ \/ at'[o].place = "ended"
         \/ /\ at'[o].place = "running" /\ at'[o].via = at[o].via /\ at'[o].session = at[o].session
  BY OpsAssumption DEF ExecInvariant, TypeOK, Execute, Place, Whereabouts
<1>4. /\ inbox' \in [Conns -> SUBSET Frames]
      /\ \A d \in Conns, u \in ReportTypes, p \in Ops :
           Frame(u, p) \in inbox'[d] => Frame(u, p) \in inbox[d] \/ at'[p].place = "ended"
  <2>1. CASE UNCHANGED inbox
    BY <2>1 DEF ExecInvariant, TypeOK
  <2>2. CASE at' = [at EXCEPT ![o] = Place("ended")] /\ Reply(c, Frame("error", o))
    <3>1. at'[o].place = "ended"
      BY <2>2 DEF ExecInvariant, TypeOK, Place
    <3>2. QED
      BY <2>2, <3>1, ReplyFacts DEF ExecInvariant, FrameTypes, ReportTypes
  <2>3. QED
    BY <2>1, <2>2 DEF Execute
<1>5. TypeOK'
  BY <1>1, <1>3, <1>4 DEF ExecInvariant, TypeOK
<1>6. TrackersStart' /\ SessionsAreHeld' /\ TodoIsOfSession' /\ CaptureIsQuiescent'
  BY <1>1
     DEF ExecInvariant, TrackersStart, SessionsAreHeld, TodoIsOfSession,
         CaptureIsQuiescent, SessionOf, Holds, Unfinished, Exempt
<1>7. JournaledFirst'
  BY <1>1, <1>2, <1>3 DEF ExecInvariant, JournaledFirst
<1>8. BusyIsHeld'
  BY <1>1, <1>2, <1>3 DEF ExecInvariant, BusyIsHeld, HeldBy, Busy, Holds, Unfinished
<1>9. CreatorSent'
  BY <1>1, <1>2, <1>3 DEF ExecInvariant, CreatorSent, Busy
<1>10. UnforwardedIsOpen'
  BY <1>1, <1>2, <1>3 DEF ExecInvariant, UnforwardedIsOpen, Unfinished, SessionOf
<1>11. ReportsAreTrue'
  BY <1>1, <1>2, <1>3, <1>4 DEF ExecInvariant, ReportsAreTrue
<1>12. FinishedIsOver'
  BY <1>1, <1>2, <1>3 DEF ExecInvariant, FinishedIsOver, Outlived, BusyIsHeld, HeldBy
<1>13. TracksProcesses'
  BY <1>1, <1>2, <1>3 DEF ExecInvariant, TracksProcesses, Busy, Processes
<1>14. QED
  BY <1>5, <1>6, <1>7, <1>8, <1>9, <1>10, <1>11, <1>12, <1>13 DEF ExecInvariant

(* A mutation is over, and reported to whom it concerns. *)
LEMMA MutationEndsStep ==
  ASSUME ExecInvariant, NEW o \in Ops, at[o].place = "running",
         at' = [at EXCEPT ![o] = Place("ended")],
         UNCHANGED <<lease, capturing, row, conn, server, session, late>>,
         inbox' \in [Conns -> SUBSET Frames],
         \A d \in Conns, u \in ReportTypes, p \in Ops :
           Frame(u, p) \in inbox'[d] => Frame(u, p) \in inbox[d] \/ at'[p].place = "ended"
  PROVE  ExecInvariant'
<1>1. UNCHANGED <<lease, capturing, row, conn, server, session, late>>
  OBVIOUS
<1>2. at[o].place = "running"
  OBVIOUS
<1>3. /\ at' \in [Ops -> Whereabouts] /\ \A q \in Ops : q # o => at'[q] = at[q]
      /\ at'[o].place = "ended"
  BY OpsAssumption DEF ExecInvariant, TypeOK, Place, Whereabouts
<1>4. /\ inbox' \in [Conns -> SUBSET Frames]
      /\ \A d \in Conns, u \in ReportTypes, p \in Ops :
           Frame(u, p) \in inbox'[d] => Frame(u, p) \in inbox[d] \/ at'[p].place = "ended"
  OBVIOUS
<1>5. TypeOK'
  BY <1>1, <1>3 DEF ExecInvariant, TypeOK
<1>6. TrackersStart' /\ SessionsAreHeld' /\ TodoIsOfSession' /\ CaptureIsQuiescent'
  BY <1>1
     DEF ExecInvariant, TrackersStart, SessionsAreHeld, TodoIsOfSession,
         CaptureIsQuiescent, SessionOf, Holds, Unfinished, Exempt
<1>7. JournaledFirst'
  BY <1>1 DEF ExecInvariant, JournaledFirst
<1>8. BusyIsHeld'
  BY <1>1, <1>3 DEF ExecInvariant, BusyIsHeld, HeldBy, Busy, Holds, Unfinished
<1>9. CreatorSent'
  BY <1>1, <1>3 DEF ExecInvariant, CreatorSent, Busy
<1>10. UnforwardedIsOpen'
  BY <1>1 DEF ExecInvariant, UnforwardedIsOpen, Unfinished, SessionOf
<1>11. ReportsAreTrue'
  BY <1>1 DEF ExecInvariant, ReportsAreTrue
<1>12. FinishedIsOver'
  BY <1>1, <1>3 DEF ExecInvariant, FinishedIsOver, Outlived
<1>13. TracksProcesses'
  BY <1>1, <1>3 DEF ExecInvariant, TracksProcesses, Busy
<1>14. QED
  BY <1>5, <1>6, <1>7, <1>8, <1>9, <1>10, <1>11, <1>12, <1>13 DEF ExecInvariant

LEMMA FilesystemEndsStep ==
  ASSUME ExecInvariant, NEW o \in Ops, FilesystemEnds(o)
  PROVE  ExecInvariant'
<1>1. /\ at[o].place = "running" /\ at' = [at EXCEPT ![o] = Place("ended")]
      /\ UNCHANGED <<lease, capturing, row, conn, server, session, late>>
  BY DEF FilesystemEnds, ServerStep
<1>2. at'[o].place = "ended" /\ at[o].via \in Conns /\ TypeOK
  BY <1>1 DEF ExecInvariant, TypeOK, Place, BusyIsHeld, HeldBy, Busy
<1>3. UNCHANGED inbox \/ Reply(at[o].via, Frame("response", o))
  BY DEF FilesystemEnds
<1>4. /\ inbox' \in [Conns -> SUBSET Frames]
      /\ \A d \in Conns, u \in ReportTypes, p \in Ops :
           Frame(u, p) \in inbox'[d] => Frame(u, p) \in inbox[d] \/ at'[p].place = "ended"
  <2>1. CASE UNCHANGED inbox
    BY <1>2, <2>1 DEF TypeOK
  <2>2. CASE Reply(at[o].via, Frame("response", o))
    BY <1>2, <2>2, ReplyFacts DEF FrameTypes, ReportTypes
  <2>3. QED
    BY <1>3, <2>1, <2>2
<1>5. QED
  BY <1>1, <1>4, MutationEndsStep

LEMMA ProcessQuiescesStep ==
  ASSUME ExecInvariant, NEW o \in Ops, ProcessQuiesces(o)
  PROVE  ExecInvariant'
<1> DEFINE a == session[at[o].session].attached
<1>1. /\ at[o].place = "running" /\ at' = [at EXCEPT ![o] = Place("ended")]
      /\ UNCHANGED <<lease, capturing, row, conn, server, session, late>>
  BY DEF ProcessQuiesces, ServerStep
<1>2. at'[o].place = "ended" /\ a \in Conns \cup {None} /\ TypeOK
  BY <1>1 DEF ExecInvariant, TypeOK, Place, BusyIsHeld, HeldBy, Busy, Sessions
<1>3. UNCHANGED inbox \/ (a # None /\ Reply(a, Frame("quiesced", o)))
  BY DEF ProcessQuiesces
<1> HIDE DEF a
<1>4. /\ inbox' \in [Conns -> SUBSET Frames]
      /\ \A d \in Conns, u \in ReportTypes, p \in Ops :
           Frame(u, p) \in inbox'[d] => Frame(u, p) \in inbox[d] \/ at'[p].place = "ended"
  <2>1. CASE UNCHANGED inbox
    BY <1>2, <2>1 DEF TypeOK
  <2>2. CASE a # None /\ Reply(a, Frame("quiesced", o))
    BY <1>2, <2>2, ReplyFacts DEF FrameTypes, ReportTypes
  <2>3. QED
    BY <1>3, <2>1, <2>2
<1>5. QED
  BY <1>1, <1>4, MutationEndsStep

LEMMA AnswerReadStep ==
  ASSUME ExecInvariant, NEW c \in Conns, NEW o \in Ops, AnswerRead(c, o)
  PROVE  ExecInvariant'
<1>1. UNCHANGED <<lease, capturing, row, conn, at, server, session, late>>
  BY DEF AnswerRead, ServerStep
<1>2. at[o].place = "ended" /\ Reply(c, Frame("read", o))
  BY DEF AnswerRead
<1>3. /\ inbox' \in [Conns -> SUBSET Frames]
      /\ \A d \in Conns, u \in ReportTypes, p \in Ops :
           Frame(u, p) \in inbox'[d] => Frame(u, p) \in inbox[d] \/ at'[p].place = "ended"
  BY <1>1, <1>2, ReplyFacts DEF ExecInvariant, FrameTypes, ReportTypes
<1>4. TypeOK'
  BY <1>1, <1>3 DEF ExecInvariant, TypeOK
<1>5. /\ TrackersStart' /\ SessionsAreHeld' /\ JournaledFirst' /\ BusyIsHeld' /\ CreatorSent'
      /\ UnforwardedIsOpen' /\ TodoIsOfSession' /\ FinishedIsOver' /\ CaptureIsQuiescent'
      /\ TracksProcesses'
  BY <1>1
     DEF ExecInvariant, TrackersStart, SessionsAreHeld, JournaledFirst, BusyIsHeld,
         CreatorSent, UnforwardedIsOpen, TodoIsOfSession, FinishedIsOver,
         CaptureIsQuiescent, TracksProcesses, SessionOf, Holds, HeldBy, Busy, Unfinished,
         Outlived, Exempt
<1>6. ReportsAreTrue'
  BY <1>1, <1>3 DEF ExecInvariant, ReportsAreTrue
<1>7. QED
  BY <1>4, <1>5, <1>6 DEF ExecInvariant

LEMMA ServerDisconnectStep ==
  ASSUME ExecInvariant, NEW c \in Conns, ServerDisconnect(c)
  PROVE  ExecInvariant'
<1>1. UNCHANGED <<lease, capturing, row, conn, inbox, session, late>>
  BY DEF ServerDisconnect, ServerStep
<1>2. /\ server' = [server EXCEPT ![c] = IF @ = "attached" THEN "ending" ELSE "ended"]
      /\ server[c] \in {"open", "refused", "attached"}
  BY DEF ServerDisconnect
<1>3. /\ server' \in [Conns -> ServerLives] /\ \A d \in Conns : d # c => server'[d] = server[d]
      /\ server[c] = "attached" => server'[c] = "ending"
      /\ server[c] # "attached" => server'[c] = "ended"
  BY <1>2 DEF ExecInvariant, TypeOK, ServerLives
<1>4. /\ at' \in [Ops -> Whereabouts]
      /\ \A q \in Ops : \/ at'[q] = at[q] /\ ~(at[q].place = "sent" /\ at[q].via = c)
                        \/ at[q].place = "sent" /\ at'[q].place = "lost"
  BY OpsAssumption DEF ExecInvariant, TypeOK, ServerDisconnect, Place, Whereabouts
<1>5. TypeOK'
  BY <1>1, <1>3, <1>4 DEF ExecInvariant, TypeOK
<1>6. TodoIsOfSession' /\ CaptureIsQuiescent'
  BY <1>1
     DEF ExecInvariant, TodoIsOfSession, CaptureIsQuiescent, Unfinished, SessionOf, Exempt
<1>7. TrackersStart'
  BY <1>1, <1>2 DEF ExecInvariant, TrackersStart
<1>8. SessionsAreHeld'
  BY <1>1, <1>2 DEF ExecInvariant, SessionsAreHeld, SessionOf, Holds
<1>9. JournaledFirst'
  BY <1>1, <1>4 DEF ExecInvariant, JournaledFirst
<1>10. BusyIsHeld'
  BY <1>1, <1>3, <1>4
     DEF ExecInvariant, BusyIsHeld, HeldBy, Busy, Holds, Unfinished, ServerLives
<1>11. CreatorSent'
  BY <1>1, <1>4 DEF ExecInvariant, CreatorSent, Busy
<1>12. UnforwardedIsOpen'
  BY <1>1, <1>3, <1>4 DEF ExecInvariant, UnforwardedIsOpen, Unfinished, SessionOf
<1>13. ReportsAreTrue'
  BY <1>1, <1>4 DEF ExecInvariant, ReportsAreTrue
<1>14. FinishedIsOver'
  BY <1>1, <1>2, <1>4 DEF ExecInvariant, FinishedIsOver, Outlived, BusyIsHeld, HeldBy
<1>15. TracksProcesses'
  BY <1>1, <1>4 DEF ExecInvariant, TracksProcesses, Busy, Processes
<1>16. QED
  BY <1>5, <1>6, <1>7, <1>8, <1>9, <1>10, <1>11, <1>12, <1>13, <1>14, <1>15
     DEF ExecInvariant

LEMMA ServerDetachStep ==
  ASSUME ExecInvariant, NEW c \in Conns, ServerDetach(c)
  PROVE  ExecInvariant'
<1>1. UNCHANGED <<lease, capturing, row, conn, at, inbox, late>>
  BY DEF ServerDetach, ServerStep
<1>2. /\ server' \in [Conns -> ServerLives] /\ \A d \in Conns : d # c => server'[d] = server[d]
      /\ server[c] = "ending" /\ server'[c] = "ended"
  BY DEF ServerDetach, ExecInvariant, TypeOK, ServerLives
<1>3. /\ session' \in [Conns -> Sessions]
      /\ \A s \in Conns : /\ session'[s].state = session[s].state
                         /\ \/ session[s].attached # c /\ session'[s].attached = session[s].attached
                            \/ session[s].attached = c /\ session'[s].attached = None
  BY OpsAssumption DEF ExecInvariant, TypeOK, ServerDetach, Released, Sessions
<1>4. TypeOK'
  BY <1>1, <1>2, <1>3 DEF ExecInvariant, TypeOK, ServerLives
<1>5. JournaledFirst' /\ TodoIsOfSession' /\ ReportsAreTrue' /\ CaptureIsQuiescent'
  BY <1>1
     DEF ExecInvariant, JournaledFirst, TodoIsOfSession, ReportsAreTrue,
         CaptureIsQuiescent, Unfinished, SessionOf, Exempt
<1>6. TrackersStart'
  BY <1>1, <1>2 DEF ExecInvariant, TrackersStart
<1>7. SessionsAreHeld'
  BY <1>1, <1>2, <1>3
     DEF ExecInvariant, TypeOK, SessionsAreHeld, SessionOf, Holds, Sessions, Tracker
<1>8. BusyIsHeld'
  BY <1>1, <1>2, <1>3 DEF ExecInvariant, BusyIsHeld, HeldBy, Busy, Holds, Unfinished
<1>9. CreatorSent'
  <2>1. ASSUME NEW q \in Ops, NEW d \in Conns, Busy(q), session'[at[q].session].attached = d
        PROVE  session[at[q].session].attached = d
    BY <1>3, <2>1, OpsAssumption DEF ExecInvariant, BusyIsHeld, HeldBy
  <2>2. QED
    BY <1>1, <2>1 DEF ExecInvariant, CreatorSent, Busy
<1>10. UnforwardedIsOpen'
  BY <1>1, <1>2 DEF ExecInvariant, UnforwardedIsOpen, Unfinished, SessionOf
<1>11. FinishedIsOver'
  BY <1>1, <1>2 DEF ExecInvariant, FinishedIsOver, Outlived, BusyIsHeld, HeldBy, Busy
<1>12. TracksProcesses'
  BY <1>1, <1>3, OpsAssumption
     DEF ExecInvariant, TracksProcesses, Busy, Processes, BusyIsHeld, HeldBy
<1>13. QED
  BY <1>4, <1>5, <1>6, <1>7, <1>8, <1>9, <1>10, <1>11, <1>12 DEF ExecInvariant

LEMMA SessionExpiresStep ==
  ASSUME ExecInvariant, NEW s \in Conns, SessionExpires(s)
  PROVE  ExecInvariant'
<1>1. UNCHANGED <<lease, capturing, row, conn, inbox, server, late>>
  BY DEF SessionExpires, ServerStep
<1>2. /\ session[s] = [state |-> "live", attached |-> None]
      /\ session' = [session EXCEPT ![s].state = "expired"]
  BY DEF SessionExpires
<1>3. /\ session' \in [Conns -> Sessions]
      /\ \A t \in Conns : t # s => session'[t] = session[t]
      /\ session'[s].state = "expired" /\ session'[s].attached = None /\ session[s].attached = None
  BY <1>2 DEF ExecInvariant, TypeOK, Sessions
<1>4. /\ at' \in [Ops -> Whereabouts]
      /\ \A q \in Ops : at'[q] = at[q] \/ (at[q].place = "running" /\ at'[q].place = "ended")
  BY OpsAssumption DEF ExecInvariant, TypeOK, SessionExpires, Place, Whereabouts
<1>5. TypeOK'
  BY <1>1, <1>3, <1>4 DEF ExecInvariant, TypeOK
<1>6. TrackersStart' /\ TodoIsOfSession' /\ CaptureIsQuiescent'
  BY <1>1
     DEF ExecInvariant, TrackersStart, TodoIsOfSession, CaptureIsQuiescent, Unfinished,
         SessionOf, Exempt
<1>7. SessionsAreHeld'
  BY <1>1, <1>2 DEF ExecInvariant, SessionsAreHeld, SessionOf, Holds
<1>8. JournaledFirst'
  BY <1>1, <1>4 DEF ExecInvariant, JournaledFirst
<1>9. BusyIsHeld'
  BY <1>1, <1>3, <1>4 DEF ExecInvariant, BusyIsHeld, HeldBy, Busy, Holds, Unfinished
<1>10. CreatorSent'
  BY <1>1, <1>3, <1>4 DEF ExecInvariant, CreatorSent, Busy, BusyIsHeld, HeldBy
<1>11. UnforwardedIsOpen'
  BY <1>1, <1>4 DEF ExecInvariant, UnforwardedIsOpen, Unfinished, SessionOf
<1>12. ReportsAreTrue'
  BY <1>1, <1>4 DEF ExecInvariant, ReportsAreTrue
<1>13. FinishedIsOver'
  BY <1>1, <1>4 DEF ExecInvariant, FinishedIsOver, Outlived
<1>14. TracksProcesses'
  BY <1>1, <1>3, <1>4
     DEF ExecInvariant, TracksProcesses, Busy, Processes, BusyIsHeld, HeldBy
<1>15. QED
  BY <1>5, <1>6, <1>7, <1>8, <1>9, <1>10, <1>11, <1>12, <1>13, <1>14 DEF ExecInvariant

(* The frames that finish a row report a mutation that is over. *)
LEMMA HandleResponseStep ==
  ASSUME ExecInvariant, NEW c \in Conns, NEW o \in Ops, HandleResponse(c, o)
  PROVE  ExecInvariant'
<1>1. PICK type \in {"response", "error", "read"} :
        Frame(type, o) \in inbox[c] /\ Handled(c, Frame(type, o))
  BY DEF HandleResponse
<1>2. at[o].place = "ended"
  BY <1>1 DEF ExecInvariant, ReportsAreTrue, ReportTypes
<1>3. inbox' \in [Conns -> SUBSET Frames] /\ \A d \in Conns : inbox'[d] \subseteq inbox[d]
  BY <1>1 DEF ExecInvariant, TypeOK, Handled
<1>4. QED
  BY <1>2, <1>3, FinishOverStep DEF HandleResponse

LEMMA FinishEarlyQuiescedStep ==
  ASSUME ExecInvariant, NEW c \in Conns, NEW o \in Ops, FinishEarlyQuiesced(c, o)
  PROVE  ExecInvariant'
<1>1. at[o].place = "ended"
  BY DEF ExecInvariant, ReportsAreTrue, FinishEarlyQuiesced
<1>2. inbox' \in [Conns -> SUBSET Frames] /\ \A d \in Conns : inbox'[d] \subseteq inbox[d]
  BY DEF ExecInvariant, TypeOK, FinishEarlyQuiesced
<1>3. QED
  BY <1>1, <1>2, FinishOverStep DEF FinishEarlyQuiesced

LEMMA QuiescedKeptStep ==
  ASSUME ExecInvariant, NEW c \in Conns, NEW o \in Ops, at[o].place = "ended",
         conn' = [conn EXCEPT ![c].quiesced = @ \cup {o}],
         UNCHANGED <<lease, capturing, row, at, server, session, late>>,
         inbox' \in [Conns -> SUBSET Frames], \A d \in Conns : inbox'[d] \subseteq inbox[d]
  PROVE  ExecInvariant'
<1>1. UNCHANGED <<lease, capturing, row, at, server, session, late>>
  OBVIOUS
<1>2. at[o].place = "ended"
  OBVIOUS
<1>3. inbox' \in [Conns -> SUBSET Frames] /\ \A d \in Conns : inbox'[d] \subseteq inbox[d]
  OBVIOUS
<1>4. TypeOK /\ conn[c] \in Tracker
  BY DEF ExecInvariant, TypeOK
<1> DEFINE n == [conn[c] EXCEPT !.quiesced = @ \cup {o}]
<1>5. conn' = [conn EXCEPT ![c] = n]
  BY <1>4 DEF TypeOK
<1>6. /\ n \in Tracker
      /\ n.life = conn[c].life /\ n.phase = conn[c].phase
      /\ n.generation = conn[c].generation /\ n.resume = conn[c].resume
      /\ n.processes = conn[c].processes /\ n.unforwarded = conn[c].unforwarded
      /\ n.forwarded = conn[c].forwarded /\ n.quiesced = conn[c].quiesced \cup {o}
      /\ n.todo = conn[c].todo /\ n.detach = conn[c].detach
  BY <1>4 DEF Tracker, ExecInvariant
<1> HIDE DEF n
<1>7. /\ conn' \in [Conns -> Tracker] /\ conn'[c] = n
      /\ \A d \in Conns : d # c => conn'[d] = conn[d]
  BY <1>4, <1>5, <1>6, TrackerUpdate
<1>8. TypeOK'
  BY <1>1, <1>7 DEF ExecInvariant, TypeOK
<1>9. JournaledFirst' /\ FinishedIsOver' /\ CaptureIsQuiescent'
  BY <1>1
     DEF ExecInvariant, JournaledFirst, FinishedIsOver, CaptureIsQuiescent, Outlived,
         Unfinished, Exempt
<1>10. TrackersStart'
  BY <1>1, <1>7 DEF ExecInvariant, TrackersStart
<1>11. SessionsAreHeld'
  BY <1>1, <1>7 DEF ExecInvariant, SessionsAreHeld, SessionOf, Holds
<1>12. BusyIsHeld'
  BY <1>1, <1>7 DEF ExecInvariant, BusyIsHeld, HeldBy, Busy, Holds, Unfinished
<1>13. CreatorSent'
  BY <1>1, <1>7 DEF ExecInvariant, CreatorSent, Busy
<1>14. UnforwardedIsOpen'
  BY <1>1, <1>7 DEF ExecInvariant, UnforwardedIsOpen, Unfinished, SessionOf
<1>15. TodoIsOfSession'
  BY <1>1, <1>7 DEF ExecInvariant, TodoIsOfSession, Unfinished, SessionOf
<1>16. ReportsAreTrue'
  BY <1>1, <1>7 DEF ExecInvariant, ReportsAreTrue
<1>17. TracksProcesses'
  BY <1>1, <1>7 DEF ExecInvariant, TracksProcesses, Busy
<1>18. QED
  BY <1>8, <1>9, <1>10, <1>11, <1>12, <1>13, <1>14, <1>15, <1>16, <1>17 DEF ExecInvariant

LEMMA QuiescedDroppedStep ==
  ASSUME ExecInvariant, UNCHANGED <<lease, capturing, row, conn, at, server, session, late>>,
         inbox' \in [Conns -> SUBSET Frames], \A d \in Conns : inbox'[d] \subseteq inbox[d]
  PROVE  ExecInvariant'
<1>1. UNCHANGED <<lease, capturing, row, conn, at, server, session, late>>
  OBVIOUS
<1>2. inbox' \in [Conns -> SUBSET Frames] /\ \A d \in Conns : inbox'[d] \subseteq inbox[d]
  OBVIOUS
<1>3. TypeOK'
  BY <1>1 DEF ExecInvariant, TypeOK
<1>4. /\ TrackersStart' /\ SessionsAreHeld' /\ JournaledFirst' /\ BusyIsHeld'
      /\ CreatorSent' /\ UnforwardedIsOpen' /\ TodoIsOfSession' /\ FinishedIsOver'
      /\ CaptureIsQuiescent' /\ TracksProcesses'
  BY <1>1
     DEF ExecInvariant, TrackersStart, SessionsAreHeld, JournaledFirst, BusyIsHeld,
         CreatorSent, UnforwardedIsOpen, TodoIsOfSession, FinishedIsOver,
         CaptureIsQuiescent, TracksProcesses, SessionOf, Holds, HeldBy, Busy, Unfinished,
         Outlived, Exempt
<1>5. ReportsAreTrue'
  BY <1>1 DEF ExecInvariant, ReportsAreTrue
<1>6. QED
  BY <1>3, <1>4, <1>5 DEF ExecInvariant

LEMMA HandleQuiescedStep ==
  ASSUME ExecInvariant, NEW c \in Conns, NEW o \in Ops, HandleQuiesced(c, o)
  PROVE  ExecInvariant'
<1>1. at[o].place = "ended"
  BY DEF ExecInvariant, ReportsAreTrue, ReportTypes, HandleQuiesced
<1>2. inbox' \in [Conns -> SUBSET Frames] /\ \A d \in Conns : inbox'[d] \subseteq inbox[d]
  BY DEF ExecInvariant, TypeOK, HandleQuiesced, Handled
<1>3. CASE Finish(c, o)
  BY <1>1, <1>2, <1>3, FinishOverStep
<1>4. CASE /\ UNCHANGED <<lease, capturing, row, at, server, session, late>>
           /\ conn' = [conn EXCEPT ![c].quiesced = @ \cup {o}]
  BY <1>1, <1>2, <1>4, QuiescedKeptStep
<1>5. CASE UNCHANGED <<lease, capturing, row, conn, at, server, session, late>>
  BY <1>2, <1>5, QuiescedDroppedStep
<1>6. QED
  BY <1>3, <1>4, <1>5 DEF HandleQuiesced, ledgerStep

-----------------------------------------------------------------------------
(* Every step keeps the invariant. *)
LEMMA ClientFrameStep ==
  ASSUME ExecInvariant, NEW c \in Conns, ClientFrame(c)
  PROVE  ExecInvariant'
<1>1. ASSUME NEW s \in Conns \cup {None}, Open(c, s) \/ Reinitialize(c, s) PROVE ExecInvariant'
  BY <1>1, OpenStep, ReinitializeStep
<1>2. ASSUME NEW o \in Ops, Begin(c, o) PROVE ExecInvariant'
  BY <1>2, BeginKeptStep, BeginLostStep DEF Begin
<1>3. ASSUME NEW o \in Ops, Forward(c, o) PROVE ExecInvariant'
  BY <1>3, ForwardStep
<1>4. QED
  BY <1>1, <1>2, <1>3 DEF ClientFrame

LEMMA ServerFrameStep ==
  ASSUME ExecInvariant, NEW c \in Conns, ServerFrame(c)
  PROVE  ExecInvariant'
<1>1. ASSUME NEW o \in Ops,
             \/ HandleResponse(c, o) \/ HandleQuiesced(c, o) \/ Reattach(c, o)
             \/ FinishEarlyQuiesced(c, o) \/ SettleFilesystem(c, o)
      PROVE  ExecInvariant'
  BY <1>1, HandleResponseStep, HandleQuiescedStep, ReattachStep, FinishEarlyQuiescedStep,
     SettleFilesystemStep
<1>2. ASSUME HandleInitialized(c) PROVE ExecInvariant'
  BY <1>2, InitializedNewStep, InitializedResumeStep
<1>3. ASSUME \/ HandleRefused(c) \/ ResumeList(c) \/ ListFilesystem(c)
             \/ Resumed(c) \/ ResumeFails(c)
      PROVE  ExecInvariant'
  BY <1>3, HandleRefusedStep, ResumeListStep, ListFilesystemStep, ResumedStep,
     ResumeFailsStep
<1>4. QED
  BY <1>1, <1>2, <1>3 DEF ServerFrame

LEMMA ExecServerStep ==
  ASSUME ExecInvariant, NEW c \in Conns, ExecServer(c)
  PROVE  ExecInvariant'
<1>1. ASSUME ServerInitialize(c) PROVE ExecInvariant'
  BY <1>1, ServerAttachStep, ServerRefuseStep
<1>2. ASSUME NEW o \in Ops, Execute(c, o) \/ AnswerRead(c, o) PROVE ExecInvariant'
  BY <1>2, ExecuteStep, AnswerReadStep
<1>3. ASSUME ServerDisconnect(c) \/ ServerDetach(c) \/ SessionExpires(c) PROVE ExecInvariant'
  BY <1>3, ServerDisconnectStep, ServerDetachStep, SessionExpiresStep
<1>4. QED
  BY <1>1, <1>2, <1>3 DEF ExecServer

LEMMA NextStep ==
  ASSUME ExecInvariant, Next
  PROVE  ExecInvariant'
<1>1. ASSUME Rotate \/ StartCapture \/ EndCapture PROVE ExecInvariant'
  BY <1>1, RotateStep, StartCaptureStep, EndCaptureStep
<1>2. ASSUME NEW c \in Conns, Detach(c) PROVE ExecInvariant'
  BY <1>2, StartDetachStep, DetachRowStep DEF Detach
<1>3. ASSUME NEW c \in Conns, Close(c) \/ GatewayCrash(c) PROVE ExecInvariant'
  BY <1>3, CloseStep, GatewayCrashStep
<1>4. ASSUME NEW c \in Conns, ClientFrame(c) \/ ServerFrame(c) \/ ExecServer(c)
      PROVE  ExecInvariant'
  BY <1>4, ClientFrameStep, ServerFrameStep, ExecServerStep
<1>5. ASSUME NEW o \in Ops, FilesystemEnds(o) \/ ProcessQuiesces(o) PROVE ExecInvariant'
  BY <1>5, FilesystemEndsStep, ProcessQuiescesStep
<1>6. QED
  BY <1>1, <1>2, <1>3, <1>4, <1>5 DEF Next

LEMMA StutterStep ==
  ASSUME ExecInvariant, UNCHANGED vars
  PROVE  ExecInvariant'
<1>1. inbox' \in [Conns -> SUBSET Frames] /\ \A d \in Conns : inbox'[d] \subseteq inbox[d]
  BY DEF ExecInvariant, TypeOK, vars
<1>2. QED
  BY <1>1, QuiescedDroppedStep DEF vars

LEMMA InitHolds == Init => ExecInvariant
<1> SUFFICES ASSUME Init PROVE ExecInvariant
  OBVIOUS
<1>1. /\ NewConn \in Tracker /\ NewConn.life = "off" /\ NewConn.phase = "opened"
      /\ NewConn.unforwarded = {} /\ NewConn.todo = {} /\ NewConn.quiesced = {}
  BY OpsAssumption DEF NewConn, Tracker, Phases
<1>2. NoRow \in LedgerRow /\ NoRow.state = "none"
  BY DEF NoRow, LedgerRow
<1>3. Place("client") \in Whereabouts /\ Place("client").place = "client"
  BY DEF Place, Whereabouts
<1>4. TypeOK
  BY <1>1, <1>2, <1>3
     DEF Init, TypeOK, NewLease, Lease, LeaseStates, ServerLives, Sessions
<1>5. \A c \in Conns : conn[c] = NewConn /\ server[c] = "off" /\ inbox[c] = {}
  BY DEF Init
<1>6. \A s \in Conns : session[s].state = "none" /\ session[s].attached = None
  BY DEF Init
<1>7. \A o \in Ops : row[o].state = "none" /\ at[o].place = "client"
  BY <1>2, <1>3 DEF Init
<1>8. TrackersStart /\ SessionsAreHeld
  BY <1>1, <1>5, <1>6 DEF TrackersStart, SessionsAreHeld, Holds
<1>9. JournaledFirst /\ BusyIsHeld /\ CreatorSent /\ FinishedIsOver /\ TracksProcesses
  BY <1>7
     DEF JournaledFirst, BusyIsHeld, CreatorSent, FinishedIsOver, TracksProcesses, Busy,
         Processes
<1>10. UnforwardedIsOpen /\ TodoIsOfSession /\ ReportsAreTrue
  BY <1>1, <1>5 DEF UnforwardedIsOpen, TodoIsOfSession, ReportsAreTrue
<1>11. CaptureIsQuiescent
  BY DEF Init, CaptureIsQuiescent
<1>12. QED
  BY <1>4, <1>8, <1>9, <1>10, <1>11 DEF ExecInvariant

-----------------------------------------------------------------------------
(* The invariant holds of the ledger, the trackers and the exec server of   *)
(* one lease, with any number of connections and mutations                  *)
(* (exec-interaction-tracker.ts, postgres-lease-interactions.ts, gateway.ts *)
(* and codex-rs/exec-server).                                               *)
THEOREM ExecInvariantHolds == Spec => []ExecInvariant
<1>1. ExecInvariant /\ [Next]_vars => ExecInvariant'
  BY NextStep, StutterStep
<1>2. QED
  BY InitHolds, <1>1, PTL DEF Spec

(* Every variable keeps to the values the code gives it. *)
THEOREM TypeCorrect == Spec => []TypeOK
<1>1. ExecInvariant => TypeOK
  BY DEF ExecInvariant
<1>2. QED
  BY ExecInvariantHolds, <1>1, PTL

(* No disconnect, crash, resume or late detach finishes the row of a       *)
(* mutation that is on its way to the sandbox or at work in it             *)
(* (exec-interaction-tracker.ts), but for the two file system cases that   *)
(* FinishedIsOver names.                                                   *)
THEOREM FinishedIsOverHolds == Spec => []FinishedIsOver
<1>1. ExecInvariant => FinishedIsOver
  BY DEF ExecInvariant
<1>2. QED
  BY ExecInvariantHolds, <1>1, PTL

(* A capture that asserted quiescence under the lease lock                  *)
(* (postgres-lease-interactions.ts assertQuiescent) overlaps no mutation    *)
(* but the exempt ones, as long as it holds the lock.                       *)
THEOREM CaptureIsAccountedHolds == Spec => []CaptureIsAccounted
<1>1. ExecInvariant => CaptureIsAccounted
  <2> SUFFICES ASSUME ExecInvariant, capturing, NEW o \in Ops, at[o].place = "running"
               PROVE  Exempt(o) \/ Outlived(o) \/ o \in late
    BY DEF CaptureIsAccounted
  <2>1. row[o].state = "finished" \/ Unfinished(o)
    BY DEF ExecInvariant, TypeOK, LedgerRow, JournaledFirst, Unfinished
  <2>2. QED
    BY <2>1 DEF ExecInvariant, CaptureIsQuiescent, FinishedIsOver
<1>2. QED
  BY ExecInvariantHolds, <1>1, PTL

(* The tracker of the attached connection knows every process that runs in *)
(* its session, whoever started it (exec-interaction-tracker.ts, the resume *)
(* branch of serverFrame).                                                  *)
THEOREM AttachedTracksProcessesHolds == Spec => []AttachedTracksProcesses
<1>1. ExecInvariant => AttachedTracksProcesses
  BY DEF ExecInvariant, AttachedTracksProcesses, TracksProcesses, Busy
<1>2. QED
  BY ExecInvariantHolds, <1>1, PTL
=============================================================================
