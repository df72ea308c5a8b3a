------------------------------ MODULE EventStream ------------------------------
(***************************************************************************)
(* What a subscriber of a remote process is promised: it sees the events of *)
(* the process in order, without a gap or a repetition, up to the close of  *)
(* the process, or to one failure after which it sees nothing.              *)
(***************************************************************************)
EXTENDS Naturals, Sequences, SequencesExt

VARIABLES
  log,   \* the events of the process, in sequence order
  seen,  \* what the subscriber has seen
  over   \* the subscription failed

Init == log = <<>> /\ seen = <<>> /\ over = FALSE

Emit ==
  /\ "closed" \notin ToSet(log)
  /\ \E kind \in {"output", "exited", "closed"} : log' = Append(log, kind)
  /\ UNCHANGED <<seen, over>>

SeesMore == IsPrefix(seen, seen') /\ IsPrefix(seen', log)

Deliver == ~over /\ SeesMore /\ UNCHANGED <<log, over>>

Fail ==
  /\ ~over /\ over' = TRUE /\ "closed" \notin ToSet(seen)
  /\ SeesMore /\ UNCHANGED log

Next == Emit \/ Deliver \/ Fail

Spec == Init /\ [][Next]_<<log, seen, over>>
===============================================================================
