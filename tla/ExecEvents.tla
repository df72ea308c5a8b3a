------------------------------- MODULE ExecEvents -------------------------------
(***************************************************************************)
(* The client's ordering of the events of one remote process (client.rs,    *)
(* client_recovery.rs).  Notifications may arrive out of order, so an event *)
(* waits in a bounded buffer for the ones before it; after a reconnect a    *)
(* read of what the server retained fills the gap.  Each operation holds    *)
(* one mutex, so each is one operator here.                                 *)
(***************************************************************************)
EXTENDS Naturals, Sequences, FiniteSets, SequencesExt

CONSTANT MaxPending  \* capacity of the reorder buffer (256)

ASSUME PendingAssumption == MaxPending \in Nat

(* OrderedSessionEvents.  delivered is what subscribers were sent; its      *)
(* length is last_published_seq.                                            *)
NoEvents == [delivered |-> <<>>, pending |-> {}, failed |-> FALSE]

Event(seq, kind) == [seq |-> seq, kind |-> kind]
LastSeq(o)       == Len(o.delivered)
Published(o, kind) == kind \in ToSet(o.delivered)
Waiting(o, seq)  == \E ev \in o.pending : ev.seq = seq
Over(o)          == o.failed \/ Published(o, "closed")

(* publish_ready *)
PublishReady(o) ==
  LET run == CHOOSE n \in 0..Cardinality(o.pending) :
               /\ \A i \in 1..n : Waiting(o, LastSeq(o) + i)
               /\ ~Waiting(o, LastSeq(o) + n + 1)
      kindAt(seq) == (CHOOSE ev \in o.pending : ev.seq = seq).kind
  IN [o EXCEPT !.delivered = @ \o [i \in 1..run |-> kindAt(LastSeq(o) + i)],
               !.pending = {ev \in @ : ev.seq > LastSeq(o) + run}]

(* insert_pending: what fills the gap always fits. *)
Fits(o, seq) ==
  Waiting(o, seq) \/ seq = LastSeq(o) + 1 \/ Cardinality(o.pending) < MaxPending
Inserted(o, ev) == IF Waiting(o, ev.seq) THEN o ELSE [o EXCEPT !.pending = @ \cup {ev}]

(* set_failure *)
Failed(o) == IF Over(o) THEN o ELSE [o EXCEPT !.failed = TRUE, !.pending = {}]

(* Mutant: an event is published whatever is missing before it. *)
MutPublishOrdered(o, ev) ==
  IF Over(o) \/ ev.seq <= LastSeq(o) THEN o ELSE [o EXCEPT !.delivered = Append(@, ev.kind)]

(* publish_ordered_event and finish_process_event *)
PublishOrdered(o, ev) ==
  IF Over(o) \/ ev.seq <= LastSeq(o) THEN o
  ELSE IF Fits(o, ev.seq) THEN PublishReady(Inserted(o, ev))
  ELSE Failed(o)

(* One chunk of recover_events.  An unknown exit takes the first gap.       *)
RecoverChunk(r, acc, seq) ==
  LET gap    == r.exited /\ ~acc.exitKnown /\ seq > LastSeq(acc.o) + 1
      exited == Event(LastSeq(acc.o) + 1, "exited")
      o1     == IF gap THEN PublishReady(Inserted(acc.o, exited)) ELSE acc.o
      fresh  == seq > LastSeq(o1)
  IN
  IF acc.bad THEN acc
  ELSE [o |-> IF fresh /\ Fits(o1, seq) THEN PublishReady(Inserted(o1, Event(seq, "output"))) ELSE o1,
        exitKnown |-> acc.exitKnown \/ gap,
        bad |-> fresh /\ ~Fits(o1, seq)]

(* recover_events: the outcome, and whether it is an error.  The response r *)
(* carries the retained outputs after some event, the next sequence number  *)
(* and whether the process exited and closed.                               *)
Recovered(o, r) ==
  LET target == r.next - 1
      start  == [o |-> o, bad |-> FALSE,
                 exitKnown |-> Published(o, "exited") \/ \E ev \in o.pending : ev.kind = "exited" /\ ev.seq <= target]
      chunks == FoldLeft(LAMBDA acc, seq : RecoverChunk(r, acc, seq), start, r.chunks)
      closes == r.closed /\ ~Published(chunks.o, "closed") /\ ~Waiting(chunks.o, target)
      o1     == IF closes THEN Inserted(chunks.o, Event(target, "closed")) ELSE chunks.o
      gaps   == {seq \in (LastSeq(o1) + 1)..target : ~Waiting(o1, seq)}
      exits  == r.exited /\ ~chunks.exitKnown
      o2     == IF exits /\ gaps # {}
                THEN Inserted(o1, Event(CHOOSE seq \in gaps : \A other \in gaps : seq <= other, "exited"))
                ELSE o1
      bad    == \/ chunks.bad
                \/ closes /\ ~Fits(chunks.o, target)
                \/ IF exits THEN Cardinality(gaps) # 1 ELSE gaps # {}
  IN
  IF Over(o) \/ target <= LastSeq(o) THEN [o |-> o, bad |-> FALSE]
  ELSE [o |-> IF bad THEN chunks.o ELSE PublishReady(o2), bad |-> bad]
===============================================================================
