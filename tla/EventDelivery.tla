---------------------------- MODULE EventDelivery ----------------------------
(***************************************************************************)
(* What the outbox, the relay and the retry queues promise, for a consumer *)
(* that only records the events it handled.  A handler may fail for as     *)
(* long as it likes, the relay may crash, acks may be lost.                *)
(***************************************************************************)
EXTENDS EventBus

VARIABLES
  enqueued,  \* events committed with the change they describe
  handled    \* events a handler returned for

vars == <<bus, enqueued, handled>>

TypeOK ==
  /\ BusTypeOK
  /\ enqueued \in SUBSET Events
  /\ handled \in SUBSET Events

Init ==
  /\ BusInit
  /\ enqueued = {}
  /\ handled = {}

(* A transaction of the producer commits; a rolled-back one leaves nothing.*)
Commit(e) ==
  /\ e \notin enqueued
  /\ enqueued' = enqueued \cup {e}
  /\ Enqueue({e})
  /\ UNCHANGED handled

Publish(r)     == RelayPublish(r) /\ UNCHANGED <<enqueued, handled>>
PublishPart(r) == RelayPublishPart(r) /\ UNCHANGED <<enqueued, handled>>
Mark(r)        == RelayMark(r) /\ UNCHANGED <<enqueued, handled>>
Crash(r)       == RelayCrash(r) /\ UNCHANGED <<enqueued, handled>>

Record(m) == handled' = handled \cup {m.event} /\ UNCHANGED enqueued

ConsumeAcked(m)   == HandledAcked(m) /\ Record(m)
ConsumeUnacked(m) == HandledUnacked(m) /\ Record(m)
Fail(m)           == Failed(m) /\ UNCHANGED <<enqueued, handled>>

Next ==
  \/ \E e \in Events : Commit(e)
  \/ \E r \in Relays : Publish(r)
  \/ \E r \in Relays : PublishPart(r)
  \/ \E r \in Relays : Mark(r)
  \/ \E r \in Relays : Crash(r)
  \/ \E m \in queue : ConsumeAcked(m)
  \/ \E m \in queue : ConsumeUnacked(m)
  \/ \E m \in queue : Fail(m)

Spec == Init /\ [][Next]_vars

(* The relay polls for as long as its process runs and is started again    *)
(* when it stops (WF of Publish); a mark that stays possible after every   *)
(* crash is made in the end (SF).  The broker delivers what it holds to a  *)
(* consumer that reconnects, and a message is not handled without its ack  *)
(* for ever (WF of the two ways a message leaves its place).               *)
Fairness ==
  /\ \A r \in Relays : WF_vars(Publish(r)) /\ SF_vars(Mark(r))
  /\ \A m \in Message : WF_vars(ConsumeAcked(m) \/ Fail(m))

FairSpec == Spec /\ Fairness

-----------------------------------------------------------------------------
(* Properties *)

InTransit == {m.event : m \in queue}

(* No change is lost: whatever crashes, an event whose transaction         *)
(* committed is in the outbox, on its way, handled, or parked for an       *)
(* operator; and a consumer only sees committed events.                    *)
NothingLost == enqueued = outbox \cup InTransit \cup handled \cup parked

(* An event is marked published only when the broker has it: what a relay  *)
(* is about to mark is on its way, handled or parked, also when the other  *)
(* relay instance published the same batch.                                *)
MarkedAfterConfirm ==
  \A r \in Relays : batch[r] \subseteq InTransit \cup handled \cup parked

(* Every committed event is handled or parked in the end, and the outbox   *)
(* does not keep it.                                                       *)
EventsSettle ==
  \A e \in Events : e \in enqueued ~> (e \in handled \cup parked /\ e \notin outbox)

=============================================================================
