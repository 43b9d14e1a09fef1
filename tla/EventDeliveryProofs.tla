------------------------- MODULE EventDeliveryProofs -------------------------
(***************************************************************************)
(* Theorems about EventDelivery, for every set of events, any number of    *)
(* relay instances and any number of attempts.                             *)
(***************************************************************************)
EXTENDS EventDelivery, TLAPS

-----------------------------------------------------------------------------
(* Where the events of the queue go *)

(* Publishing adds the published events and drops none. *)
LEMMA PublishTransit ==
  ASSUME NEW E, queue' = queue \cup Copies(E)
  PROVE  InTransit' = InTransit \cup E
  <1>1. {m.event : m \in Copies(E)} = E
    <2>1. ASSUME NEW m \in Copies(E)
          PROVE  m.event \in E
      BY DEF Copies
    <2>2. ASSUME NEW e \in E
          PROVE  \E m \in Copies(E) : m.event = e
      <3>1. [event |-> e, attempt |-> 1] \in Copies(E)
        BY DEF Copies
      <3>2. [event |-> e, attempt |-> 1].event = e
        OBVIOUS
      <3>3. QED
        BY <3>1, <3>2
    <2>3. QED
      BY <2>1, <2>2
  <1>2. QED
    BY <1>1 DEF InTransit

(* A message that leaves the queue takes at most its own event with it.    *)
LEMMA AckTransit ==
  ASSUME NEW m \in queue, queue' = queue \ {m}
  PROVE  InTransit \subseteq InTransit' \cup {m.event} /\ InTransit' \subseteq InTransit
  BY DEF InTransit

(* A retried message stays on its way; a parked one does not disappear.    *)
LEMMA FailTransit ==
  ASSUME TypeOK, NEW m \in queue, Failed(m)
  PROVE  InTransit' \cup parked' = InTransit \cup parked
  <1>1. CASE RetriesLeft(m)
    <2> DEFINE n == [m EXCEPT !.attempt = @ + 1]
    <2>1. n.event = m.event
      BY DEF TypeOK, BusTypeOK, Message
    <2>2. queue' = (queue \ {m}) \cup {n} /\ parked' = parked
      BY <1>1 DEF Failed
    <2>3. InTransit' = InTransit
      BY <2>1, <2>2 DEF InTransit
    <2>4. QED
      BY <2>2, <2>3
  <1>2. CASE ~RetriesLeft(m)
    <2>1. queue' \in {queue \ {m}, queue} /\ parked' = parked \cup {m.event}
      BY <1>2 DEF Failed
    <2>2. m.event \in InTransit
      BY DEF InTransit
    <2>3. CASE queue' = queue
      BY <2>1, <2>2, <2>3 DEF InTransit
    <2>4. CASE queue' = queue \ {m}
      BY <2>1, <2>2, <2>4, AckTransit
    <2>5. QED
      BY <2>1, <2>3, <2>4
  <1>3. QED
    BY <1>1, <1>2

-----------------------------------------------------------------------------
(* Type correctness *)

(* What the relay publishes are messages of a first attempt.                *)
LEMMA CopiesType == \A E \in SUBSET Events : Copies(E) \subseteq Message
  BY BusAssumption DEF Copies, Message

(* No step of the bus leaves the types.                                     *)
LEMMA NextType == TypeOK /\ [Next]_vars => TypeOK'
  <1> SUFFICES ASSUME TypeOK, [Next]_vars
               PROVE  TypeOK'
    OBVIOUS
  <1> USE DEF TypeOK, BusTypeOK
  <1>1. CASE UNCHANGED vars
    BY <1>1 DEF vars, bus
  <1>2. CASE \E e \in Events : Commit(e)
    BY <1>2 DEF Commit, Enqueue
  <1>3. CASE \E r \in Relays : Publish(r)
    BY <1>3, CopiesType DEF Publish, RelayPublish
  <1>4. CASE \E r \in Relays : PublishPart(r)
    <2>1. PICK part \in SUBSET outbox : queue' = queue \cup Copies(part)
      BY <1>4 DEF PublishPart, RelayPublishPart
    <2>2. UNCHANGED <<outbox, batch, parked, enqueued, handled>>
      BY <1>4 DEF PublishPart, RelayPublishPart
    <2>3. Copies(part) \subseteq Message
      BY CopiesType
    <2>4. QED
      BY <2>1, <2>2, <2>3
  <1>5. CASE \E r \in Relays : Mark(r)
    BY <1>5 DEF Mark, RelayMark
  <1>6. CASE \E r \in Relays : Crash(r)
    BY <1>6 DEF Crash, RelayCrash
  <1>7. CASE \E m \in queue : ConsumeAcked(m) \/ ConsumeUnacked(m)
    <2>1. PICK m \in queue : ConsumeAcked(m) \/ ConsumeUnacked(m)
      BY <1>7
    <2>2. m.event \in Events
      BY DEF Message
    <2>3. handled' = handled \cup {m.event} /\ enqueued' = enqueued
      BY <2>1 DEF ConsumeAcked, ConsumeUnacked, Record
    <2>4. queue' \subseteq queue /\ UNCHANGED <<outbox, batch, parked>>
      BY <2>1 DEF ConsumeAcked, ConsumeUnacked, HandledAcked, HandledUnacked, bus
    <2>5. QED
      BY <2>2, <2>3, <2>4
  <1>8. CASE \E m \in queue : Fail(m)
    <2>1. PICK m \in queue : Fail(m)
      BY <1>8
    <2>2. m \in Message
      OBVIOUS
    <2>3. RetriesLeft(m) => [m EXCEPT !.attempt = @ + 1] \in Message
      BY <2>2, BusAssumption DEF Message, RetriesLeft
    <2>4. QED
      BY <2>1, <2>2, <2>3 DEF Fail, Failed, Message
  <1>9. QED
    BY <1>1, <1>2, <1>3, <1>4, <1>5, <1>6, <1>7, <1>8 DEF Next

(* Messages keep within MaxAttempts and events come from the producer.      *)
THEOREM BusTypeCorrect == Spec => []TypeOK
  <1>1. Init => TypeOK
    BY DEF Init, BusInit, TypeOK, BusTypeOK
  <1>2. QED
    BY <1>1, NextType, PTL DEF Spec

-----------------------------------------------------------------------------
(* Nothing is lost *)

DeliveryInv == NothingLost /\ MarkedAfterConfirm

(* No step loses an event or prepares a mark without a confirm.             *)
LEMMA DeliveryStep ==
  ASSUME TypeOK, DeliveryInv, [Next]_vars
  PROVE  DeliveryInv'
  <1> DEFINE Beyond == InTransit \cup handled \cup parked
  <1> USE DEF DeliveryInv, NothingLost, MarkedAfterConfirm
  <1>1. CASE UNCHANGED vars
    BY <1>1 DEF vars, bus, InTransit
  <1>2. CASE \E e \in Events : Commit(e)
    BY <1>2 DEF Commit, Enqueue, InTransit
  <1>3. CASE \E r \in Relays : Publish(r)
    <2>1. PICK r \in Relays : RelayPublish(r)
      BY <1>3 DEF Publish
    <2>2. InTransit' = InTransit \cup outbox
      BY <2>1, PublishTransit DEF RelayPublish
    <2>3. batch' = [batch EXCEPT ![r] = outbox]
          /\ UNCHANGED <<outbox, parked, enqueued, handled>>
      BY <1>3, <2>1 DEF Publish, RelayPublish
    <2>4. QED
      BY <2>2, <2>3 DEF TypeOK, BusTypeOK
  <1>4. CASE \E r \in Relays : PublishPart(r)
    <2>1. PICK part \in SUBSET outbox : queue' = queue \cup Copies(part)
      BY <1>4 DEF PublishPart, RelayPublishPart
    <2>2. InTransit' = InTransit \cup part
      BY <2>1, PublishTransit
    <2>3. UNCHANGED <<outbox, batch, parked, enqueued, handled>>
      BY <1>4 DEF PublishPart, RelayPublishPart
    <2>4. QED
      BY <2>2, <2>3
  <1>5. CASE \E r \in Relays : Mark(r)
    <2>1. PICK r \in Relays : RelayMark(r)
      BY <1>5 DEF Mark
    <2>2. outbox' = outbox \ batch[r] /\ batch' = [batch EXCEPT ![r] = {}]
          /\ UNCHANGED <<queue, parked, enqueued, handled>>
      BY <1>5, <2>1 DEF Mark, RelayMark
    <2>3. batch[r] \subseteq Beyond
      OBVIOUS
    <2>4. QED
      BY <2>2, <2>3 DEF InTransit, TypeOK, BusTypeOK
  <1>6. CASE \E r \in Relays : Crash(r)
    BY <1>6 DEF Crash, RelayCrash, InTransit, TypeOK, BusTypeOK
  <1>7. CASE \E m \in queue : ConsumeAcked(m)
    <2>1. PICK m \in queue : ConsumeAcked(m)
      BY <1>7
    <2>2. InTransit \subseteq InTransit' \cup {m.event} /\ InTransit' \subseteq InTransit
      BY <2>1, AckTransit DEF ConsumeAcked, HandledAcked
    <2>3. handled' = handled \cup {m.event} /\ UNCHANGED <<outbox, batch, parked, enqueued>>
      BY <2>1 DEF ConsumeAcked, HandledAcked, Record
    <2>4. m.event \in InTransit
      BY DEF InTransit
    <2>5. QED
      BY <2>2, <2>3, <2>4
  <1>8. CASE \E m \in queue : ConsumeUnacked(m)
    <2>1. PICK m \in queue : ConsumeUnacked(m)
      BY <1>8
    <2>2. handled' = handled \cup {m.event} /\ UNCHANGED <<bus, enqueued>>
      BY <2>1 DEF ConsumeUnacked, HandledUnacked, Record
    <2>3. m.event \in InTransit
      BY DEF InTransit
    <2>4. QED
      BY <2>2, <2>3 DEF bus, InTransit
  <1>9. CASE \E m \in queue : Fail(m)
    <2>1. PICK m \in queue : Failed(m)
      BY <1>9 DEF Fail
    <2>2. InTransit' \cup parked' = InTransit \cup parked
      BY <2>1, FailTransit
    <2>3. UNCHANGED <<outbox, batch, enqueued, handled>>
      BY <1>9 DEF Fail, Failed
    <2>4. QED
      BY <2>2, <2>3
  <1>10. QED
    BY <1>1, <1>2, <1>3, <1>4, <1>5, <1>6, <1>7, <1>8, <1>9 DEF Next

(* Before the first event nothing is lost.                                  *)
LEMMA DeliveryInit == Init => DeliveryInv
  BY DEF Init, BusInit, DeliveryInv, NothingLost, MarkedAfterConfirm, InTransit

(* The inductive invariant holds in every reachable state.                  *)
LEMMA DeliveryCorrect == Spec => []DeliveryInv
  BY BusTypeCorrect, DeliveryInit, DeliveryStep, PTL DEF Spec

(* A committed event is never lost, and none is invented.                  *)
THEOREM NoEventIsLost == Spec => []NothingLost
  BY DeliveryCorrect, PTL DEF DeliveryInv

(* An event is marked published only after the broker confirmed it.        *)
THEOREM MarksFollowConfirms == Spec => []MarkedAfterConfirm
  BY DeliveryCorrect, PTL DEF DeliveryInv

=============================================================================
