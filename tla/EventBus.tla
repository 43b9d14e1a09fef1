------------------------------ MODULE EventBus ------------------------------
(***************************************************************************)
(* One producer's outbox, its relay, and the queue of one consuming        *)
(* service with its retry and parking queues.                              *)
(*                                                                         *)
(* The queue is a set: prefetched handlers run concurrently and a retried  *)
(* message comes back later, so any message may be next.  A member stands  *)
(* for every copy of an event with that many attempts: publishing an event *)
(* again leaves the set as it is, and handling one copy while another one  *)
(* remains is HandledUnacked.                                              *)
(***************************************************************************)
EXTENDS Integers, FiniteSets

CONSTANTS
  Events,       \* event envelopes the producer may enqueue
  Relays,       \* relay instances of the producer
  MaxAttempts   \* attempts before a message is parked (5 in the code)

ASSUME BusAssumption == MaxAttempts \in Nat \ {0}

VARIABLES
  outbox,  \* rows of the outbox with published_at IS NULL
  batch,   \* what each relay has published and not marked yet
  queue,   \* messages ready for delivery, or waiting in the retry queue
  parked   \* events of which a message was given up on

bus == <<outbox, batch, queue, parked>>

Message == [event : Events, attempt : 1..MaxAttempts]

BusTypeOK ==
  /\ outbox \in SUBSET Events
  /\ batch \in [Relays -> SUBSET Events]
  /\ queue \in SUBSET Message
  /\ parked \in SUBSET Events

BusInit ==
  /\ outbox = {}
  /\ batch = [r \in Relays |-> {}]
  /\ queue = {}
  /\ parked = {}

(* No event is on its way any more. *)
Quiet == outbox = {} /\ queue = {}

-----------------------------------------------------------------------------
(* Producer *)

(* In the transaction that made the change. *)
Enqueue(E) == outbox' = outbox \cup E /\ UNCHANGED <<batch, queue, parked>>

Copies(E) == {[event |-> e, attempt |-> 1] : e \in E}

(* publishOnce up to the broker's confirms (a batch is everything pending: *)
(* up to 100 events in the code).                                          *)
RelayPublish(r) ==
  /\ batch[r] = {} /\ outbox # {}
  /\ batch' = [batch EXCEPT ![r] = outbox]
  /\ queue' = queue \cup Copies(outbox)
  /\ UNCHANGED <<outbox, parked>>

(* The rest of publishOnce. *)
\* Mutant: every pending event is marked, not the batch.
RelayMarkAll(r) ==
  /\ batch[r] # {}
  /\ outbox' = {}
  /\ batch' = [batch EXCEPT ![r] = {}]
  /\ UNCHANGED <<queue, parked>>

RelayMark(r) ==
  /\ batch[r] # {}
  /\ outbox' = outbox \ batch[r]
  /\ batch' = [batch EXCEPT ![r] = {}]
  /\ UNCHANGED <<queue, parked>>

(* The process or the connection dies before the mark: after the whole     *)
(* batch was published or, for RelayPublishPart, in the middle of it.      *)
RelayCrash(r) ==
  /\ batch[r] # {}
  /\ batch' = [batch EXCEPT ![r] = {}]
  /\ UNCHANGED <<outbox, queue, parked>>

RelayPublishPart(r) ==
  /\ batch[r] = {}
  /\ \E part \in SUBSET outbox \ {{}, outbox} : queue' = queue \cup Copies(part)
  /\ UNCHANGED <<outbox, batch, parked>>

-----------------------------------------------------------------------------
(* Consumer.  The handler's effect is conjoined by the composition. *)

(* The handler of m returned and the ack arrived. *)
HandledAcked(m) ==
  /\ m \in queue
  /\ queue' = queue \ {m}
  /\ UNCHANGED <<outbox, batch, parked>>

(* The handler of m returned, and the channel closed before the ack: the   *)
(* broker delivers the message again.                                      *)
HandledUnacked(m) == m \in queue /\ UNCHANGED bus

(* The handler threw: nack to the retry queue, or park and ack; a crash    *)
(* between the last two leaves the message in the queue as well.           *)
\* Mutant: one attempt too many.
RetriesLeftOffByOne(m) == m.attempt <= MaxAttempts

RetriesLeft(m) == m.attempt < MaxAttempts

\* Mutant: a message never goes to parking, its attempts are counted anew.
FailedForEver(m) ==
  /\ m \in queue
  /\ queue' = (queue \ {m}) \cup
                {[m EXCEPT !.attempt = IF RetriesLeft(m) THEN @ + 1 ELSE 1]}
  /\ UNCHANGED <<outbox, batch, parked>>

Failed(m) ==
  /\ m \in queue
  /\ IF RetriesLeft(m)
     THEN /\ queue' = (queue \ {m}) \cup {[m EXCEPT !.attempt = @ + 1]}
          /\ UNCHANGED parked
     ELSE /\ parked' = parked \cup {m.event}
          /\ queue' \in {queue \ {m}, queue}
  /\ UNCHANGED <<outbox, batch>>

=============================================================================
