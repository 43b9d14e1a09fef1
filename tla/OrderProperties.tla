--------------------------- MODULE OrderProperties ---------------------------
(***************************************************************************)
(* What module OrderLifecycle is checked against.                          *)
(***************************************************************************)
EXTENDS OrderLifecycle, TableProperties

-----------------------------------------------------------------------------
(* Orders, deliveries and refunds *)

(* An order and its delivery job agree, although different transactions    *)
(* write them: only a returned order may leave its job behind.             *)
JobTracksOrder ==
  \A o \in Orders :
    /\ jobStatus[o] = "none"      => status[o] \in {"none", Packed, Returned}
    /\ jobStatus[o] = "pending"   => status[o] \in {Waiting, Returned}
    /\ jobStatus[o] = "taken"     => status[o] \in {Sent, Returned}
    /\ jobStatus[o] = "completed" => status[o] = Completed
    /\ (jobDriver[o] = NoDriver)  <=> (jobStatus[o] \in {"none", "pending"})

(* How often an order can be refunded.  Without a delivery job: once, and  *)
(* exactly when it is returned.  With one: a processOrder that had read    *)
(* the order before the return may have revived it, but the unique job     *)
(* lets that happen once, so two refunds are the most there can be.        *)
RefundsBounded ==
  \A o \in Orders :
    /\ jobStatus[o] = "none" =>
         refunds[o] = IF status[o] = Returned THEN 1 ELSE 0
    /\ jobStatus[o] # "none" =>
         IF status[o] = Returned THEN refunds[o] \in 1..2 ELSE refunds[o] \in 0..1

(* Catalog is told of an order's completion exactly once, and of no order  *)
(* that is not completed.                                                  *)
AnnouncedOnce ==
  \A o \in Orders : announced[o] = IF status[o] = Completed THEN 1 ELSE 0

(* order_status_history logs every change and invents none (docs/ADMIN.md: *)
(* "Logs all changes in status history"): its rows of each status agree    *)
(* with the order, the delivery job and its driver, the outbox and the     *)
(* wallet_transactions, through lost races, rolled back requests and a     *)
(* return that is undone and repeated.                                     *)
HistoryMatchesRecords ==
  \A o \in Orders :
    LET rows == history[o]
    IN /\ rows[Packed]    = IF status[o] = "none" THEN 0 ELSE 1
       /\ rows[Waiting]   = IF jobStatus[o] = "none" THEN 0 ELSE 1
       /\ rows[Sent]      = IF jobDriver[o] = NoDriver THEN 0 ELSE 1
       /\ rows[Completed] = announced[o]
       /\ rows[Returned]  = refunds[o]

-----------------------------------------------------------------------------
(* What a step may never do *)

(* A completed order is settled: no late processOrder, overdue run or      *)
(* driver changes its status, its delivery or its refunds again.           *)
KeepsCompleted ==
  \A o \in Orders : status[o] = Completed =>
    /\ status'[o] = Completed
    /\ jobStatus'[o] = jobStatus[o]
    /\ refunds'[o] = refunds[o]

CompletedIsFinal == [][KeepsCompleted]_vars

(* A delivery has one driver: once a driver has the job nobody else gets   *)
(* it, and it never leaves the driver's hands.                             *)
KeepsDriver == \A o \in Orders : jobDriver[o] # NoDriver => jobDriver'[o] = jobDriver[o]

OneDriver == [][KeepsDriver]_vars

(* The job an overdue order leaves behind is dead: no driver takes or      *)
(* completes the delivery of a returned order, so none is paid for it.     *)
KeepsStranded ==
  \A o \in Orders :
    status[o] = Returned /\ jobStatus[o] # "none" =>
      /\ jobStatus'[o] = jobStatus[o]
      /\ status'[o] = Returned

StrandedJobIsInert == [][KeepsStranded]_vars

-----------------------------------------------------------------------------
(* The arcs of the documented state diagram, and all that the code takes. *)
DocumentedArcs ==
  {<<"none", Packed>>, <<Packed, Waiting>>, <<Waiting, Sent>>, <<Sent, Completed>>,
   <<Packed, Returned>>, <<Waiting, Returned>>, <<Sent, Returned>>}

Arcs == DocumentedArcs \cup {<<Returned, Waiting>>}

(* The order's status refines a state diagram: the documented one with one *)
(* arc more, from dikembalikan back to menunggu_pengirim.                  *)
Diagram == INSTANCE OrderDiagram WITH Orders <- Orders, Arcs <- Arcs, status <- status
ImplementsDiagram == Diagram!Spec

-----------------------------------------------------------------------------
(* What the documentation says, and the code does not keep *)

(* docs/ADMIN.md: overdue processing "Prevents double refund, double stock *)
(* restoration".                                                           *)
RefundedAtMostOnce == \A o \in Orders : refunds[o] <= 1

=============================================================================
