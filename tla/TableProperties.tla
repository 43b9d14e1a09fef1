--------------------------- MODULE TableProperties ---------------------------
(***************************************************************************)
(* What holds of the commerce tables, whichever transactions write them.   *)
(***************************************************************************)
EXTENDS CommerceTables, Functions

OrdersOf(b) == {o \in Placed : bill[o].buyer = b}

(* What a buyer's orders have cost, refunds given back. *)
NetPaid(b) == SumFunction([o \in OrdersOf(b) |-> bill[o].total * (1 - refunds[o])])

(* No rupiah appears or vanishes: a wallet holds its top-ups, less every   *)
(* order placed, plus every refund recorded, whatever transactions of the  *)
(* same wallet interleave (createOrder, directTopUp, processOverdueOrders).*)
MoneyConserved ==
  \A b \in Buyers : balance[b] = toppedUp[b] - NetPaid(b)

(* The outbox tells the truth about stock, whoever wrote it last: an event *)
(* of the row's version carries the row's stock.  Until a product is       *)
(* deleted that event is the newest one and the only one of its version.   *)
(* A row that setStock inserts after the deletion starts again at version  *)
(* 1, behind the events of the row that was deleted.                       *)
OutboxMirrorsStock ==
  /\ \A p \in listed : version[p] > 0 =>
       [product |-> p, stock |-> stock[p], version |-> version[p]] \in invEvents
  /\ \A e \in invEvents : e.product \notin deleted =>
       /\ e.version <= version[e.product]
       /\ e.version = version[e.product] => e.stock = stock[e.product]

UsersOf(v) == {o \in Orders : status[o] # "none" /\ bill[o].code = v}

(* A voucher is never redeemed more often than its quota, however many     *)
(* checkouts saw the last use as still available: every use is accounted   *)
(* for by one order (a returned order keeps its use).                      *)
VoucherAccounting ==
  \A v \in Vouchers : remaining[v] + Cardinality(UsersOf(v)) = Quota[v]

=============================================================================
