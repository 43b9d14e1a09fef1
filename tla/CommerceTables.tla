--------------------------- MODULE CommerceTables ---------------------------
(***************************************************************************)
(* The Postgres tables of the commerce service that an order touches, and  *)
(* the effect each committed transaction has on them.  A transaction runs  *)
(* under READ COMMITTED: its guarded UPDATEs take row locks that are held  *)
(* until commit, so its write phase is one atomic operator here.  What a   *)
(* transaction (or the code before it) read WITHOUT a lock is not part of  *)
(* the operator: the modules that use it keep those reads as steps of      *)
(* their own and pass what was read as arguments.                          *)
(*                                                                         *)
(* An amount is a natural number; who computes it is module Pricing.       *)
(***************************************************************************)
EXTENDS Integers, FiniteSets

CONSTANTS
  Buyers,     \* buyer ids (identity owns the users)
  Stores,     \* store ids; every store has one seller
  Products,   \* product ids
  Orders,     \* ids that INSERT INTO orders may generate
  Drivers,    \* driver ids
  Vouchers,   \* rows of vouchers
  Quota,      \* remainingUsage every voucher was created with
  NoCode,     \* the order uses no voucher (no code, or a promo)
  NoDriver,   \* driver_id IS NULL
  NoBill      \* the order row does not exist yet

ASSUME TablesAssumption ==
  /\ Quota \in [Vouchers -> Nat]
  /\ NoCode \notin Vouchers
  /\ NoDriver \notin Drivers

VARIABLES
  balance,    \* wallets.balance; a missing wallet counts as 0
  toppedUp,   \* sum of the buyer's wallet_transactions of type topup
  listed,     \* products that have an inventory row
  stock,      \* inventory.stock
  version,    \* inventory.version
  deleted,    \* products whose product_refs.deleted is set
  setting,    \* products a setStock has found, its transaction still open
  remaining,  \* vouchers.remaining_usage
  status,     \* orders.status, "none" before the INSERT
  bill,       \* the columns of the order written once, at INSERT
  history,    \* number of rows of order_status_history per order and status
  refunds,    \* number of wallet_transactions REFUND-<order>
  jobStatus,  \* delivery_jobs.status, "none" before the INSERT
  jobDriver,  \* delivery_jobs.driver_id
  invEvents,  \* inventory.changed events put in the outbox
  announced   \* number of order.completed events put in the outbox

wallets    == <<balance, toppedUp>>
inventory  == <<listed, stock, version, deleted, setting, invEvents>>
deliveries == <<jobStatus, jobDriver>>
tables     == <<wallets, inventory, remaining, status, bill, history,
                refunds, deliveries, announced>>

-----------------------------------------------------------------------------
(* orders.status and delivery_jobs.status *)

Packed    == "sedang_dikemas"
Waiting   == "menunggu_pengirim"
Sent      == "sedang_dikirim"
Completed == "pesanan_selesai"
Returned  == "dikembalikan"

OrderStatus == {Packed, Waiting, Sent, Completed, Returned}
Final       == {Completed, Returned}
JobStatus   == {"pending", "taken", "completed"}

Items == [Products -> Nat]
Bill  == [buyer : Buyers, store : Stores, items : Items, total : Nat,
          code : Vouchers \cup {NoCode}]
InventoryChanged == [product : Products, stock : Nat, version : Nat]

Placed     == {o \in Orders : status[o] # "none"}
ItemsOf(o) == {p \in Products : bill[o].items[p] > 0}

TablesTypeOK ==
  /\ balance \in [Buyers -> Nat]
  /\ toppedUp \in [Buyers -> Nat]
  /\ listed \in SUBSET Products
  /\ stock \in [Products -> Nat]
  /\ version \in [Products -> Nat]
  /\ deleted \in SUBSET Products
  /\ setting \in SUBSET Products
  /\ remaining \in [Vouchers -> Nat]
  /\ status \in [Orders -> OrderStatus \cup {"none"}]
  /\ bill \in [Orders -> Bill \cup {NoBill}]
  /\ \A o \in Orders : status[o] # "none" => bill[o] \in Bill
  /\ history \in [Orders -> [OrderStatus -> Nat]]
  /\ refunds \in [Orders -> Nat]
  /\ jobStatus \in [Orders -> JobStatus \cup {"none"}]
  /\ jobDriver \in [Orders -> Drivers \cup {NoDriver}]
  /\ invEvents \in SUBSET InventoryChanged
  /\ announced \in [Orders -> Nat]

TablesInit ==
  /\ balance = [b \in Buyers |-> 0]
  /\ toppedUp = [b \in Buyers |-> 0]
  /\ listed = Products
  /\ stock = [p \in Products |-> 0]
  /\ version = [p \in Products |-> 0]
  /\ deleted = {}
  /\ setting = {}
  /\ remaining = Quota
  /\ status = [o \in Orders |-> "none"]
  /\ bill = [o \in Orders |-> NoBill]
  /\ history = [o \in Orders |-> [s \in OrderStatus |-> 0]]
  /\ refunds = [o \in Orders |-> 0]
  /\ jobStatus = [o \in Orders |-> "none"]
  /\ jobDriver = [o \in Orders |-> NoDriver]
  /\ invEvents = {}
  /\ announced = [o \in Orders |-> 0]

-----------------------------------------------------------------------------
(* Pieces of the write phases *)

(* UPDATE orders SET status, and the history row written next to it.  A    *)
(* row has no place among the others but its created_at, which is when its *)
(* transaction began and says nothing about who committed first: the rows  *)
(* of each status are counted, not ordered.                                *)
SetStatus(o, s) ==
  /\ status' = [status EXCEPT ![o] = s]
  /\ history' = [history EXCEPT ![o][s] = @ + 1]

(* UPDATE wallets SET balance = balance + amount.  The row of              *)
(* wallet_transactions beside it is the topup in toppedUp, the refund in   *)
(* refunds, and for a payment the order itself.                            *)
Credit(b, amount) == balance' = [balance EXCEPT ![b] = @ + amount]

(* UPDATE inventory SET stock, version = version + 1 RETURNING ..., and    *)
(* the inventory.changed event of every returned row.                      *)
\* Mutant: the events are built from the rows as they were before the UPDATE.
StockEventsStale(rows, new) ==
  {[product |-> p, stock |-> stock[p], version |-> version[p] + 1] : p \in rows}

StockEvents(rows, new) ==
  {[product |-> p, stock |-> new[p], version |-> version[p] + 1] : p \in rows}

WriteStock(rows, new) ==
  /\ stock' = [p \in Products |-> IF p \in rows THEN new[p] ELSE stock[p]]
  /\ version' = [p \in Products |-> IF p \in rows THEN version[p] + 1
                                                  ELSE version[p]]
  /\ invEvents' = invEvents \cup StockEvents(rows, new)

(* The conditions of createOrder's guarded UPDATEs, checked again on the   *)
(* locked rows; one that matches no row throws and rolls back.             *)
\* Mutant: without AND stock >= quantity.
InStockUnguarded(items) == \A p \in Products : items[p] > 0 => p \in listed

\* Mutant: without AND balance >= total.
CanPayUnguarded(b, total) == TRUE

InStock(items)    == \A p \in Products : items[p] > 0 => p \in listed /\ stock[p] >= items[p]
CanPay(b, total)  == balance[b] >= total
UsesLeft(code)    == code \in Vouchers => remaining[code] > 0

(* decrementVoucherUsage *)
UseVoucherForgotten(code) == remaining' = remaining  \* Mutant: not decremented.

UseVoucher(code) ==
  remaining' = [v \in Vouchers |-> IF v = code THEN remaining[v] - 1 ELSE remaining[v]]

(* The re-check of processOverdueOrders under the row lock. *)
StillOpenUnchecked(o) == TRUE  \* Mutant: the list of the first SELECT is trusted.

StillOpen(o) == status[o] \notin Final

(* The wallet's UPDATE and the REFUND-<order> row next to it. *)
\* Mutant: the refund is recorded, the balance is not raised.
RefundUnpaid(o) ==
  /\ balance' = balance
  /\ refunds' = [refunds EXCEPT ![o] = @ + 1]

Refund(o) ==
  /\ Credit(bill[o].buyer, bill[o].total)
  /\ refunds' = [refunds EXCEPT ![o] = @ + 1]

-----------------------------------------------------------------------------
(* Write phases of whole transactions *)

(* createOrder from the first guarded UPDATE to commit. *)
PlaceOrder(o, b, s, items, total, code) ==
  LET rows == {p \in Products : items[p] > 0}
  IN /\ status[o] = "none"
     /\ InStock(items) /\ CanPay(b, total) /\ UsesLeft(code)
     /\ WriteStock(rows, [p \in Products |-> stock[p] - items[p]])
     /\ Credit(b, -total)
     /\ UseVoucher(code)
     /\ bill' = [bill EXCEPT ![o] = [buyer |-> b, store |-> s, items |-> items,
                                     total |-> total, code |-> code]]
     /\ SetStatus(o, Packed)
     /\ UNCHANGED <<toppedUp, listed, deleted, setting, refunds, deliveries, announced>>

(* delivery_jobs.order_id is unique. *)
NoJobUnchecked(o) == TRUE  \* Mutant: it is not.

NoJob(o) == jobStatus[o] = "none"

(* processOrder from its UPDATE to commit.  The UPDATE is by id only; the  *)
(* INSERT fails if the job exists.                                         *)
OpenJob(o) ==
  /\ NoJob(o)
  /\ SetStatus(o, Waiting)
  /\ jobStatus' = [jobStatus EXCEPT ![o] = "pending"]
  /\ UNCHANGED <<wallets, inventory, remaining, bill, refunds, jobDriver, announced>>

(* One order of processOverdueOrders, under SELECT ... FOR UPDATE. *)
ReturnOrder(o) ==
  LET rows == ItemsOf(o) \cap listed
  IN /\ StillOpen(o)
     /\ SetStatus(o, Returned)
     /\ Refund(o)
     /\ WriteStock(rows, [p \in Products |-> stock[p] + bill[o].items[p]])
     /\ UNCHANGED <<toppedUp, listed, deleted, setting, remaining, bill, deliveries,
                    announced>>

-----------------------------------------------------------------------------
(* Single-statement writers of the same tables *)

(* directTopUp *)
DirectTopUp(b, amount) ==
  /\ Credit(b, amount)
  /\ toppedUp' = [toppedUp EXCEPT ![b] = @ + amount]
  /\ UNCHANGED <<inventory, remaining, status, bill, history, refunds,
                 deliveries, announced>>

(* setStock, for a product that has been replicated.  The advisory lock    *)
(* admits one per product; productDeleted does not take it.                *)

(* The SELECT that finds the product. *)
FindProduct(p) ==
  /\ p \notin setting /\ p \notin deleted
  /\ setting' = setting \cup {p}
  /\ UNCHANGED <<wallets, listed, stock, version, deleted, invEvents, remaining, status,
                 bill, history, refunds, deliveries, announced>>

(* INSERT ... version 1 ON CONFLICT DO UPDATE ... version + 1, an absolute *)
(* value; a row that is gone counts as version 0, and comes back.          *)
SetStock(p, n) ==
  /\ p \in setting
  /\ setting' = setting \ {p}
  /\ listed' = listed \cup {p}
  /\ WriteStock({p}, [q \in Products |-> n])
  /\ UNCHANGED <<wallets, deleted, remaining, status, bill, history, refunds,
                 deliveries, announced>>

(* The store is another seller's, or the transaction fails. *)
GiveUpStock(p) ==
  /\ p \in setting
  /\ setting' = setting \ {p}
  /\ UNCHANGED <<wallets, listed, stock, version, deleted, invEvents, remaining, status,
                 bill, history, refunds, deliveries, announced>>

(* productDeleted sets the tombstone and drops the inventory row. *)
ProductDeleted(p) ==
  /\ p \notin deleted
  /\ deleted' = deleted \cup {p}
  /\ listed' = listed \ {p}
  /\ stock' = [stock EXCEPT ![p] = 0]
  /\ version' = [version EXCEPT ![p] = 0]
  /\ UNCHANGED <<wallets, setting, invEvents, remaining, status, bill, history, refunds,
                 deliveries, announced>>

=============================================================================
