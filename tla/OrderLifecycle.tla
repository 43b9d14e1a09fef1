--------------------------- MODULE OrderLifecycle ---------------------------
(***************************************************************************)
(* The life of an order in the commerce service: checkout creates it, the  *)
(* owning seller processes it, a driver takes and completes the delivery,  *)
(* and a run of the overdue check returns it and refunds the buyer.        *)
(*                                                                         *)
(* Steps that interleave:                                                  *)
(*   - processOrder reads the order with a plain SELECT, then writes it    *)
(*     with an UPDATE by id: ProcessOrderRead and ProcessOrderWrite;       *)
(*   - processOverdueOrders selects the late orders without a transaction, *)
(*     then handles them one by one under a row lock: OverdueSelect and    *)
(*     OverdueReturn.  The list has no ORDER BY, so any order may be next. *)
(* takeJob and completeJob hold the locks of their guarded UPDATEs until   *)
(* commit and read nothing before: one step each.  createOrder is its      *)
(* write phase, for an arbitrary snapshot of a cart and of prices; module  *)
(* Checkout models how that snapshot is read.                              *)
(***************************************************************************)
EXTENDS CommerceTables

CONSTANTS
  SellerRequests,  \* concurrent processOrder requests
  AdminRuns,       \* concurrent processOverdueOrders requests
  Carts,           \* item snapshots a checkout may have read, all non-empty
  Totals,          \* totals calculateTotals may have computed for them
  TopUps,          \* amounts a top-up may have
  StockLevels,     \* levels a seller may set
  MaxBalance,      \* bound: no top-up of a wallet holding more than this
  MaxVersion,      \* bound: no setStock of a row at this version
  NoOrder          \* the request holds no order

ASSUME LifecycleAssumption ==
  /\ Carts \subseteq Items
  /\ Totals \subseteq Nat
  /\ TopUps \subseteq Nat
  /\ StockLevels \subseteq Nat
  /\ MaxBalance \in Nat
  /\ MaxVersion \in Nat
  /\ NoOrder \notin Orders

VARIABLES
  reading,  \* the order each processOrder request found in sedang_dikemas
  batch,    \* the orders each overdue run selected and has not handled yet
  late      \* orders created longer ago than their SLA, by the effective clock

locals == <<reading, batch, late>>
vars   == <<tables, locals>>

TypeOK ==
  /\ TablesTypeOK
  /\ reading \in [SellerRequests -> Orders \cup {NoOrder}]
  /\ batch \in [AdminRuns -> SUBSET Orders]
  /\ late \in SUBSET Orders
  /\ \A o \in Orders :
       /\ o \in late => status[o] # "none"
       /\ \A a \in AdminRuns : o \in batch[a] => status[o] # "none"
       /\ \A r \in SellerRequests : reading[r] = o => status[o] # "none"

Init ==
  /\ TablesInit
  /\ reading = [r \in SellerRequests |-> NoOrder]
  /\ batch = [a \in AdminRuns |-> {}]
  /\ late = {}

-----------------------------------------------------------------------------
(* Checkout *)

CreateOrder(o, b, s) ==
  \E items \in Carts, total \in Totals, code \in Vouchers \cup {NoCode} :
    /\ PlaceOrder(o, b, s, items, total, code)
    /\ UNCHANGED locals

-----------------------------------------------------------------------------
(* Seller: processOrder *)

ProcessOrderRead(r, s, o) ==
  /\ reading[r] = NoOrder
  /\ status[o] = Packed
  /\ bill[o].store = s
  /\ reading' = [reading EXCEPT ![r] = o]
  /\ UNCHANGED <<tables, batch, late>>

ProcessOrderWrite(r) ==
  /\ reading[r] # NoOrder
  /\ OpenJob(reading[r])
  /\ reading' = [reading EXCEPT ![r] = NoOrder]
  /\ UNCHANGED <<batch, late>>

(* The unique violation, a lost connection or a restart: rolled back. *)
ProcessOrderAbort(r) ==
  /\ reading[r] # NoOrder
  /\ reading' = [reading EXCEPT ![r] = NoOrder]
  /\ UNCHANGED <<tables, batch, late>>

-----------------------------------------------------------------------------
(* Driver: takeJob and completeJob *)

\* Mutant: the order's status is not checked.
TakeableAnyOrder(o) == jobStatus[o] = "pending"

Takeable(o) == jobStatus[o] = "pending" /\ status[o] = Waiting

\* Mutant: the order's status is not checked.
CompletableAnyOrder(d, o) == jobStatus[o] = "taken" /\ jobDriver[o] = d

\* Mutant: the driver's job, whatever its status.
CompletableAnyJob(d, o) == jobDriver[o] = d

Completable(d, o) == jobStatus[o] = "taken" /\ jobDriver[o] = d /\ status[o] = Sent

TakeJob(d, o) ==
  /\ Takeable(o)
  /\ jobStatus' = [jobStatus EXCEPT ![o] = "taken"]
  /\ jobDriver' = [jobDriver EXCEPT ![o] = d]
  /\ SetStatus(o, Sent)
  /\ UNCHANGED <<wallets, inventory, remaining, bill, refunds, announced, locals>>

CompleteJob(d, o) ==
  /\ Completable(d, o)
  /\ jobStatus' = [jobStatus EXCEPT ![o] = "completed"]
  /\ SetStatus(o, Completed)
  /\ announced' = [announced EXCEPT ![o] = @ + 1]
  /\ UNCHANGED <<wallets, inventory, remaining, bill, refunds, jobDriver, locals>>

-----------------------------------------------------------------------------
(* Admin: the clock and processOverdueOrders *)

(* Time passes or simulateTime moves the offset, forwards or back to 0. *)
ClockMoves(S) ==
  /\ S \subseteq Placed
  /\ late' = S
  /\ UNCHANGED <<tables, reading, batch>>

OverdueSelect(a) ==
  /\ batch[a] = {}
  /\ batch' = [batch EXCEPT ![a] = {o \in late : status[o] \notin Final}]
  /\ UNCHANGED <<tables, reading, late>>

OverdueReturn(a, o) ==
  /\ o \in batch[a]
  /\ ReturnOrder(o)
  /\ batch' = [batch EXCEPT ![a] = @ \ {o}]
  /\ UNCHANGED <<reading, late>>

(* The re-check under the lock, or a failed transaction that is logged. *)
OverdueSkip(a, o) ==
  /\ o \in batch[a]
  /\ batch' = [batch EXCEPT ![a] = @ \ {o}]
  /\ UNCHANGED <<tables, reading, late>>

-----------------------------------------------------------------------------
(* Other writers of the tables *)

TopUp(b) ==
  \E amount \in TopUps :
    /\ balance[b] <= MaxBalance
    /\ DirectTopUp(b, amount)
    /\ UNCHANGED locals

(* setStock *)
ChangeStockRead(p) == FindProduct(p) /\ UNCHANGED locals

ChangeStockWrite(p) ==
  \E n \in StockLevels :
    /\ version[p] < MaxVersion
    /\ SetStock(p, n)
    /\ UNCHANGED locals

ChangeStockAbort(p) == GiveUpStock(p) /\ UNCHANGED locals

DeleteProduct(p) == ProductDeleted(p) /\ UNCHANGED locals

-----------------------------------------------------------------------------

Next ==
  \/ \E o \in Orders, b \in Buyers, s \in Stores : CreateOrder(o, b, s)
  \/ \E r \in SellerRequests, s \in Stores, o \in Orders : ProcessOrderRead(r, s, o)
  \/ \E r \in SellerRequests : ProcessOrderWrite(r)
  \/ \E r \in SellerRequests : ProcessOrderAbort(r)
  \/ \E d \in Drivers, o \in Orders : TakeJob(d, o)
  \/ \E d \in Drivers, o \in Orders : CompleteJob(d, o)
  \/ \E S \in SUBSET Placed : ClockMoves(S)
  \/ \E a \in AdminRuns : OverdueSelect(a)
  \/ \E a \in AdminRuns, o \in Orders : OverdueReturn(a, o)
  \/ \E a \in AdminRuns, o \in Orders : OverdueSkip(a, o)
  \/ \E b \in Buyers : TopUp(b)
  \/ \E p \in Products : ChangeStockRead(p)
  \/ \E p \in Products : ChangeStockWrite(p)
  \/ \E p \in Products : ChangeStockAbort(p)
  \/ \E p \in Products : DeleteProduct(p)

Spec == Init /\ [][Next]_vars

=============================================================================
