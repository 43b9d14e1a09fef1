------------------------- MODULE OrderLifecycleProofs -------------------------
(***************************************************************************)
(* Theorems about OrderLifecycle, for every value of its constants.  The   *)
(* lemmas come first that speak of the transactions of CommerceTables and  *)
(* hold in whichever module lets them happen.                              *)
(***************************************************************************)
EXTENDS OrderProperties, SumProofs

-----------------------------------------------------------------------------
(* The pieces of a write phase preserve the types of what they write *)

(* The UPDATE of the status and its history row. *)
LEMMA SetStatusType ==
  ASSUME TablesTypeOK, NEW o \in Orders, NEW s \in OrderStatus, SetStatus(o, s)
  PROVE  /\ status' \in [Orders -> OrderStatus \cup {"none"}]
         /\ history' \in [Orders -> [OrderStatus -> Nat]]
         /\ status'[o] = s
         /\ \A q \in Orders : status[q] # "none" => status'[q] # "none"
         /\ \A q \in Orders : status'[q] # "none" => q = o \/ status[q] # "none"
  BY DEF TablesTypeOK, SetStatus, OrderStatus, Packed, Waiting, Sent, Completed, Returned

(* The guarded UPDATEs of inventory, and their events. *)
LEMMA WriteStockType ==
  ASSUME TablesTypeOK, NEW rows \in SUBSET Products, NEW new \in [Products -> Nat],
         WriteStock(rows, new)
  PROVE  /\ stock' \in [Products -> Nat]
         /\ version' \in [Products -> Nat]
         /\ invEvents' \in SUBSET InventoryChanged
  <1>1. stock' \in [Products -> Nat] /\ version' \in [Products -> Nat]
    BY DEF TablesTypeOK, WriteStock
  <1>2. \A p \in rows :
          [product |-> p, stock |-> new[p], version |-> version[p] + 1] \in InventoryChanged
    BY DEF TablesTypeOK, InventoryChanged
  <1>3. invEvents' \in SUBSET InventoryChanged
    BY <1>2 DEF TablesTypeOK, WriteStock, StockEvents
  <1>4. QED
    BY <1>1, <1>3

-----------------------------------------------------------------------------
(* The write phases of whole transactions preserve TablesTypeOK *)

(* createOrder *)
LEMMA PlaceOrderType ==
  ASSUME TablesTypeOK, NEW o \in Orders, NEW b \in Buyers, NEW s \in Stores,
         NEW items \in Items, NEW total \in Nat, NEW code \in Vouchers \cup {NoCode},
         PlaceOrder(o, b, s, items, total, code)
  PROVE  TablesTypeOK'
  <1> DEFINE rows == {p \in Products : items[p] > 0}
             new  == [p \in Products |-> stock[p] - items[p]]
  <1>1. WriteStock(rows, new) /\ SetStatus(o, Packed) /\ Credit(b, -total)
    BY DEF PlaceOrder
  <1>2. new \in [Products -> Nat]
    <2>1. ASSUME NEW p \in Products
          PROVE  stock[p] - items[p] \in Nat
      <3>1. stock[p] \in Nat /\ items[p] \in Nat
        BY DEF TablesTypeOK, Items
      <3>2. items[p] > 0 => stock[p] >= items[p]
        BY DEF PlaceOrder, InStock
      <3>3. QED
        BY <3>1, <3>2
    <2>2. QED
      BY <2>1
  <1>3. /\ stock' \in [Products -> Nat]
        /\ version' \in [Products -> Nat]
        /\ invEvents' \in SUBSET InventoryChanged
    BY <1>1, <1>2, WriteStockType
  <1>4. /\ status' \in [Orders -> OrderStatus \cup {"none"}]
        /\ history' \in [Orders -> [OrderStatus -> Nat]]
        /\ \A q \in Orders : status'[q] # "none" => q = o \/ status[q] # "none"
    BY <1>1, SetStatusType DEF OrderStatus
  <1>5. balance' \in [Buyers -> Nat]
    <2>1. balance[b] + (-total) \in Nat
      BY DEF TablesTypeOK, PlaceOrder, CanPay
    <2>2. QED
      BY <1>1, <2>1 DEF TablesTypeOK, Credit
  <1>6. remaining' \in [Vouchers -> Nat]
    <2>1. remaining' = [v \in Vouchers |-> IF v = code THEN remaining[v] - 1
                                                       ELSE remaining[v]]
      BY DEF PlaceOrder, UseVoucher
    <2>2. ASSUME NEW v \in Vouchers, v = code
          PROVE  remaining[v] - 1 \in Nat
      BY <2>2 DEF TablesTypeOK, PlaceOrder, UsesLeft
    <2>3. QED
      BY <2>1, <2>2 DEF TablesTypeOK
  <1>7. bill' \in [Orders -> Bill \cup {NoBill}]
        /\ \A q \in Orders : status'[q] # "none" => bill'[q] \in Bill
    <2>1. [buyer |-> b, store |-> s, items |-> items, total |-> total, code |-> code] \in Bill
      BY DEF Bill
    <2>2. QED
      BY <1>4, <2>1 DEF TablesTypeOK, PlaceOrder
  <1>8. UNCHANGED <<toppedUp, listed, deleted, setting, refunds, deliveries, announced>>
    BY DEF PlaceOrder
  <1>9. QED
    BY <1>3, <1>4, <1>5, <1>6, <1>7, <1>8 DEF TablesTypeOK, deliveries

(* processOrder *)
LEMMA OpenJobType ==
  ASSUME TablesTypeOK, NEW o \in Orders, status[o] # "none", OpenJob(o)
  PROVE  TablesTypeOK'
  <1>1. /\ status' \in [Orders -> OrderStatus \cup {"none"}]
        /\ history' \in [Orders -> [OrderStatus -> Nat]]
        /\ \A q \in Orders : status'[q] # "none" => q = o \/ status[q] # "none"
    <2>1. SetStatus(o, Waiting) /\ Waiting \in OrderStatus
      BY DEF OpenJob, OrderStatus
    <2>2. QED
      BY <2>1, SetStatusType
  <1>2. jobStatus' \in [Orders -> JobStatus \cup {"none"}]
    BY DEF OpenJob, TablesTypeOK, JobStatus
  <1>3. \A q \in Orders : status'[q] # "none" => bill'[q] \in Bill
    BY <1>1 DEF TablesTypeOK, OpenJob
  <1>4. UNCHANGED <<wallets, inventory, remaining, bill, refunds, jobDriver, announced>>
    BY DEF OpenJob
  <1>5. QED
    BY <1>1, <1>2, <1>3, <1>4 DEF TablesTypeOK, wallets, inventory

(* processOverdueOrders, one order *)
LEMMA ReturnOrderType ==
  ASSUME TablesTypeOK, NEW o \in Orders, status[o] # "none", ReturnOrder(o)
  PROVE  TablesTypeOK'
  <1> DEFINE rows == ItemsOf(o) \cap listed
             new  == [p \in Products |-> stock[p] + bill[o].items[p]]
  <1>1. bill[o] \in Bill
    BY DEF TablesTypeOK
  <1>2. WriteStock(rows, new) /\ SetStatus(o, Returned) /\ Returned \in OrderStatus
    BY DEF ReturnOrder, OrderStatus
  <1>3. new \in [Products -> Nat] /\ rows \in SUBSET Products
    BY <1>1 DEF TablesTypeOK, Bill, Items, ItemsOf
  <1>4. /\ stock' \in [Products -> Nat]
        /\ version' \in [Products -> Nat]
        /\ invEvents' \in SUBSET InventoryChanged
    BY <1>2, <1>3, WriteStockType
  <1>5. /\ status' \in [Orders -> OrderStatus \cup {"none"}]
        /\ history' \in [Orders -> [OrderStatus -> Nat]]
        /\ \A q \in Orders : status'[q] # "none" => q = o \/ status[q] # "none"
    BY <1>2, SetStatusType
  <1>6. balance' \in [Buyers -> Nat]
    BY <1>1 DEF TablesTypeOK, ReturnOrder, Refund, Credit, Bill
  <1>7. refunds' \in [Orders -> Nat]
    BY DEF TablesTypeOK, ReturnOrder, Refund
  <1>8. \A q \in Orders : status'[q] # "none" => bill'[q] \in Bill
    BY <1>5 DEF TablesTypeOK, ReturnOrder
  <1>9. UNCHANGED <<toppedUp, listed, deleted, setting, remaining, bill, deliveries, announced>>
    BY DEF ReturnOrder
  <1>10. QED
    BY <1>4, <1>5, <1>6, <1>7, <1>8, <1>9 DEF TablesTypeOK, deliveries

(* directTopUp *)
LEMMA DirectTopUpType ==
  ASSUME TablesTypeOK, NEW b \in Buyers, NEW amount \in Nat, DirectTopUp(b, amount)
  PROVE  TablesTypeOK'
  <1>1. balance' \in [Buyers -> Nat] /\ toppedUp' \in [Buyers -> Nat]
    BY DEF TablesTypeOK, DirectTopUp, Credit
  <1>2. QED
    BY <1>1 DEF TablesTypeOK, DirectTopUp, inventory, deliveries

(* setStock: the SELECT, the write, and a rollback *)
LEMMA FindProductType ==
  ASSUME TablesTypeOK, NEW p \in Products, FindProduct(p) \/ GiveUpStock(p)
  PROVE  TablesTypeOK'
  BY DEF TablesTypeOK, FindProduct, GiveUpStock, wallets, deliveries

(* setStock: the write. *)
LEMMA SetStockType ==
  ASSUME TablesTypeOK, NEW p \in Products, NEW n \in Nat, SetStock(p, n)
  PROVE  TablesTypeOK'
  <1>1. WriteStock({p}, [q \in Products |-> n])
    BY DEF SetStock
  <1>2. /\ stock' \in [Products -> Nat]
        /\ version' \in [Products -> Nat]
        /\ invEvents' \in SUBSET InventoryChanged
    BY <1>1, WriteStockType
  <1>3. QED
    BY <1>2 DEF TablesTypeOK, SetStock, wallets, deliveries

(* productDeleted *)
LEMMA ProductDeletedType ==
  ASSUME TablesTypeOK, NEW p \in Products, ProductDeleted(p)
  PROVE  TablesTypeOK'
  BY DEF TablesTypeOK, ProductDeleted, wallets, deliveries

-----------------------------------------------------------------------------
(* The outbox mirrors the stock *)

(* A write that emits its row as it returns it keeps the mirror, also when *)
(* it inserts the row.                                                     *)
LEMMA WriteStockMirrors ==
  ASSUME TablesTypeOK, OutboxMirrorsStock, NEW rows \in SUBSET Products,
         NEW new \in [Products -> Nat], WriteStock(rows, new),
         listed' \subseteq listed \cup rows, deleted' = deleted
  PROVE  OutboxMirrorsStock'
  <1> DEFINE event(q) == [product |-> q, stock |-> new[q], version |-> version[q] + 1]
  <1>1. invEvents' = invEvents \cup {event(q) : q \in rows}
    BY DEF WriteStock, StockEvents
  <1>2. \A p \in Products : version[p] \in Nat
    BY DEF TablesTypeOK
  <1>3. \A e \in invEvents : e.version \in Nat /\ e.product \in Products
    BY DEF TablesTypeOK, InventoryChanged
  <1>4. \A q \in rows : stock'[q] = new[q] /\ version'[q] = version[q] + 1
    BY DEF WriteStock
  <1>5. \A q \in Products \ rows : stock'[q] = stock[q] /\ version'[q] = version[q]
    BY DEF WriteStock
  <1>6. ASSUME NEW p \in listed', version'[p] > 0
        PROVE  [product |-> p, stock |-> stock'[p], version |-> version'[p]] \in invEvents'
    <2>1. CASE p \in rows
      BY <1>1, <1>4, <2>1
    <2>2. CASE p \notin rows
      <3>1. p \in listed /\ p \in Products
        BY <2>2 DEF TablesTypeOK
      <3>2. stock'[p] = stock[p] /\ version'[p] = version[p]
        BY <1>5, <2>2, <3>1
      <3>3. [product |-> p, stock |-> stock[p], version |-> version[p]] \in invEvents
        BY <1>6, <3>1, <3>2 DEF OutboxMirrorsStock
      <3>4. QED
        BY <1>1, <3>2, <3>3
    <2>3. QED
      BY <2>1, <2>2
  <1>7. ASSUME NEW e \in invEvents', e.product \notin deleted
        PROVE  /\ e.version <= version'[e.product]
               /\ e.version = version'[e.product] => e.stock = stock'[e.product]
    <2>1. CASE e \in invEvents
      <3>1. /\ e.version <= version[e.product]
            /\ e.version = version[e.product] => e.stock = stock[e.product]
        BY <1>7, <2>1 DEF OutboxMirrorsStock
      <3>2. CASE e.product \in rows
        <4>1. version'[e.product] = version[e.product] + 1
          BY <1>4, <3>2
        <4>2. QED
          BY <1>2, <1>3, <2>1, <3>1, <4>1
      <3>3. CASE e.product \notin rows
        BY <1>3, <1>5, <2>1, <3>1, <3>3
      <3>4. QED
        BY <3>2, <3>3
    <2>2. CASE e \in {event(q) : q \in rows}
      <3>1. PICK q \in rows : e = event(q)
        BY <2>2
      <3>2. e.product = q /\ e.stock = stock'[q] /\ e.version = version'[q]
        BY <1>4, <3>1
      <3>3. version'[q] \in Nat
        BY <1>2, <1>4
      <3>4. QED
        BY <3>2, <3>3
    <2>3. QED
      BY <1>1, <1>7, <2>1, <2>2
  <1>8. QED
    BY <1>6, <1>7 DEF OutboxMirrorsStock

(* Every transaction that writes stock does it that way. *)
LEMMA PlaceOrderMirrors ==
  ASSUME TablesTypeOK, OutboxMirrorsStock, NEW o \in Orders, NEW b \in Buyers,
         NEW s \in Stores, NEW items \in Items, NEW total \in Nat,
         NEW code \in Vouchers \cup {NoCode}, PlaceOrder(o, b, s, items, total, code)
  PROVE  OutboxMirrorsStock'
  <1> DEFINE rows == {p \in Products : items[p] > 0}
             new  == [p \in Products |-> stock[p] - items[p]]
  <1>1. WriteStock(rows, new) /\ listed' = listed /\ deleted' = deleted
    BY DEF PlaceOrder
  <1>2. new \in [Products -> Nat]
    <2>1. ASSUME NEW p \in Products
          PROVE  stock[p] - items[p] \in Nat
      <3>1. stock[p] \in Nat /\ items[p] \in Nat
        BY DEF TablesTypeOK, Items
      <3>2. items[p] > 0 => stock[p] >= items[p]
        BY DEF PlaceOrder, InStock
      <3>3. QED
        BY <3>1, <3>2
    <2>2. QED
      BY <2>1
  <1>3. QED
    BY <1>1, <1>2, WriteStockMirrors

(* processOverdueOrders: the stock it restores is announced.                *)
LEMMA ReturnOrderMirrors ==
  ASSUME TablesTypeOK, OutboxMirrorsStock, NEW o \in Orders, status[o] # "none",
         ReturnOrder(o)
  PROVE  OutboxMirrorsStock'
  <1> DEFINE rows == ItemsOf(o) \cap listed
             new  == [p \in Products |-> stock[p] + bill[o].items[p]]
  <1>1. WriteStock(rows, new) /\ listed' = listed /\ deleted' = deleted
    BY DEF ReturnOrder
  <1>2. bill[o] \in Bill
    BY DEF TablesTypeOK
  <1>3. new \in [Products -> Nat] /\ rows \in SUBSET Products
    BY <1>2 DEF TablesTypeOK, Bill, Items, ItemsOf
  <1>4. QED
    BY <1>1, <1>3, WriteStockMirrors

(* setStock: the level it sets is announced, in a new row or an old one.    *)
LEMMA SetStockMirrors ==
  ASSUME TablesTypeOK, OutboxMirrorsStock, NEW p \in Products, NEW n \in Nat, SetStock(p, n)
  PROVE  OutboxMirrorsStock'
  <1>1. /\ WriteStock({p}, [q \in Products |-> n])
        /\ listed' = listed \cup {p} /\ deleted' = deleted
    BY DEF SetStock
  <1>2. QED
    BY <1>1, WriteStockMirrors

(* productDeleted: the events of the other products stay true.              *)
LEMMA ProductDeletedMirrors ==
  ASSUME TablesTypeOK, OutboxMirrorsStock, NEW p \in Products, ProductDeleted(p)
  PROVE  OutboxMirrorsStock'
  BY DEF TablesTypeOK, OutboxMirrorsStock, ProductDeleted

-----------------------------------------------------------------------------
(* Type correctness *)

(* A setStock takes one of its steps. *)
ChangesStock(p) == ChangeStockRead(p) \/ ChangeStockWrite(p) \/ ChangeStockAbort(p)

(* What TypeOK says of the requests in flight. *)
LocalsTypeOK ==
  /\ reading \in [SellerRequests -> Orders \cup {NoOrder}]
  /\ batch \in [AdminRuns -> SUBSET Orders]
  /\ late \in SUBSET Orders
  /\ \A o \in Orders :
       /\ o \in late => status[o] # "none"
       /\ \A a \in AdminRuns : o \in batch[a] => status[o] # "none"
       /\ \A r \in SellerRequests : reading[r] = o => status[o] # "none"

(* The type invariant speaks of the tables and of the requests.             *)
LEMMA TypeOKParts == TypeOK <=> TablesTypeOK /\ LocalsTypeOK
  BY DEF TypeOK, LocalsTypeOK

(* An order never becomes unplaced, and a request that gives up orders     *)
(* keeps the others, so requests in flight only hold placed orders.        *)
LEMMA LocalsKept ==
  ASSUME LocalsTypeOK, UNCHANGED locals,
         \A q \in Orders : status[q] # "none" => status'[q] # "none"
  PROVE  LocalsTypeOK'
  BY DEF LocalsTypeOK, locals

(* The tables start empty.                                                  *)
LEMMA InitType == Init => TypeOK
  BY TablesAssumption, LifecycleAssumption
     DEF Init, TablesInit, TypeOK, TablesTypeOK, Final, OrderStatus, InventoryChanged

(* Checkout *)
LEMMA CreateOrderType ==
  ASSUME TypeOK, NEW o \in Orders, NEW b \in Buyers, NEW s \in Stores, CreateOrder(o, b, s)
  PROVE  TypeOK'
  <1>1. PICK items \in Carts, total \in Totals, code \in Vouchers \cup {NoCode} :
          PlaceOrder(o, b, s, items, total, code) /\ UNCHANGED locals
    BY DEF CreateOrder
  <1>2. items \in Items /\ total \in Nat
    BY LifecycleAssumption
  <1>3. TablesTypeOK'
    BY <1>1, <1>2, PlaceOrderType DEF TypeOK
  <1>4. SetStatus(o, Packed) /\ Packed \in OrderStatus
    BY <1>1 DEF PlaceOrder, OrderStatus
  <1>5. LocalsTypeOK'
    BY <1>1, <1>4, SetStatusType, LocalsKept, TypeOKParts
  <1>6. QED
    BY <1>3, <1>5 DEF TypeOK, LocalsTypeOK

(* processOrder: its read, its write and its rollback *)
LEMMA ProcessOrderReadType ==
  ASSUME TypeOK, NEW r \in SellerRequests, NEW s \in Stores, NEW o \in Orders,
         ProcessOrderRead(r, s, o)
  PROVE  TypeOK'
  <1>1. TablesTypeOK' 
    BY DEF TypeOK, TablesTypeOK, ProcessOrderRead, tables, wallets, inventory, deliveries
  <1>2. LocalsTypeOK'
    <2>1. status[o] # "none"
      BY DEF ProcessOrderRead, Packed
    <2>2. UNCHANGED <<status, batch, late>>
      BY DEF ProcessOrderRead, tables
    <2>3. reading' = [reading EXCEPT ![r] = o]
      BY DEF ProcessOrderRead
    <2>4. QED
      BY <2>1, <2>2, <2>3, TypeOKParts DEF LocalsTypeOK
  <1>3. QED
    BY <1>1, <1>2 DEF TypeOK, LocalsTypeOK

(* processOrder: the write.                                                 *)
LEMMA ProcessOrderWriteType ==
  ASSUME TypeOK, NEW r \in SellerRequests, ProcessOrderWrite(r)
  PROVE  TypeOK'
  <1> DEFINE o == reading[r]
  <1>1. o \in Orders /\ status[o] # "none" /\ OpenJob(o)
    BY DEF TypeOK, ProcessOrderWrite
  <1>2. TablesTypeOK'
    BY <1>1, OpenJobType DEF TypeOK
  <1>3. \A q \in Orders : status[q] # "none" => status'[q] # "none"
    <2>1. SetStatus(o, Waiting) /\ Waiting \in OrderStatus
      BY <1>1 DEF OpenJob, OrderStatus
    <2>2. QED
      BY <1>1, <2>1, SetStatusType DEF TypeOK
  <1>4. LocalsTypeOK'
    BY <1>3, LifecycleAssumption, TypeOKParts DEF LocalsTypeOK, ProcessOrderWrite
  <1>5. QED
    BY <1>2, <1>4 DEF TypeOK, LocalsTypeOK

(* processOrder: the rollback.                                              *)
LEMMA ProcessOrderAbortType ==
  ASSUME TypeOK, NEW r \in SellerRequests, ProcessOrderAbort(r)
  PROVE  TypeOK'
  <1>1. TablesTypeOK' 
    BY DEF TypeOK, TablesTypeOK, ProcessOrderAbort, tables, wallets, inventory, deliveries
  <1>2. LocalsTypeOK'
    BY LifecycleAssumption, TypeOKParts DEF LocalsTypeOK, ProcessOrderAbort, tables
  <1>3. QED
    BY <1>1, <1>2 DEF TypeOK, LocalsTypeOK

(* takeJob and completeJob *)
LEMMA DriverType ==
  ASSUME TypeOK, NEW d \in Drivers, NEW o \in Orders, TakeJob(d, o) \/ CompleteJob(d, o)
  PROVE  TypeOK'
  <1>1. PICK s \in OrderStatus : SetStatus(o, s)
    BY DEF TakeJob, CompleteJob, OrderStatus
  <1>2. /\ status' \in [Orders -> OrderStatus \cup {"none"}]
        /\ history' \in [Orders -> [OrderStatus -> Nat]]
        /\ \A q \in Orders : status[q] # "none" => status'[q] # "none"
        /\ \A q \in Orders : status'[q] # "none" => q = o \/ status[q] # "none"
    BY <1>1, SetStatusType DEF TypeOK
  <1>3. status[o] # "none"
    BY DEF TakeJob, Takeable, CompleteJob, Completable, Waiting, Sent
  <1>4. /\ jobStatus' \in [Orders -> JobStatus \cup {"none"}]
        /\ jobDriver' \in [Orders -> Drivers \cup {NoDriver}]
        /\ announced' \in [Orders -> Nat]
    <2>1. CASE TakeJob(d, o)
      BY <2>1 DEF TypeOK, TablesTypeOK, TakeJob, JobStatus
    <2>2. CASE CompleteJob(d, o)
      BY <2>2 DEF TypeOK, TablesTypeOK, CompleteJob, JobStatus
    <2>3. QED
      BY <2>1, <2>2
  <1>5. UNCHANGED <<wallets, inventory, remaining, bill, refunds, locals>>
    BY DEF TakeJob, CompleteJob
  <1>6. TablesTypeOK'
    <2>1. \A q \in Orders : status'[q] # "none" => bill'[q] \in Bill
      BY <1>2, <1>3, <1>5 DEF TypeOK, TablesTypeOK
    <2>2. QED
      BY <1>2, <1>4, <1>5, <2>1 DEF TypeOK, TablesTypeOK, wallets, inventory
  <1>7. LocalsTypeOK'
    BY <1>2, <1>5, LocalsKept, TypeOKParts
  <1>8. QED
    BY <1>6, <1>7 DEF TypeOK, LocalsTypeOK

(* Admin: the clock and processOverdueOrders *)
LEMMA ClockType ==
  ASSUME TypeOK, NEW S \in SUBSET Placed, ClockMoves(S)
  PROVE  TypeOK'
  <1>1. TablesTypeOK'
    BY DEF TypeOK, TablesTypeOK, ClockMoves, tables, wallets, inventory, deliveries
  <1>2. LocalsTypeOK'
    BY TypeOKParts DEF LocalsTypeOK, ClockMoves, tables, Placed
  <1>3. QED
    BY <1>1, <1>2 DEF TypeOK, LocalsTypeOK

(* processOverdueOrders: the list.                                          *)
LEMMA OverdueSelectType ==
  ASSUME TypeOK, NEW a \in AdminRuns, OverdueSelect(a)
  PROVE  TypeOK'
  <1>1. TablesTypeOK'
    BY DEF TypeOK, TablesTypeOK, OverdueSelect, tables, wallets, inventory, deliveries
  <1>2. LocalsTypeOK'
    BY TypeOKParts DEF LocalsTypeOK, OverdueSelect, tables
  <1>3. QED
    BY <1>1, <1>2 DEF TypeOK, LocalsTypeOK

(* processOverdueOrders: one order returned and refunded.                   *)
LEMMA OverdueReturnType ==
  ASSUME TypeOK, NEW a \in AdminRuns, NEW o \in Orders, OverdueReturn(a, o)
  PROVE  TypeOK'
  <1>1. status[o] # "none" /\ ReturnOrder(o)
    BY DEF TypeOK, OverdueReturn
  <1>2. TablesTypeOK'
    BY <1>1, ReturnOrderType DEF TypeOK
  <1>3. \A q \in Orders : status[q] # "none" => status'[q] # "none"
    <2>1. SetStatus(o, Returned) /\ Returned \in OrderStatus
      BY <1>1 DEF ReturnOrder, OrderStatus
    <2>2. QED
      BY <2>1, SetStatusType DEF TypeOK
  <1>4. LocalsTypeOK'
    BY <1>3, TypeOKParts DEF LocalsTypeOK, OverdueReturn
  <1>5. QED
    BY <1>2, <1>4 DEF TypeOK, LocalsTypeOK

(* processOverdueOrders: one order skipped.                                 *)
LEMMA OverdueSkipType ==
  ASSUME TypeOK, NEW a \in AdminRuns, NEW o \in Orders, OverdueSkip(a, o)
  PROVE  TypeOK'
  <1>1. TablesTypeOK'
    BY DEF TypeOK, TablesTypeOK, OverdueSkip, tables, wallets, inventory, deliveries
  <1>2. LocalsTypeOK'
    BY TypeOKParts DEF LocalsTypeOK, OverdueSkip, tables
  <1>3. QED
    BY <1>1, <1>2 DEF TypeOK, LocalsTypeOK

(* directTopUp, setStock and productDeleted *)
LEMMA OtherWritersType ==
  ASSUME TypeOK,
         \/ \E b \in Buyers : TopUp(b)
         \/ \E p \in Products : ChangesStock(p)
         \/ \E p \in Products : DeleteProduct(p)
  PROVE  TypeOK'
  <1>1. TablesTypeOK' /\ UNCHANGED <<status, locals>>
    <2>1. CASE \E b \in Buyers : TopUp(b)
      BY <2>1, LifecycleAssumption, DirectTopUpType DEF TypeOK, TopUp, DirectTopUp
    <2>2. CASE \E p \in Products : ChangesStock(p)
      <3>1. PICK p \in Products : ChangesStock(p)
        BY <2>2
      <3>2. TablesTypeOK'
        BY <3>1, LifecycleAssumption, FindProductType, SetStockType
           DEF TypeOK, ChangesStock, ChangeStockRead, ChangeStockWrite, ChangeStockAbort
      <3>3. UNCHANGED <<status, locals>>
        BY <3>1 DEF ChangesStock, ChangeStockRead, ChangeStockWrite, ChangeStockAbort,
           FindProduct, SetStock, GiveUpStock
      <3>4. QED
        BY <3>2, <3>3
    <2>3. CASE \E p \in Products : DeleteProduct(p)
      BY <2>3, ProductDeletedType DEF TypeOK, DeleteProduct, ProductDeleted
    <2>4. QED
      BY <2>1, <2>2, <2>3
  <1>2. LocalsTypeOK'
    BY <1>1, LocalsKept, TypeOKParts
  <1>3. QED
    BY <1>1, <1>2 DEF TypeOK, LocalsTypeOK

(* Every step keeps the types: no stock, wallet or voucher goes negative.   *)
LEMMA NextType == TypeOK /\ [Next]_vars => TypeOK'
  <1> SUFFICES ASSUME TypeOK, [Next]_vars
               PROVE  TypeOK'
    OBVIOUS
  <1>1. CASE UNCHANGED vars
    BY <1>1 DEF TypeOK, TablesTypeOK, vars, tables, wallets, inventory, deliveries, locals
  <1>2. CASE Next
    BY <1>2, CreateOrderType, ProcessOrderReadType, ProcessOrderWriteType,
       ProcessOrderAbortType, DriverType, ClockType, OverdueSelectType,
       OverdueReturnType, OverdueSkipType, OtherWritersType DEF Next, ChangesStock
  <1>3. QED
    BY <1>1, <1>2

(* The tables always hold what their columns allow: no balance, stock or   *)
(* remaining use ever goes negative, whatever transactions interleave.     *)
THEOREM TypeCorrect == Spec => []TypeOK
  BY InitType, NextType, PTL DEF Spec

-----------------------------------------------------------------------------
(* The steps as an order sees them *)

orderVars == <<status, history, refunds, deliveries, announced>>

Creates(o) ==
  /\ status[o] = "none"
  /\ SetStatus(o, Packed)
  /\ UNCHANGED <<refunds, deliveries, announced>>

Opens(o)     == status[o] # "none" /\ OpenJob(o)
Takes(o)     == \E d \in Drivers : TakeJob(d, o)
Completes(o) == \E d \in Drivers : CompleteJob(d, o)
Returns(o)   == status[o] # "none" /\ ReturnOrder(o)

(* Whatever step is taken, an order either moves in one of five ways or stays. *)
LEMMA OrderSteps ==
  ASSUME TypeOK, [Next]_vars
  PROVE  \/ UNCHANGED orderVars
         \/ \E o \in Orders : Creates(o) \/ Opens(o) \/ Takes(o) \/ Completes(o) \/ Returns(o)
  <1>1. CASE UNCHANGED vars
    BY <1>1 DEF vars, tables, orderVars
  <1>2. CASE \E o \in Orders, b \in Buyers, s \in Stores : CreateOrder(o, b, s)
    BY <1>2 DEF CreateOrder, PlaceOrder, Creates
  <1>3. CASE \/ \E r \in SellerRequests, s \in Stores, o \in Orders : ProcessOrderRead(r, s, o)
             \/ \E r \in SellerRequests : ProcessOrderAbort(r)
             \/ \E S \in SUBSET Placed : ClockMoves(S)
             \/ \E a \in AdminRuns : OverdueSelect(a)
             \/ \E a \in AdminRuns, o \in Orders : OverdueSkip(a, o)
    BY <1>3 DEF ProcessOrderRead, ProcessOrderAbort, ClockMoves, OverdueSelect, OverdueSkip,
                tables, orderVars
  <1>4. CASE \E r \in SellerRequests : ProcessOrderWrite(r)
    BY <1>4 DEF TypeOK, ProcessOrderWrite, Opens
  <1>5. CASE \/ \E d \in Drivers, o \in Orders : TakeJob(d, o)
             \/ \E d \in Drivers, o \in Orders : CompleteJob(d, o)
    BY <1>5 DEF Takes, Completes
  <1>6. CASE \E a \in AdminRuns, o \in Orders : OverdueReturn(a, o)
    BY <1>6 DEF TypeOK, OverdueReturn, Returns
  <1>7. CASE \/ \E b \in Buyers : TopUp(b)
             \/ \E p \in Products : ChangesStock(p)
             \/ \E p \in Products : DeleteProduct(p)
    BY <1>7 DEF TopUp, DirectTopUp, ChangesStock, ChangeStockRead, ChangeStockWrite,
       ChangeStockAbort, FindProduct, SetStock, GiveUpStock, DeleteProduct, ProductDeleted, orderVars
  <1>8. QED
    BY <1>1, <1>2, <1>3, <1>4, <1>5, <1>6, <1>7 DEF Next, ChangesStock

-----------------------------------------------------------------------------
(* An order and its delivery job agree *)

(* No step makes an order and its delivery job disagree.                    *)
LEMMA JobStep ==
  ASSUME TypeOK, JobTracksOrder, [Next]_vars
  PROVE  JobTracksOrder'
  <1> USE DEF JobTracksOrder, Packed, Waiting, Sent, Completed, Returned
  <1>1. CASE UNCHANGED orderVars
    BY <1>1 DEF orderVars, deliveries
  <1>2. ASSUME NEW o \in Orders, Creates(o)
        PROVE  JobTracksOrder'
    BY <1>2 DEF TypeOK, TablesTypeOK, Creates, SetStatus, deliveries
  <1>3. ASSUME NEW o \in Orders, Opens(o)
        PROVE  JobTracksOrder'
    BY <1>3 DEF TypeOK, TablesTypeOK, Opens, OpenJob, NoJob, SetStatus
  <1>4. ASSUME NEW o \in Orders, Takes(o)
        PROVE  JobTracksOrder'
    BY <1>4, TablesAssumption DEF TypeOK, TablesTypeOK, Takes, TakeJob, SetStatus
  <1>5. ASSUME NEW o \in Orders, Completes(o)
        PROVE  JobTracksOrder'
    BY <1>5 DEF TypeOK, TablesTypeOK, Completes, CompleteJob, Completable, SetStatus
  <1>6. ASSUME NEW o \in Orders, Returns(o)
        PROVE  JobTracksOrder'
    BY <1>6 DEF TypeOK, TablesTypeOK, Returns, ReturnOrder, StillOpen, SetStatus, deliveries, Final
  <1>7. QED
    BY <1>1, <1>2, <1>3, <1>4, <1>5, <1>6, OrderSteps

(* Before the first order there is no delivery job.                         *)
LEMMA JobInit == Init => JobTracksOrder
  BY DEF Init, TablesInit, JobTracksOrder

(* An order and its delivery job always agree, although different          *)
(* transactions write them: only a returned order leaves its job behind.   *)
THEOREM JobsTrackOrders == Spec => []JobTracksOrder
  BY TypeCorrect, JobInit, JobStep, PTL DEF Spec

-----------------------------------------------------------------------------
(* Refunds *)

(* No step refunds an order more often than RefundsBounded says.            *)
LEMMA RefundsStep ==
  ASSUME TypeOK, JobTracksOrder, RefundsBounded, [Next]_vars
  PROVE  RefundsBounded'
  <1> USE DEF JobTracksOrder, RefundsBounded, Packed, Waiting, Sent, Completed, Returned
  <1>1. CASE UNCHANGED orderVars
    BY <1>1 DEF orderVars, deliveries
  <1>2. ASSUME NEW o \in Orders, Creates(o)
        PROVE  RefundsBounded'
    BY <1>2 DEF TypeOK, TablesTypeOK, Creates, SetStatus, deliveries
  <1>3. ASSUME NEW o \in Orders, Opens(o)
        PROVE  RefundsBounded'
    BY <1>3 DEF TypeOK, TablesTypeOK, Opens, OpenJob, NoJob, SetStatus
  <1>4. ASSUME NEW o \in Orders, Takes(o)
        PROVE  RefundsBounded'
    BY <1>4 DEF TypeOK, TablesTypeOK, Takes, TakeJob, Takeable, SetStatus
  <1>5. ASSUME NEW o \in Orders, Completes(o)
        PROVE  RefundsBounded'
    BY <1>5 DEF TypeOK, TablesTypeOK, Completes, CompleteJob, Completable, SetStatus
  <1>6. ASSUME NEW o \in Orders, Returns(o)
        PROVE  RefundsBounded'
    BY <1>6 DEF TypeOK, TablesTypeOK, Returns, ReturnOrder, StillOpen, Refund, SetStatus, deliveries, Final
  <1>7. QED
    BY <1>1, <1>2, <1>3, <1>4, <1>5, <1>6, OrderSteps

(* Before the first order there is no refund.                               *)
LEMMA RefundsInit == Init => RefundsBounded
  BY DEF Init, TablesInit, RefundsBounded, Returned

(* However many overdue runs and sellers race, an order is refunded at     *)
(* most twice, and at most once while it has no delivery job.              *)
THEOREM RefundsAreBounded == Spec => []RefundsBounded
  BY TypeCorrect, JobsTrackOrders, RefundsInit, RefundsStep, PTL DEF Spec

-----------------------------------------------------------------------------
(* order.completed *)

(* Only completeJob announces, and only what it completes.                  *)
LEMMA AnnouncedStep ==
  ASSUME TypeOK, JobTracksOrder, AnnouncedOnce, [Next]_vars
  PROVE  AnnouncedOnce'
  <1> USE DEF JobTracksOrder, AnnouncedOnce, Packed, Waiting, Sent, Completed, Returned
  <1>1. CASE UNCHANGED orderVars
    BY <1>1 DEF orderVars
  <1>2. ASSUME NEW o \in Orders, Creates(o)
        PROVE  AnnouncedOnce'
    BY <1>2 DEF TypeOK, TablesTypeOK, Creates, SetStatus
  <1>3. ASSUME NEW o \in Orders, Opens(o)
        PROVE  AnnouncedOnce'
    BY <1>3 DEF TypeOK, TablesTypeOK, Opens, OpenJob, NoJob, SetStatus
  <1>4. ASSUME NEW o \in Orders, Takes(o)
        PROVE  AnnouncedOnce'
    BY <1>4 DEF TypeOK, TablesTypeOK, Takes, TakeJob, Takeable, SetStatus
  <1>5. ASSUME NEW o \in Orders, Completes(o)
        PROVE  AnnouncedOnce'
    BY <1>5 DEF TypeOK, TablesTypeOK, Completes, CompleteJob, Completable, SetStatus
  <1>6. ASSUME NEW o \in Orders, Returns(o)
        PROVE  AnnouncedOnce'
    BY <1>6 DEF TypeOK, TablesTypeOK, Returns, ReturnOrder, StillOpen, SetStatus, Final
  <1>7. QED
    BY <1>1, <1>2, <1>3, <1>4, <1>5, <1>6, OrderSteps

(* Before the first order nothing is announced.                             *)
LEMMA AnnouncedInit == Init => AnnouncedOnce
  BY DEF Init, TablesInit, AnnouncedOnce, Completed

(* Catalog is told of an order exactly when it completes, exactly once.    *)
THEOREM CompletionAnnouncedOnce == Spec => []AnnouncedOnce
  BY TypeCorrect, JobsTrackOrders, AnnouncedInit, AnnouncedStep, PTL DEF Spec

-----------------------------------------------------------------------------
(* What a step may never do *)

(* The three action properties hold of every step.                          *)
LEMMA StepsKeep ==
  ASSUME TypeOK, JobTracksOrder, [Next]_vars
  PROVE  KeepsCompleted /\ KeepsDriver /\ KeepsStranded
  <1> USE DEF JobTracksOrder, KeepsCompleted, KeepsDriver, KeepsStranded,
              Packed, Waiting, Sent, Completed, Returned
  <1>1. CASE UNCHANGED orderVars
    BY <1>1 DEF orderVars, deliveries
  <1>2. ASSUME NEW o \in Orders, Creates(o)
        PROVE  KeepsCompleted /\ KeepsDriver /\ KeepsStranded
    BY <1>2 DEF TypeOK, TablesTypeOK, Creates, SetStatus, deliveries
  <1>3. ASSUME NEW o \in Orders, Opens(o)
        PROVE  KeepsCompleted /\ KeepsDriver /\ KeepsStranded
    BY <1>3 DEF TypeOK, TablesTypeOK, Opens, OpenJob, NoJob, SetStatus
  <1>4. ASSUME NEW o \in Orders, Takes(o)
        PROVE  KeepsCompleted /\ KeepsDriver /\ KeepsStranded
    BY <1>4 DEF TypeOK, TablesTypeOK, Takes, TakeJob, Takeable, SetStatus
  <1>5. ASSUME NEW o \in Orders, Completes(o)
        PROVE  KeepsCompleted /\ KeepsDriver /\ KeepsStranded
    BY <1>5 DEF TypeOK, TablesTypeOK, Completes, CompleteJob, Completable, SetStatus
  <1>6. ASSUME NEW o \in Orders, Returns(o)
        PROVE  KeepsCompleted /\ KeepsDriver /\ KeepsStranded
    BY <1>6 DEF TypeOK, TablesTypeOK, Returns, ReturnOrder, StillOpen, Refund, SetStatus, deliveries, Final
  <1>7. QED
    BY <1>1, <1>2, <1>3, <1>4, <1>5, <1>6, OrderSteps

(* A completed order is settled.                                           *)
THEOREM CompletedOrdersAreFinal == Spec => CompletedIsFinal
  BY TypeCorrect, JobsTrackOrders, StepsKeep, PTL DEF Spec, CompletedIsFinal

(* A delivery never changes hands.                                         *)
THEOREM DeliveriesHaveOneDriver == Spec => OneDriver
  BY TypeCorrect, JobsTrackOrders, StepsKeep, PTL DEF Spec, OneDriver

(* Nobody delivers, or is paid for, an order that was returned.            *)
THEOREM StrandedJobsAreInert == Spec => StrandedJobIsInert
  BY TypeCorrect, JobsTrackOrders, StepsKeep, PTL DEF Spec, StrandedJobIsInert

-----------------------------------------------------------------------------
(* The status refines the state diagram *)

(* The lifecycle starts where the diagram starts.                           *)
LEMMA DiagramInit == Init => Diagram!Init
  BY DEF Init, TablesInit, Diagram!Init

(* A status written along an arc is a step of the diagram. *)
LEMMA DiagramArc ==
  ASSUME NEW o \in Orders, NEW s, <<status[o], s>> \in Arcs, SetStatus(o, s)
  PROVE  Diagram!Next
  <1>1. Diagram!Follow(o, <<status[o], s>>)
    BY DEF Diagram!Follow, SetStatus
  <1>2. QED
    BY <1>1 DEF Diagram!Next

(* Every step follows an arc of the diagram or leaves the statuses alone.   *)
LEMMA DiagramStep ==
  ASSUME TypeOK, JobTracksOrder, [Next]_vars
  PROVE  [Diagram!Next]_status
  <1> USE DEF JobTracksOrder, Arcs, DocumentedArcs, Packed, Waiting, Sent, Completed, Returned
  <1>1. CASE UNCHANGED orderVars
    BY <1>1 DEF orderVars
  <1>2. ASSUME NEW o \in Orders, Creates(o)
        PROVE  Diagram!Next
    <2>1. <<status[o], Packed>> \in Arcs
      BY <1>2 DEF Creates, TypeOK, TablesTypeOK, OrderStatus, Final
    <2>2. SetStatus(o, Packed)
      BY <1>2 DEF Creates
    <2>3. QED
      BY <2>1, <2>2, DiagramArc
  <1>3. ASSUME NEW o \in Orders, Opens(o)
        PROVE  Diagram!Next
    <2>1. <<status[o], Waiting>> \in Arcs
      BY <1>3 DEF Opens, OpenJob, NoJob, TypeOK, TablesTypeOK, OrderStatus, Final
    <2>2. SetStatus(o, Waiting)
      BY <1>3 DEF Opens, OpenJob
    <2>3. QED
      BY <2>1, <2>2, DiagramArc
  <1>4. ASSUME NEW o \in Orders, Takes(o)
        PROVE  Diagram!Next
    <2>1. <<status[o], Sent>> \in Arcs
      BY <1>4 DEF Takes, TakeJob, Takeable, TypeOK, TablesTypeOK, OrderStatus, Final
    <2>2. SetStatus(o, Sent)
      BY <1>4 DEF Takes, TakeJob
    <2>3. QED
      BY <2>1, <2>2, DiagramArc
  <1>5. ASSUME NEW o \in Orders, Completes(o)
        PROVE  Diagram!Next
    <2>1. <<status[o], Completed>> \in Arcs
      BY <1>5 DEF Completes, CompleteJob, Completable, TypeOK, TablesTypeOK, OrderStatus, Final
    <2>2. SetStatus(o, Completed)
      BY <1>5 DEF Completes, CompleteJob
    <2>3. QED
      BY <2>1, <2>2, DiagramArc
  <1>6. ASSUME NEW o \in Orders, Returns(o)
        PROVE  Diagram!Next
    <2>1. <<status[o], Returned>> \in Arcs
      BY <1>6 DEF Returns, ReturnOrder, StillOpen, TypeOK, TablesTypeOK, OrderStatus, Final
    <2>2. SetStatus(o, Returned)
      BY <1>6 DEF Returns, ReturnOrder
    <2>3. QED
      BY <2>1, <2>2, DiagramArc
  <1>7. QED
    BY <1>1, <1>2, <1>3, <1>4, <1>5, <1>6, OrderSteps

(* The five transactions that write orders.status, together, move every    *)
(* order along the documented arcs and the one from dikembalikan back to   *)
(* menunggu_pengirim, and along no other.                                  *)
THEOREM LifecycleImplementsDiagram == Spec => ImplementsDiagram
  BY TypeCorrect, JobsTrackOrders, DiagramInit, DiagramStep, PTL
     DEF Spec, ImplementsDiagram, Diagram!Spec

-----------------------------------------------------------------------------
(* The history *)

(* A row is written with every change of the record it stands for.          *)
LEMMA HistoryStep ==
  ASSUME TypeOK, JobTracksOrder, RefundsBounded, HistoryMatchesRecords, [Next]_vars
  PROVE  HistoryMatchesRecords'
  <1> USE DEF JobTracksOrder, RefundsBounded, HistoryMatchesRecords, OrderStatus,
              Packed, Waiting, Sent, Completed, Returned
  <1>1. CASE UNCHANGED orderVars
    BY <1>1 DEF orderVars, deliveries
  <1>2. ASSUME NEW o \in Orders, Creates(o)
        PROVE  HistoryMatchesRecords'
    BY <1>2, TablesAssumption DEF TypeOK, TablesTypeOK, Creates, SetStatus, deliveries
  <1>3. ASSUME NEW o \in Orders, Opens(o)
        PROVE  HistoryMatchesRecords'
    BY <1>3, TablesAssumption DEF TypeOK, TablesTypeOK, Opens, OpenJob, NoJob, SetStatus, deliveries
  <1>4. ASSUME NEW o \in Orders, Takes(o)
        PROVE  HistoryMatchesRecords'
    BY <1>4, TablesAssumption DEF TypeOK, TablesTypeOK, Takes, TakeJob, Takeable, SetStatus, deliveries
  <1>5. ASSUME NEW o \in Orders, Completes(o)
        PROVE  HistoryMatchesRecords'
    BY <1>5, TablesAssumption DEF TypeOK, TablesTypeOK, Completes, CompleteJob, Completable, SetStatus, deliveries
  <1>6. ASSUME NEW o \in Orders, Returns(o)
        PROVE  HistoryMatchesRecords'
    BY <1>6, TablesAssumption DEF TypeOK, TablesTypeOK, Returns, ReturnOrder, StillOpen, Refund, Final, SetStatus, deliveries
  <1>7. QED
    BY <1>1, <1>2, <1>3, <1>4, <1>5, <1>6, OrderSteps

(* An order that does not exist has no history.                             *)
LEMMA HistoryInit == Init => HistoryMatchesRecords
  BY DEF Init, TablesInit, HistoryMatchesRecords, OrderStatus, Packed, Waiting, Sent, Completed,
     Returned

(* order_status_history has a row for every change and no other: whatever  *)
(* races, as many of each status as the order's other records tell of.     *)
THEOREM HistoryIsTrue == Spec => []HistoryMatchesRecords
  BY TypeCorrect, JobsTrackOrders, RefundsAreBounded, HistoryInit, HistoryStep, PTL DEF Spec

-----------------------------------------------------------------------------
(* The outbox mirrors the stock *)

(* Every write of the stock puts its event in the outbox.                   *)
LEMMA MirrorsStep ==
  ASSUME TypeOK, OutboxMirrorsStock, [Next]_vars
  PROVE  OutboxMirrorsStock'
  <1>1. CASE UNCHANGED inventory
    BY <1>1 DEF inventory, OutboxMirrorsStock
  <1>2. CASE \E o \in Orders, b \in Buyers, s \in Stores : CreateOrder(o, b, s)
    BY <1>2, LifecycleAssumption, PlaceOrderMirrors DEF TypeOK, CreateOrder
  <1>3. CASE \E a \in AdminRuns, o \in Orders : OverdueReturn(a, o)
    BY <1>3, ReturnOrderMirrors DEF TypeOK, OverdueReturn
  <1>4. CASE \E p \in Products : ChangesStock(p)
    <2>1. PICK p \in Products : ChangesStock(p)
      BY <1>4
    <2>2. CASE ChangeStockWrite(p)
      BY <2>2, LifecycleAssumption, SetStockMirrors DEF TypeOK, ChangeStockWrite
    <2>3. CASE ChangeStockRead(p) \/ ChangeStockAbort(p)
      BY <2>3 DEF ChangeStockRead, ChangeStockAbort, FindProduct, GiveUpStock, OutboxMirrorsStock
    <2>4. QED
      BY <2>1, <2>2, <2>3 DEF ChangesStock
  <1>5. CASE \E p \in Products : DeleteProduct(p)
    BY <1>5, ProductDeletedMirrors DEF TypeOK, DeleteProduct
  <1>6. CASE \/ UNCHANGED vars
             \/ \E r \in SellerRequests, s \in Stores, o \in Orders : ProcessOrderRead(r, s, o)
             \/ \E r \in SellerRequests : ProcessOrderWrite(r)
             \/ \E r \in SellerRequests : ProcessOrderAbort(r)
             \/ \E d \in Drivers, o \in Orders : TakeJob(d, o)
             \/ \E d \in Drivers, o \in Orders : CompleteJob(d, o)
             \/ \E S \in SUBSET Placed : ClockMoves(S)
             \/ \E a \in AdminRuns : OverdueSelect(a)
             \/ \E a \in AdminRuns, o \in Orders : OverdueSkip(a, o)
             \/ \E b \in Buyers : TopUp(b)
    <2>1. UNCHANGED inventory
      BY <1>6 DEF vars, tables, ProcessOrderRead, ProcessOrderWrite, OpenJob, ProcessOrderAbort,
         TakeJob, CompleteJob, ClockMoves, OverdueSelect, OverdueSkip, TopUp, DirectTopUp
    <2>2. QED
      BY <1>1, <2>1
  <1>7. QED
    BY <1>2, <1>3, <1>4, <1>5, <1>6 DEF Next, ChangesStock

(* Nothing was announced before the first write.                            *)
LEMMA MirrorsInit == Init => OutboxMirrorsStock
  BY DEF Init, TablesInit, OutboxMirrorsStock

(* Whichever transactions race, the outbox has an event for the stock and  *)
(* version a row holds now; until its product is deleted no event          *)
(* contradicts it and none is ahead of the row.                            *)
THEOREM OutboxIsTruthful == Spec => []OutboxMirrorsStock
  BY TypeCorrect, MirrorsInit, MirrorsStep, PTL DEF Spec

-----------------------------------------------------------------------------
(* Vouchers *)

(* The inductive invariant: cardinalities only add up for finite sets. *)
VoucherInv ==
  \A v \in Vouchers : /\ IsFiniteSet(UsersOf(v))
                      /\ remaining[v] + Cardinality(UsersOf(v)) = Quota[v]

(* createOrder takes one use and adds one order that used it.               *)
LEMMA VoucherCreate ==
  ASSUME TypeOK, VoucherInv, NEW o \in Orders, NEW b \in Buyers, NEW s \in Stores,
         CreateOrder(o, b, s)
  PROVE  VoucherInv'
  <1>1. PICK items \in Carts, total \in Totals, code \in Vouchers \cup {NoCode} :
          PlaceOrder(o, b, s, items, total, code)
    BY DEF CreateOrder
  <1> SUFFICES ASSUME NEW v \in Vouchers
               PROVE  /\ IsFiniteSet(UsersOf(v)')
                      /\ remaining'[v] + Cardinality(UsersOf(v)') = Quota[v]
    BY DEF VoucherInv
  <1>2. /\ status[o] = "none"
        /\ status' = [status EXCEPT ![o] = Packed] /\ Packed # "none"
        /\ bill' = [bill EXCEPT ![o] = [buyer |-> b, store |-> s, items |-> items,
                                        total |-> total, code |-> code]]
    BY <1>1 DEF PlaceOrder, SetStatus, Packed
  <1>3. remaining'[v] = IF v = code THEN remaining[v] - 1 ELSE remaining[v]
    BY <1>1 DEF PlaceOrder, UseVoucher
  <1>4. IsFiniteSet(UsersOf(v)) /\ remaining[v] + Cardinality(UsersOf(v)) = Quota[v]
    BY DEF VoucherInv
  <1>5. o \notin UsersOf(v)
    BY <1>2 DEF UsersOf
  <1>6. CASE v = code
    <2>1. UsersOf(v)' = UsersOf(v) \cup {o}
      BY <1>2, <1>6 DEF UsersOf, TypeOK, TablesTypeOK
    <2>2. /\ IsFiniteSet(UsersOf(v) \cup {o})
          /\ Cardinality(UsersOf(v) \cup {o}) = Cardinality(UsersOf(v)) + 1
      BY <1>4, <1>5, FS_AddElement
    <2>3. Cardinality(UsersOf(v)) \in Nat
      BY <1>4, FS_CardinalityType
    <2>4. remaining[v] \in Nat
      BY DEF TypeOK, TablesTypeOK
    <2>5. QED
      BY <1>3, <1>4, <1>6, <2>1, <2>2, <2>3, <2>4
  <1>7. CASE v # code
    <2>1. UsersOf(v)' = UsersOf(v)
      BY <1>2, <1>5, <1>7 DEF UsersOf, TypeOK, TablesTypeOK
    <2>2. QED
      BY <1>3, <1>4, <1>7, <2>1
  <1>8. QED
    BY <1>6, <1>7

(* Every other step leaves the redeemed vouchers alone. *)
LEMMA VoucherKeep ==
  ASSUME VoucherInv, UNCHANGED <<remaining, bill>>,
         \A q \in Orders : status'[q] # "none" <=> status[q] # "none"
  PROVE  VoucherInv'
  <1>1. \A v \in Vouchers : UsersOf(v)' = UsersOf(v)
    BY DEF UsersOf
  <1>2. QED
    BY <1>1 DEF VoucherInv

(* No other step touches a voucher or the code of an order.                 *)
LEMMA VoucherStep ==
  ASSUME TypeOK, VoucherInv, [Next]_vars
  PROVE  VoucherInv'
  <1>1. CASE \E o \in Orders, b \in Buyers, s \in Stores : CreateOrder(o, b, s)
    BY <1>1, VoucherCreate
  <1>2. CASE UNCHANGED <<remaining, bill, status>>
    BY <1>2, VoucherKeep
  <1>3. ASSUME NEW o \in Orders, NEW t \in OrderStatus, status[o] # "none", SetStatus(o, t),
               UNCHANGED <<remaining, bill>>
        PROVE  VoucherInv'
    <2>1. \A q \in Orders : status'[q] # "none" <=> status[q] # "none"
      BY <1>3, SetStatusType DEF TypeOK
    <2>2. QED
      BY <1>3, <2>1, VoucherKeep
  <1>4. CASE \E r \in SellerRequests : ProcessOrderWrite(r)
    BY <1>3, <1>4 DEF TypeOK, ProcessOrderWrite, OpenJob, OrderStatus
  <1>5. CASE \E d \in Drivers, o \in Orders : TakeJob(d, o)
    <2>1. PICK d \in Drivers, o \in Orders : TakeJob(d, o)
      BY <1>5
    <2>2. QED
      BY <1>3, <2>1 DEF TakeJob, Takeable, OrderStatus, Waiting
  <1>6. CASE \E d \in Drivers, o \in Orders : CompleteJob(d, o)
    <2>1. PICK d \in Drivers, o \in Orders : CompleteJob(d, o)
      BY <1>6
    <2>2. QED
      BY <1>3, <2>1 DEF CompleteJob, Completable, OrderStatus, Sent
  <1>7. CASE \E a \in AdminRuns, o \in Orders : OverdueReturn(a, o)
    BY <1>3, <1>7 DEF TypeOK, OverdueReturn, ReturnOrder, OrderStatus
  <1>8. CASE \/ UNCHANGED vars
             \/ \E r \in SellerRequests, s \in Stores, o \in Orders : ProcessOrderRead(r, s, o)
             \/ \E r \in SellerRequests : ProcessOrderAbort(r)
             \/ \E S \in SUBSET Placed : ClockMoves(S)
             \/ \E a \in AdminRuns : OverdueSelect(a)
             \/ \E a \in AdminRuns, o \in Orders : OverdueSkip(a, o)
             \/ \E b \in Buyers : TopUp(b)
             \/ \E p \in Products : ChangesStock(p)
             \/ \E p \in Products : DeleteProduct(p)
    <2>1. UNCHANGED <<remaining, bill, status>>
      BY <1>8 DEF vars, tables, ProcessOrderRead, ProcessOrderAbort, ClockMoves, OverdueSelect,
         OverdueSkip, TopUp, DirectTopUp, ChangesStock, ChangeStockRead, ChangeStockWrite,
         ChangeStockAbort, FindProduct, SetStock, GiveUpStock, DeleteProduct, ProductDeleted
    <2>2. QED
      BY <1>2, <2>1
  <1>9. QED
    BY <1>1, <1>4, <1>5, <1>6, <1>7, <1>8 DEF Next, ChangesStock

(* At first every use of a voucher is left.                                 *)
LEMMA VoucherInit == Init => VoucherInv
  <1> SUFFICES ASSUME Init, NEW v \in Vouchers
               PROVE  /\ IsFiniteSet(UsersOf(v))
                      /\ remaining[v] + Cardinality(UsersOf(v)) = Quota[v]
    BY DEF VoucherInv
  <1>1. UsersOf(v) = {}
    BY DEF Init, TablesInit, UsersOf
  <1>2. IsFiniteSet(UsersOf(v)) /\ Cardinality(UsersOf(v)) = 0
    BY <1>1, FS_EmptySet
  <1>3. remaining[v] = Quota[v] /\ Quota[v] \in Nat
    BY TablesAssumption DEF Init, TablesInit
  <1>4. QED
    BY <1>2, <1>3

(* A voucher is redeemed by at most as many orders as its quota, however   *)
(* many checkouts compete for its last use.                                *)
THEOREM VouchersAddUp == Spec => []VoucherAccounting
  <1>1. VoucherInv => VoucherAccounting
    BY DEF VoucherInv, VoucherAccounting
  <1>2. QED
    BY <1>1, TypeCorrect, VoucherInit, VoucherStep, PTL DEF Spec

-----------------------------------------------------------------------------
(* Money *)

Cost(b) == [o \in OrdersOf(b) |-> bill[o].total * (1 - refunds[o])]

(* The inductive invariant: a sum only adds up over finitely many orders.   *)
MoneyInv ==
  \A b \in Buyers : /\ IsFiniteSet(OrdersOf(b))
                    /\ balance[b] = toppedUp[b] - SumFunctionOnSet(Cost(b), OrdersOf(b))

(* What an order cost, a refund taken off, is a whole amount.               *)
LEMMA CostType ==
  ASSUME TypeOK, NEW b \in Buyers
  PROVE  \A o \in OrdersOf(b) : Cost(b)[o] \in Int
  <1> SUFFICES ASSUME NEW o \in OrdersOf(b)
               PROVE  bill[o].total * (1 - refunds[o]) \in Int
    BY DEF Cost
  <1>1. bill[o] \in Bill /\ refunds[o] \in Nat
    BY DEF TypeOK, TablesTypeOK, OrdersOf, Placed
  <1>2. bill[o].total \in Nat
    BY <1>1 DEF Bill
  <1>3. QED
    BY <1>1, <1>2

(* The orders and wallets of a buyer nothing happened to. *)
LEMMA MoneyOfOthers ==
  ASSUME TypeOK, MoneyInv, NEW b \in Buyers, OrdersOf(b)' = OrdersOf(b),
         \A o \in OrdersOf(b) : bill'[o] = bill[o] /\ refunds'[o] = refunds[o],
         balance'[b] - toppedUp'[b] = balance[b] - toppedUp[b],
         balance'[b] \in Int, toppedUp'[b] \in Int
  PROVE  /\ IsFiniteSet(OrdersOf(b)')
         /\ balance'[b] = toppedUp'[b] - SumFunctionOnSet(Cost(b)', OrdersOf(b)')
  <1>1. Cost(b)' = Cost(b)
    BY DEF Cost
  <1>2. /\ IsFiniteSet(OrdersOf(b))
        /\ balance[b] = toppedUp[b] - SumFunctionOnSet(Cost(b), OrdersOf(b))
    BY DEF MoneyInv
  <1> DEFINE paid == SumFunctionOnSet(Cost(b), OrdersOf(b))
  <1>3. paid \in Int
    BY <1>2, CostType, SumType
  <1>4. balance[b] \in Int /\ toppedUp[b] \in Int
    BY DEF TypeOK, TablesTypeOK
  <1>5. balance[b] = toppedUp[b] - paid
    BY <1>2
  <1> HIDE DEF paid
  <1>6. balance'[b] = toppedUp'[b] - paid
    BY <1>3, <1>4, <1>5
  <1>7. QED
    BY <1>1, <1>2, <1>6 DEF paid

(* createOrder takes the total of one order more out of the wallet.         *)
LEMMA MoneyCreate ==
  ASSUME TypeOK, TypeOK', JobTracksOrder, RefundsBounded, MoneyInv, NEW o \in Orders,
         NEW b \in Buyers, NEW s \in Stores, CreateOrder(o, b, s)
  PROVE  MoneyInv'
  <1>1. PICK items \in Carts, total \in Totals, code \in Vouchers \cup {NoCode} :
          PlaceOrder(o, b, s, items, total, code)
    BY DEF CreateOrder
  <1> SUFFICES ASSUME NEW c \in Buyers
               PROVE  /\ IsFiniteSet(OrdersOf(c)')
                      /\ balance'[c] = toppedUp'[c] - SumFunctionOnSet(Cost(c)', OrdersOf(c)')
    BY DEF MoneyInv
  <1>2. /\ status[o] = "none"
        /\ status' = [status EXCEPT ![o] = Packed] /\ Packed # "none"
        /\ bill' = [bill EXCEPT ![o] = [buyer |-> b, store |-> s, items |-> items,
                                        total |-> total, code |-> code]]
        /\ UNCHANGED <<toppedUp, refunds>>
        /\ balance' = [balance EXCEPT ![b] = @ + (-total)]
    BY <1>1 DEF PlaceOrder, SetStatus, Packed, Credit
  <1>3. /\ balance[c] \in Nat /\ toppedUp[c] \in Nat /\ total \in Nat
        /\ balance'[c] \in Nat /\ toppedUp'[c] \in Nat
    BY LifecycleAssumption DEF TypeOK, TablesTypeOK
  <1>4. o \notin OrdersOf(c) /\ refunds[o] = 0
    <2>1. jobStatus[o] = "none"
      BY <1>2 DEF TypeOK, TablesTypeOK, JobTracksOrder, JobStatus, Waiting, Sent, Completed, Returned
    <2>2. QED
      BY <1>2, <2>1 DEF OrdersOf, Placed, RefundsBounded, Returned
  <1>5. \A q \in OrdersOf(c) : bill'[q] = bill[q] /\ refunds'[q] = refunds[q]
    BY <1>2, <1>4 DEF OrdersOf, Placed, TypeOK, TablesTypeOK
  <1>6. CASE c = b
    <2>1. OrdersOf(c)' = OrdersOf(c) \cup {o}
      BY <1>2, <1>4, <1>6 DEF OrdersOf, Placed, TypeOK, TablesTypeOK
    <2>2. IsFiniteSet(OrdersOf(c))
          /\ balance[c] = toppedUp[c] - SumFunctionOnSet(Cost(c), OrdersOf(c))
      BY DEF MoneyInv
    <2>3. \A q \in OrdersOf(c) : Cost(c)[q] \in Int /\ Cost(c)'[q] = Cost(c)[q]
      BY <1>5, <2>1, CostType DEF Cost
    <2>4. Cost(c)'[o] = total
      <3>1. Cost(c)'[o] = bill'[o].total * (1 - refunds'[o])
        BY <2>1 DEF Cost
      <3>2. bill'[o].total = total /\ refunds'[o] = 0
        BY <1>2, <1>4 DEF TypeOK, TablesTypeOK
      <3>3. QED
        BY <1>3, <3>1, <3>2
    <2>5. \A q \in OrdersOf(c) \cup {o} : Cost(c)'[q] \in Int
      BY <1>3, <2>3, <2>4
    <2> DEFINE paid == SumFunctionOnSet(Cost(c), OrdersOf(c))
               new  == SumFunctionOnSet(Cost(c)', OrdersOf(c)')
    <2>6. new = paid + total
      <3>1. SumFunctionOnSet(Cost(c)', OrdersOf(c) \cup {o}) = paid + Cost(c)'[o]
        BY <1>4, <2>2, <2>3, <2>5, SumAddRow
      <3>2. QED
        BY <2>1, <2>4, <3>1
    <2>7. paid \in Int
      BY <2>2, <2>3, SumType
    <2>8. balance'[c] = balance[c] - total /\ toppedUp'[c] = toppedUp[c]
      BY <1>2, <1>3, <1>6 DEF TypeOK, TablesTypeOK
    <2>9. balance[c] = toppedUp[c] - paid
      BY <2>2
    <2> HIDE DEF paid, new
    <2>10. balance'[c] = toppedUp'[c] - new
      BY <1>3, <2>6, <2>7, <2>8, <2>9
    <2>11. IsFiniteSet(OrdersOf(c) \cup {o})
      BY <2>2, FS_AddElement
    <2>12. QED
      BY <2>1, <2>10, <2>11 DEF new
  <1>7. CASE c # b
    <2>1. OrdersOf(c)' = OrdersOf(c)
      BY <1>2, <1>4, <1>7 DEF OrdersOf, Placed, TypeOK, TablesTypeOK
    <2>2. balance'[c] = balance[c] /\ toppedUp'[c] = toppedUp[c]
      BY <1>2, <1>7 DEF TypeOK, TablesTypeOK
    <2>3. QED
      BY <1>3, <1>5, <2>1, <2>2, MoneyOfOthers
  <1>8. QED
    BY <1>6, <1>7

(* A returned order gives its total back: one refund more of one order.     *)
LEMMA MoneyReturn ==
  ASSUME TypeOK, TypeOK', MoneyInv, NEW o \in Orders, status[o] # "none", ReturnOrder(o)
  PROVE  MoneyInv'
  <1> SUFFICES ASSUME NEW c \in Buyers
               PROVE  /\ IsFiniteSet(OrdersOf(c)')
                      /\ balance'[c] = toppedUp'[c] - SumFunctionOnSet(Cost(c)', OrdersOf(c)')
    BY DEF MoneyInv
  <1>1. /\ status' = [status EXCEPT ![o] = Returned] /\ Returned # "none"
        /\ balance' = [balance EXCEPT ![bill[o].buyer] = @ + bill[o].total]
        /\ refunds' = [refunds EXCEPT ![o] = @ + 1]
        /\ UNCHANGED <<toppedUp, bill>>
    BY DEF ReturnOrder, SetStatus, Refund, Credit, Returned
  <1>2. bill[o] \in Bill /\ bill[o].total \in Nat /\ bill[o].buyer \in Buyers
    BY DEF TypeOK, TablesTypeOK, Bill
  <1>3. /\ balance[c] \in Nat /\ toppedUp[c] \in Nat /\ refunds[o] \in Nat
        /\ balance'[c] \in Nat /\ toppedUp'[c] \in Nat
    BY DEF TypeOK, TablesTypeOK
  <1>4. OrdersOf(c)' = OrdersOf(c)
    BY <1>1 DEF OrdersOf, Placed, TypeOK, TablesTypeOK
  <1>5. CASE c = bill[o].buyer
    <2>1. o \in OrdersOf(c)
      BY <1>5 DEF OrdersOf, Placed
    <2>2. IsFiniteSet(OrdersOf(c))
          /\ balance[c] = toppedUp[c] - SumFunctionOnSet(Cost(c), OrdersOf(c))
      BY DEF MoneyInv
    <2>3. Cost(c)[o] = bill[o].total * (1 - refunds[o])
      BY <2>1 DEF Cost
    <2>4. Cost(c)'[o] = bill[o].total * (1 - (refunds[o] + 1))
      <3>1. Cost(c)'[o] = bill'[o].total * (1 - refunds'[o])
        BY <1>4, <2>1 DEF Cost
      <3>2. bill'[o] = bill[o] /\ refunds'[o] = refunds[o] + 1
        BY <1>1 DEF TypeOK, TablesTypeOK
      <3>3. QED
        BY <3>1, <3>2
    <2>5. Cost(c)'[o] \in Int /\ Cost(c)[o] \in Int /\ Cost(c)'[o] - Cost(c)[o] = -bill[o].total
      <3> DEFINE t == bill[o].total
                 n == refunds[o]
      <3>1. t \in Int /\ n \in Int
        BY <1>2, <1>3
      <3> HIDE DEF t, n
      <3>2. t * (1 - n) \in Int /\ t * (1 - (n + 1)) \in Int
            /\ t * (1 - (n + 1)) - t * (1 - n) = -t
        BY <3>1
      <3>3. QED
        BY <2>3, <2>4, <3>2 DEF t, n
    <2>6. \A q \in OrdersOf(c) \ {o} : Cost(c)'[q] = Cost(c)[q]
      BY <1>1, <1>4 DEF Cost, OrdersOf, Placed, TypeOK, TablesTypeOK
    <2>7. \A q \in OrdersOf(c) : Cost(c)[q] \in Int /\ Cost(c)'[q] \in Int
      BY <2>5, <2>6, CostType
    <2> DEFINE paid == SumFunctionOnSet(Cost(c), OrdersOf(c))
               new  == SumFunctionOnSet(Cost(c)', OrdersOf(c)')
    <2>8. new = paid + Cost(c)'[o] - Cost(c)[o]
      <3>1. SumFunctionOnSet(Cost(c)', OrdersOf(c)) = paid + Cost(c)'[o] - Cost(c)[o]
        BY <2>1, <2>2, <2>6, <2>7, SumChangeRow
      <3>2. QED
        BY <1>4, <3>1
    <2>9. paid \in Int
      BY <2>2, <2>7, SumType
    <2>10. balance'[c] = balance[c] + bill[o].total /\ toppedUp'[c] = toppedUp[c]
      BY <1>1, <1>5 DEF TypeOK, TablesTypeOK
    <2>11. balance[c] = toppedUp[c] - paid
      BY <2>2
    <2>12. balance'[c] = toppedUp'[c] - new
      <3> DEFINE before == Cost(c)[o]
                 after  == Cost(c)'[o]
                 t      == bill[o].total
      <3>1. before \in Int /\ after \in Int /\ after - before = -t /\ t \in Int
        BY <1>2, <2>5
      <3>2. new = paid + after - before
        BY <2>8
      <3>3. balance'[c] = balance[c] + t
        BY <2>10
      <3> HIDE DEF before, after, t, paid, new
      <3>4. QED
        BY <1>3, <2>9, <2>10, <2>11, <3>1, <3>2, <3>3
    <2>13. QED
      BY <1>4, <2>2, <2>12
  <1>6. CASE c # bill[o].buyer
    <2>1. balance'[c] = balance[c] /\ toppedUp'[c] = toppedUp[c]
      BY <1>1, <1>6 DEF TypeOK, TablesTypeOK
    <2>2. \A q \in OrdersOf(c) : bill'[q] = bill[q] /\ refunds'[q] = refunds[q]
      BY <1>1, <1>6 DEF OrdersOf, Placed, TypeOK, TablesTypeOK
    <2>3. QED
      BY <1>3, <1>4, <2>1, <2>2, MoneyOfOthers
  <1>7. QED
    BY <1>5, <1>6

(* A step that places and refunds nothing moves money only in by a top-up.  *)
LEMMA MoneyKeep ==
  ASSUME TypeOK, TypeOK', MoneyInv, UNCHANGED <<bill, refunds>>,
         \A b \in Buyers : balance'[b] - toppedUp'[b] = balance[b] - toppedUp[b],
         \A q \in Orders : status'[q] # "none" <=> status[q] # "none"
  PROVE  MoneyInv'
  <1>1. \A b \in Buyers : balance'[b] \in Int /\ toppedUp'[b] \in Int
    BY DEF TypeOK, TablesTypeOK
  <1>2. \A b \in Buyers : OrdersOf(b)' = OrdersOf(b)
    BY DEF OrdersOf, Placed
  <1>3. QED
    BY <1>1, <1>2, MoneyOfOthers DEF MoneyInv

(* No step makes or loses money.                                            *)
LEMMA MoneyStep ==
  ASSUME TypeOK, TypeOK', JobTracksOrder, RefundsBounded, MoneyInv, [Next]_vars
  PROVE  MoneyInv'
  <1>1. CASE \E o \in Orders, b \in Buyers, s \in Stores : CreateOrder(o, b, s)
    BY <1>1, MoneyCreate
  <1>2. CASE \E a \in AdminRuns, o \in Orders : OverdueReturn(a, o)
    BY <1>2, MoneyReturn DEF TypeOK, OverdueReturn
  <1>3. CASE \E b \in Buyers : TopUp(b)
    <2>1. PICK b \in Buyers, amount \in TopUps : DirectTopUp(b, amount)
      BY <1>3 DEF TopUp
    <2>2. \A c \in Buyers : balance'[c] - toppedUp'[c] = balance[c] - toppedUp[c]
      BY <2>1, LifecycleAssumption DEF DirectTopUp, Credit, TypeOK, TablesTypeOK
    <2>3. UNCHANGED <<bill, refunds, status>>
      BY <2>1 DEF DirectTopUp
    <2>4. QED
      BY <2>2, <2>3, MoneyKeep
  <1>4. ASSUME NEW o \in Orders, NEW t \in OrderStatus, status[o] # "none", SetStatus(o, t),
               UNCHANGED <<wallets, bill, refunds>>
        PROVE  MoneyInv'
    <2>1. \A q \in Orders : status'[q] # "none" <=> status[q] # "none"
      BY <1>4, SetStatusType DEF TypeOK
    <2>2. QED
      BY <1>4, <2>1, MoneyKeep DEF wallets
  <1>5. CASE \E r \in SellerRequests : ProcessOrderWrite(r)
    BY <1>4, <1>5 DEF TypeOK, ProcessOrderWrite, OpenJob, OrderStatus
  <1>6. CASE \E d \in Drivers, o \in Orders : TakeJob(d, o)
    <2>1. PICK d \in Drivers, o \in Orders : TakeJob(d, o)
      BY <1>6
    <2>2. QED
      BY <1>4, <2>1 DEF TakeJob, Takeable, OrderStatus, Waiting
  <1>7. CASE \E d \in Drivers, o \in Orders : CompleteJob(d, o)
    <2>1. PICK d \in Drivers, o \in Orders : CompleteJob(d, o)
      BY <1>7
    <2>2. QED
      BY <1>4, <2>1 DEF CompleteJob, Completable, OrderStatus, Sent
  <1>8. CASE \/ UNCHANGED vars
             \/ \E r \in SellerRequests, s \in Stores, o \in Orders : ProcessOrderRead(r, s, o)
             \/ \E r \in SellerRequests : ProcessOrderAbort(r)
             \/ \E S \in SUBSET Placed : ClockMoves(S)
             \/ \E a \in AdminRuns : OverdueSelect(a)
             \/ \E a \in AdminRuns, o \in Orders : OverdueSkip(a, o)
             \/ \E p \in Products : ChangesStock(p)
             \/ \E p \in Products : DeleteProduct(p)
    <2>1. UNCHANGED <<wallets, bill, refunds, status>>
      BY <1>8 DEF vars, tables, ProcessOrderRead, ProcessOrderAbort, ClockMoves, OverdueSelect,
         OverdueSkip, ChangesStock, ChangeStockRead, ChangeStockWrite, ChangeStockAbort,
         FindProduct, SetStock, GiveUpStock, DeleteProduct, ProductDeleted
    <2>2. QED
      BY <2>1, MoneyKeep DEF wallets
  <1>9. QED
    BY <1>1, <1>2, <1>3, <1>5, <1>6, <1>7, <1>8 DEF Next, ChangesStock

(* Wallets start empty, and nobody has ordered.                             *)
LEMMA MoneyInit == Init => MoneyInv
  <1> SUFFICES ASSUME Init, NEW b \in Buyers
               PROVE  /\ IsFiniteSet(OrdersOf(b))
                      /\ balance[b] = toppedUp[b] - SumFunctionOnSet(Cost(b), OrdersOf(b))
    BY DEF MoneyInv
  <1>1. OrdersOf(b) = {}
    BY DEF Init, TablesInit, OrdersOf, Placed
  <1>2. IsFiniteSet(OrdersOf(b)) /\ SumFunctionOnSet(Cost(b), OrdersOf(b)) = 0
    BY <1>1, FS_EmptySet, SumEmpty
  <1>3. balance[b] = 0 /\ toppedUp[b] = 0
    BY DEF Init, TablesInit
  <1>4. QED
    BY <1>2, <1>3

(* No rupiah appears or vanishes: however many checkouts, top-ups and      *)
(* refunds of however many buyers interleave, every wallet holds its       *)
(* top-ups less the orders it paid for, refunds given back.                *)
THEOREM NoMoneyIsLost == Spec => []MoneyConserved
  <1>1. MoneyInv => MoneyConserved
    BY DEF MoneyInv, MoneyConserved, NetPaid, Cost, SumFunction
  <1>2. Init => TypeOK /\ JobTracksOrder /\ RefundsBounded /\ MoneyInv
    BY InitType, JobInit, RefundsInit, MoneyInit
  <1>3. TypeOK /\ JobTracksOrder /\ RefundsBounded /\ MoneyInv /\ [Next]_vars
          => (TypeOK /\ JobTracksOrder /\ RefundsBounded /\ MoneyInv)'
    BY NextType, JobStep, RefundsStep, MoneyStep
  <1>4. QED
    BY <1>1, <1>2, <1>3, PTL DEF Spec

===============================================================================
