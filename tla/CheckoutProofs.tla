---------------------------- MODULE CheckoutProofs ----------------------------
(***************************************************************************)
(* Theorems about Checkout, for any number of buyers, requests, products   *)
(* and codes.  Module Checkout implements module OrderLifecycle, so what   *)
(* is proved of the tables there is taken over here; the rest is about     *)
(* what a buyer is quoted, and about the carts.                            *)
(***************************************************************************)
EXTENDS CheckoutProperties, SumProofs

Levels == {0} \cup UNION {0..n : n \in StockLevels}

Local == [op : {"idle", "add", "addWrite", "update", "remove", "clear", "heal",
                "checkout", "pay", "payWrite"},
          buyer : Buyers \cup {Nil}, product : Products \cup {Nil}, qty : Nat,
          store : Stores \cup {Nil}, stock : Nat, rows : SUBSET Products, empty : BOOLEAN,
          items : Items, total : Payable \cup {0}, code : Vouchers \cup {NoCode}]

(* What a request in flight holds when it comes to write. *)
Holds(l) ==
  /\ l.op # "idle" => l.buyer \in Buyers
  /\ l.op \in {"add", "addWrite"} => l.product \in Products
  /\ l.op \in {"checkout", "pay", "payWrite"} => l.store \in Stores
  /\ l.op \in {"pay", "payWrite"} => l.items \in Snapshots /\ l.total \in Payable

CartInv ==
  /\ stock \in [Products -> Levels]
  /\ cartStore \in [Buyers -> Stores \cup {Nil}]
  /\ cart \in [Buyers -> Items]
  /\ price \in [Products -> Prices]
  /\ req \in [Requests -> Local]
  /\ \A r \in Requests : Holds(req[r])

(* A setStock takes one of its steps. *)
ChangesStock(p) == ChangeStockRead(p) \/ ChangeStockWrite(p) \/ ChangeStockAbort(p)

(* A cart has finitely many rows: they are inserted one by one. *)
FiniteCarts == \A b \in Buyers : IsFiniteSet(InCart(b))

-----------------------------------------------------------------------------
(* What a buyer is quoted and charged, for every price, fee and offer *)

(* Math.round of 12% is within half a rupiah.                              *)
LEMMA RoundTax ==
  ASSUME NEW n \in Nat
  PROVE  /\ Round(12 * n, 100) \in Nat
         /\ 100 * Round(12 * n, 100) - 12 * n <= 50
         /\ 12 * n - 100 * Round(12 * n, 100) <= 50
  BY DEF Round

(* validateCode's floor of a percentage.                                   *)
LEMMA FloorShare ==
  ASSUME NEW x \in Nat
  PROVE  /\ x \div 100 \in Nat
         /\ 100 * (x \div 100) <= x
  OBVIOUS

(* A voucher never takes off more than the goods cost. *)
LEMMA VoucherBounds ==
  ASSUME NEW v \in [amount : Nat, minOrder : Nat], NEW s \in Nat
  PROVE  /\ VoucherDiscount(v, s) \in Nat
         /\ VoucherDiscount(v, s) <= s
         /\ VoucherDiscount(v, s) <= v.amount
  <1>1. v.amount \in Nat
    OBVIOUS
  <1>2. QED
    BY <1>1 DEF VoucherDiscount, Least

(* A promo never takes off more than its percentage, its cap, the goods.   *)
LEMMA PromoBounds ==
  ASSUME NEW c \in [percent : 1..100, cap : Nat \cup {NoCap}, minOrder : Nat],
         NEW s \in Nat
  PROVE  /\ PromoDiscount(c, s) \in Nat
         /\ PromoDiscount(c, s) <= s
         /\ 100 * PromoDiscount(c, s) <= c.percent * s
         /\ c.cap # NoCap => PromoDiscount(c, s) <= c.cap
  <1> DEFINE share == (s * c.percent) \div 100
             capped == IF c.cap = NoCap THEN share ELSE Least(share, c.cap)
  <1>1. c.percent \in Nat /\ (c.cap # NoCap => c.cap \in Nat)
    OBVIOUS
  <1>2. s * c.percent \in Nat /\ s * c.percent = c.percent * s
    BY <1>1
  <1>3. share \in Nat /\ 100 * share <= c.percent * s
    BY <1>2, FloorShare
  <1>4. capped \in Nat /\ capped <= share /\ (c.cap # NoCap => capped <= c.cap)
    BY <1>1, <1>3 DEF Least
  <1>5. PromoDiscount(c, s) = Least(capped, s)
    BY DEF PromoDiscount
  <1>6. Least(capped, s) \in Nat /\ Least(capped, s) <= capped /\ Least(capped, s) <= s
    BY <1>4 DEF Least
  <1> HIDE DEF share, capped
  <1>7. 100 * Least(capped, s) <= c.percent * s
    <2>1. c.percent * s \in Nat
      BY <1>2
    <2>2. QED
      BY <1>3, <1>4, <1>6, <2>1
  <1>8. c.cap # NoCap => Least(capped, s) <= c.cap
    BY <1>1, <1>4, <1>6
  <1>9. QED
    BY <1>5, <1>6, <1>7, <1>8

(* calculateTotals, for a discount that is not more than the goods. *)
LEMMA TotalsAddUp ==
  ASSUME NEW s \in Nat, NEW d \in Nat, d <= s
  PROVE  /\ AddsUp(s, d, CalculateTotals(s, Fee, d))
         /\ CalculateTotals(s, Fee, d).totalAmount \in Nat
  <1> DEFINE base == s - d + Fee
             ppn  == Round(12 * base, 100)
  <1>1. Fee \in Nat
    BY CheckoutAssumption
  <1>2. base \in Nat
    BY <1>1
  <1>3. /\ ppn \in Nat
        /\ 100 * ppn - 12 * base <= 50
        /\ 12 * base - 100 * ppn <= 50
    BY <1>2, RoundTax
  <1>4. CalculateTotals(s, Fee, d) = [taxBase |-> base, ppn |-> ppn, totalAmount |-> base + ppn]
    BY DEF CalculateTotals
  <1> HIDE DEF ppn
  <1>5. QED
    BY <1>1, <1>2, <1>3, <1>4 DEF AddsUp

(* What a code takes off, whichever kind it is. *)
LEMMA DiscountBounds ==
  ASSUME NEW s \in Nat, NEW code \in Codes \cup {NoCode}
  PROVE  Discount(code, s) \in Nat /\ WithinOffer(code, s, Discount(code, s))
  <1> USE TablesAssumption, CheckoutAssumption DEF Codes
  <1>1. CASE code = NoCode
    BY <1>1 DEF Discount, WithinOffer
  <1>2. CASE code \in Vouchers
    <2>1. VoucherRow[code] \in [amount : Nat, minOrder : Nat]
      BY <1>2
    <2>2. Discount(code, s) = VoucherDiscount(VoucherRow[code], s)
      BY <1>2 DEF Discount
    <2>3. code \notin Promos
      BY <1>2
    <2>4. QED
      BY <2>1, <2>2, <2>3, VoucherBounds DEF WithinOffer
  <1>3. CASE code \in Promos
    <2>1. PromoRow[code] \in [percent : 1..100, cap : Nat \cup {NoCap}, minOrder : Nat]
      BY <1>3
    <2>2. code # NoCode /\ code \notin Vouchers
      BY <1>3
    <2>3. Discount(code, s) = PromoDiscount(PromoRow[code], s)
      BY <1>3, <2>2 DEF Discount
    <2>4. QED
      BY <2>1, <2>2, <2>3, PromoBounds DEF WithinOffer
  <1>4. QED
    BY <1>1, <1>2, <1>3

(* Every quote adds up, to a natural number of rupiah. *)
LEMMA QuoteAddsUp ==
  ASSUME NEW s \in Nat, NEW code \in Codes \cup {NoCode}
  PROVE  /\ AddsUp(s, Discount(code, s), Quote(s, code))
         /\ Quote(s, code).totalAmount \in Nat
  <1>1. Discount(code, s) \in Nat /\ Discount(code, s) <= s
    BY DiscountBounds DEF WithinOffer
  <1>2. /\ AddsUp(s, Discount(code, s), CalculateTotals(s, Fee, Discount(code, s)))
        /\ CalculateTotals(s, Fee, Discount(code, s)).totalAmount \in Nat
    BY <1>1, TotalsAddUp
  <1>3. QED
    BY <1>2 DEF Quote

(* What finitely many goods cost is a natural number of rupiah. *)
LEMMA SubtotalIsNatural ==
  ASSUME NEW prices \in [Products -> Prices], NEW items \in Items, IsFiniteSet(Rows(items))
  PROVE  Subtotal(prices, items) \in Nat
  <1> DEFINE f == [p \in Rows(items) |-> prices[p] * items[p]]
  <1>1. ASSUME NEW p \in Rows(items)
        PROVE  f[p] \in Nat
    <2>1. prices[p] \in Nat /\ items[p] \in Nat
      BY CheckoutAssumption DEF Rows, Items
    <2>2. QED
      BY <2>1
  <1>2. Subtotal(prices, items) = SumFunctionOnSet(f, Rows(items))
    BY DEF Subtotal, SumFunction
  <1> HIDE DEF f
  <1>3. QED
    BY <1>1, <1>2, SumNat

(* What can be ordered of a cart is a finite part of it.                   *)
LEMMA OrderableIsFinite ==
  ASSUME NEW b \in Buyers, cart \in [Buyers -> Items], FiniteCarts
  PROVE  Orderable(b) \in Items /\ IsFiniteSet(Rows(Orderable(b)))
  <1>1. Rows(Orderable(b)) \subseteq InCart(b)
    BY DEF Rows, Orderable, InCart
  <1>2. Orderable(b) \in Items
    BY DEF Items, Orderable
  <1>3. QED
    BY <1>1, <1>2, FS_Subset DEF FiniteCarts

-----------------------------------------------------------------------------
(* Requests *)

(* A request that is not running. *)
LEMMA IdleIsLocal == Idle \in Local /\ Holds(Idle)
  BY DEF Idle, Local, Holds, Items

(* A request that has just begun. *)
LEMMA RequestIsLocal ==
  ASSUME NEW b \in Buyers, NEW op \in {"add", "update", "remove", "clear", "heal", "checkout"}
  PROVE  /\ Request(op, b) \in Local
         /\ Request(op, b).op = op /\ Request(op, b).buyer = b
  BY IdleIsLocal DEF Idle, Request, Local

(* A step that changes one request only, to a state that keeps what Holds   *)
(* says.                                                                    *)
LEMMA MoveKeeps ==
  ASSUME CartInv, NEW r \in Requests, NEW l \in Local, Holds(l),
         req' = [req EXCEPT ![r] = l], UNCHANGED <<tables, cartStore, cart, price>>
  PROVE  CartInv'
  <1>1. req' \in [Requests -> Local]
    BY DEF CartInv
  <1>2. ASSUME NEW x \in Requests PROVE Holds(req'[x])
    BY DEF CartInv
  <1>3. UNCHANGED <<stock, cartStore, cart, price>>
    BY DEF tables, inventory
  <1>4. QED
    BY <1>1, <1>2, <1>3 DEF CartInv, Holds

(* A request starts: it was idle, and begins with such a state. *)
LEMMA BeginKeeps ==
  ASSUME CartInv, NEW r \in Requests, NEW l \in Local, Holds(l), Begin(r, l),
         UNCHANGED <<tables, cartStore, cart, price>>
  PROVE  CartInv'
  BY MoveKeeps DEF Begin

(* The rows others found change, nothing else they hold. *)
LEMMA ForgetRows ==
  ASSUME NEW l \in Local, Holds(l), NEW gone
  PROVE  /\ [l EXCEPT !.rows = @ \ gone] \in Local
         /\ Holds([l EXCEPT !.rows = @ \ gone])
  <1>1. [l EXCEPT !.rows = @ \ gone] \in Local
    BY DEF Local
  <1>2. QED
    BY <1>1 DEF Local, Holds

(* A request ends: its own writes are those the caller names, and the rows  *)
(* it deleted leave every other request of the buyer.                       *)
LEMMA FinishKeeps ==
  ASSUME CartInv, NEW r \in Requests, NEW b, NEW gone, Finish(r, b, gone)
  PROVE  req' \in [Requests -> Local] /\ \A x \in Requests : Holds(req'[x])
  <1>1. ASSUME NEW x \in Requests
        PROVE  req'[x] \in Local /\ Holds(req'[x])
    <2>1. req[x] \in Local /\ Holds(req[x])
      BY DEF CartInv
    <2>2. CASE x = r
      BY <2>2, IdleIsLocal DEF Finish
    <2>3. CASE x # r /\ req[x].buyer = b
      <3>1. req'[x] = [req[x] EXCEPT !.rows = @ \ gone]
        BY <2>3 DEF Finish
      <3>2. QED
        BY <2>1, <3>1, ForgetRows
    <2>4. CASE x # r /\ req[x].buyer # b
      BY <2>1, <2>4 DEF Finish
    <2>5. QED
      BY <2>2, <2>3, <2>4
  <1>2. req' = [x \in Requests |-> req'[x]]
    BY DEF Finish
  <1>3. QED
    BY <1>1, <1>2

-----------------------------------------------------------------------------
(* Cart operations *)

(* Requests that have found the rows they are about to change.             *)
LEMMA UpdateRequest ==
  ASSUME NEW l \in Local, l.buyer \in Buyers, l.op = "update",
         NEW p \in Products, NEW q \in Nat, NEW rows \in SUBSET Products
  PROVE  /\ [l EXCEPT !.product = p, !.qty = q, !.rows = rows] \in Local
         /\ Holds([l EXCEPT !.product = p, !.qty = q, !.rows = rows])
  <1>1. [l EXCEPT !.product = p, !.qty = q, !.rows = rows] \in Local
    BY DEF Local
  <1>2. QED
    BY <1>1 DEF Local, Holds

(* What removeCartItem keeps between its read and its commit. *)
LEMMA RemoveRequest ==
  ASSUME NEW l \in Local, l.buyer \in Buyers, l.op = "remove",
         NEW p \in Products, NEW rows \in SUBSET Products, NEW e \in BOOLEAN
  PROVE  /\ [l EXCEPT !.product = p, !.rows = rows, !.empty = e] \in Local
         /\ Holds([l EXCEPT !.product = p, !.rows = rows, !.empty = e])
  <1>1. [l EXCEPT !.product = p, !.rows = rows, !.empty = e] \in Local
    BY DEF Local
  <1>2. QED
    BY <1>1 DEF Local, Holds

(* What addItemToCart keeps once it has looked at the item. *)
LEMMA AddRequest ==
  ASSUME NEW l \in Local, l.buyer \in Buyers, l.product \in Products,
         NEW q \in Nat, NEW rows \in SUBSET Products, NEW e \in BOOLEAN
  PROVE  /\ [l EXCEPT !.op = "addWrite", !.qty = q, !.rows = rows, !.empty = e] \in Local
         /\ Holds([l EXCEPT !.op = "addWrite", !.qty = q, !.rows = rows, !.empty = e])
  <1>1. [l EXCEPT !.op = "addWrite", !.qty = q, !.rows = rows, !.empty = e] \in Local
    BY DEF Local
  <1>2. QED
    BY <1>1 DEF Local, Holds

(* addItemToCart and updateCartItemQuantity read and write nothing yet. *)
LEMMA ItemReads ==
  ASSUME CartInv, NEW r \in Requests, NEW b \in Buyers, NEW p \in Products,
         NEW q \in Quantities, AddRead(r, b, p, q) \/ UpdateRead(r, b, p, q)
  PROVE  CartInv' /\ UNCHANGED tables
  <1> USE DEF CartInv
  <1>1. q \in Nat
    BY CheckoutAssumption
  <1>2. CASE AddRead(r, b, p, q)
    <2> DEFINE l == [Request("add", b) EXCEPT !.product = p, !.qty = q,
                       !.store = cartStore[b], !.stock = stock[p]]
    <2>1. stock[p] \in Nat
      BY CheckoutAssumption DEF Levels
    <2> DEFINE new == Request("add", b)
    <2>2. new \in Local /\ new.op = "add" /\ new.buyer = b
      BY RequestIsLocal
    <2>3. cartStore[b] \in Stores \cup {Nil}
      OBVIOUS
    <2> HIDE DEF new, CartInv
    <2>4. [new EXCEPT !.product = p, !.qty = q, !.store = cartStore[b], !.stock = stock[p]] \in Local
      BY <1>1, <2>1, <2>2, <2>3 DEF Local
    <2>5. Holds([new EXCEPT !.product = p, !.qty = q, !.store = cartStore[b], !.stock = stock[p]])
      BY <1>1, <2>1, <2>2, <2>3 DEF Local, Holds
    <2>6. QED
      BY <1>2, <2>4, <2>5, BeginKeeps DEF AddRead, new
  <1>3. CASE UpdateRead(r, b, p, q)
    <2> DEFINE l == [Request("update", b) EXCEPT !.product = p, !.qty = q, !.rows = {p}]
    <2>1. l \in Local /\ Holds(l)
      <3>1. {p} \in SUBSET Products
        OBVIOUS
      <3>2. Request("update", b) \in Local /\ Request("update", b).op = "update"
            /\ Request("update", b).buyer \in Buyers
        BY RequestIsLocal
      <3>3. QED
        BY <1>1, <3>1, <3>2, UpdateRequest
    <2>2. QED
      BY <1>3, <2>1, BeginKeeps DEF UpdateRead
  <1>4. UNCHANGED tables
    BY DEF AddRead, UpdateRead
  <1>5. QED
    BY <1>2, <1>3, <1>4

(* removeCartItem reads the row and whether it is the last one. *)
LEMMA ProductRead ==
  ASSUME CartInv, NEW r \in Requests, NEW b \in Buyers, NEW p \in Products, RemoveRead(r, b, p)
  PROVE  CartInv' /\ UNCHANGED tables
  <1> DEFINE l == [Request("remove", b) EXCEPT !.product = p, !.rows = {p},
                                               !.empty = (InCart(b) = {p})]
  <1>1. (InCart(b) = {p}) \in BOOLEAN
    OBVIOUS
  <1>2. l \in Local /\ Holds(l)
    <2>1. {p} \in SUBSET Products
      OBVIOUS
    <2>2. Request("remove", b) \in Local /\ Request("remove", b).op = "remove"
          /\ Request("remove", b).buyer \in Buyers
      BY RequestIsLocal
    <2>3. QED
      BY <1>1, <2>1, <2>2, RemoveRequest
  <1>3. QED
    BY <1>2, BeginKeeps DEF RemoveRead

(* clearCart, getOrCreateCart and createOrder read the cart. *)
LEMMA WholeCartReads ==
  ASSUME CartInv, NEW r \in Requests, NEW b \in Buyers,
         ClearDelete(r, b) \/ HealRead(r, b) \/ CheckoutReadCart(r, b)
  PROVE  CartInv' /\ UNCHANGED tables
  <1> USE DEF CartInv
  <1>1. CASE ClearDelete(r, b)
    <2> DEFINE l == [Request("clear", b) EXCEPT !.rows = InCart(b)]
    <2>1. l \in Local /\ Holds(l)
      BY RequestIsLocal DEF Local, Holds, InCart
    <2>2. QED
      BY <1>1, <2>1, BeginKeeps DEF ClearDelete
  <1>2. CASE HealRead(r, b)
    <2>1. Request("heal", b) \in Local /\ Holds(Request("heal", b))
      BY RequestIsLocal DEF Local, Holds
    <2>2. QED
      BY <1>2, <2>1, BeginKeeps DEF HealRead
  <1>3. CASE CheckoutReadCart(r, b)
    <2> DEFINE l == [Request("checkout", b) EXCEPT !.store = cartStore[b]]
    <2>1. cartStore[b] \in Stores
      BY <1>3 DEF CheckoutReadCart
    <2>2. l \in Local /\ Holds(l)
      BY <2>1, RequestIsLocal DEF Local, Holds
    <2>3. QED
      BY <1>3, <2>2, BeginKeeps DEF CheckoutReadCart
  <1>4. UNCHANGED tables
    BY DEF ClearDelete, HealRead, CheckoutReadCart
  <1>5. QED
    BY <1>1, <1>2, <1>3, <1>4

(* The steps that write the cart leave the tables of orders alone. *)
LEMMA CartWrites ==
  ASSUME CartInv, NEW r \in Requests,
         \/ AddLookup(r)
         \/ AddCommit(r)
         \/ UpdateCommit(r)
         \/ RemoveCommit(r)
         \/ ClearCommit(r)
         \/ HealCommit(r)
         \/ Abort(r)
  PROVE  CartInv' /\ UNCHANGED tables
  <1> DEFINE l == req[r]
  <1>1. l \in Local /\ Holds(l)
    BY DEF CartInv
  <1>2. UNCHANGED tables
    BY DEF AddLookup, AddCommit, UpdateCommit, RemoveCommit, ClearCommit, HealCommit, Abort
  <1>3. CASE AddLookup(r)
    <2> DEFINE old == cart[l.buyer][l.product]
               new == [l EXCEPT !.op = "addWrite", !.qty = l.qty + old,
                                !.rows = IF old > 0 THEN {l.product} ELSE {},
                                !.empty = (old = 0)]
    <2>1. l.op = "add" /\ l.buyer \in Buyers /\ l.product \in Products
      BY <1>1, <1>3 DEF AddLookup, Holds
    <2>2. old \in Nat
      BY <2>1 DEF CartInv, Items
    <2>3. new \in Local /\ Holds(new)
      <3>1. (IF old > 0 THEN {l.product} ELSE {}) \in SUBSET Products
        BY <2>1
      <3>2. (old = 0) \in BOOLEAN
        OBVIOUS
      <3>3. l.qty + old \in Nat
        BY <1>1, <2>2 DEF Local
      <3>4. QED
        BY <1>1, <2>1, <3>1, <3>2, <3>3, AddRequest
    <2>4. QED
      BY <1>2, <1>3, <2>3, MoveKeeps DEF AddLookup
  <1>5. CASE AddCommit(r)
    <2>1. cart' \in [Buyers -> Items]
      BY <1>1, <1>5 DEF AddCommit, CartInv, Items, Local
    <2>2. cartStore' \in [Buyers -> Stores \cup {Nil}]
      BY <1>1, <1>5, CheckoutAssumption DEF AddCommit, CartInv, Holds
    <2>3. QED
      BY <1>2, <1>5, <2>1, <2>2, FinishKeeps DEF AddCommit, CartInv, tables, inventory
  <1>6. CASE UpdateCommit(r)
    <2>1. cart' \in [Buyers -> Items]
      BY <1>1, <1>6 DEF UpdateCommit, CartInv, Items, Local
    <2>2. QED
      BY <1>2, <1>6, <2>1, FinishKeeps DEF UpdateCommit, CartInv, tables, inventory
  <1>7. CASE RemoveCommit(r)
    <2>1. cart' \in [Buyers -> Items]
      BY <1>7 DEF RemoveCommit, Without, CartInv, Items
    <2>2. cartStore' \in [Buyers -> Stores \cup {Nil}]
      BY <1>7 DEF RemoveCommit, CartInv
    <2>3. QED
      BY <1>2, <1>7, <2>1, <2>2, FinishKeeps DEF RemoveCommit, CartInv, tables, inventory
  <1>8. CASE ClearCommit(r)
    <2>1. cart' \in [Buyers -> Items]
      BY <1>8 DEF ClearCommit, Without, CartInv, Items
    <2>2. cartStore' \in [Buyers -> Stores \cup {Nil}]
      BY <1>8 DEF ClearCommit, CartInv
    <2>3. QED
      BY <1>2, <1>8, <2>1, <2>2, FinishKeeps DEF ClearCommit, CartInv, tables, inventory
  <1>9. CASE HealCommit(r)
    <2>1. cartStore' \in [Buyers -> Stores \cup {Nil}]
      BY <1>9 DEF HealCommit, CartInv
    <2>2. QED
      BY <1>2, <1>9, <2>1, FinishKeeps DEF HealCommit, CartInv, tables, inventory
  <1>10. CASE Abort(r)
    BY <1>2, <1>10, IdleIsLocal, MoveKeeps DEF Abort
  <1>11. QED
    BY <1>2, <1>3, <1>5, <1>6, <1>7, <1>8, <1>9, <1>10

-----------------------------------------------------------------------------
(* createOrder *)

(* What a checkout has read is a snapshot at a price.                      *)
LEMMA ReadItems ==
  ASSUME CartInv, FiniteCarts, NEW r \in Requests, NEW code \in Codes \cup {NoCode},
         CheckoutReadItems(r, code)
  PROVE  CartInv' /\ UNCHANGED tables
  <1> DEFINE l        == req[r]
             items    == Orderable(l.buyer)
             subtotal == Subtotal(price, items)
             total    == Quote(subtotal, code).totalAmount
             kept     == IF code \in Vouchers THEN code ELSE NoCode
  <1>1. l \in Local /\ Holds(l) /\ l.op = "checkout"
    BY DEF CartInv, CheckoutReadItems
  <1>2. l.buyer \in Buyers /\ l.store \in Stores
    BY <1>1 DEF Holds
  <1>3. items \in Items /\ IsFiniteSet(Rows(items))
    BY <1>2, OrderableIsFinite DEF CartInv
  <1>4. ASSUME NEW p \in Products
        PROVE  items[p] \in {0} \cup UNION {0..n : n \in StockLevels}
    <2>1. items[p] \in Nat /\ items[p] <= stock[p] /\ stock[p] \in Levels
      BY <1>3 DEF CartInv, CheckoutReadItems, Items
    <2>2. QED
      BY <2>1, CheckoutAssumption DEF Levels
  <1>5. Rows(items) # {}
    BY DEF CheckoutReadItems, HasItems, Rows
  <1>6. items \in Snapshots
    BY <1>3, <1>4, <1>5 DEF Snapshots, Items
  <1>7. subtotal \in Subtotals
    BY <1>6 DEF CartInv, Subtotals
  <1>8. total \in Payable
    BY <1>7 DEF Payable
  <1>9. kept \in Vouchers \cup {NoCode}
    OBVIOUS
  <1>10. /\ req' = [req EXCEPT ![r] = [l EXCEPT !.op = "pay", !.items = items,
                                               !.total = total, !.code = kept]]
         /\ UNCHANGED <<tables, cartStore, cart, price>>
    BY DEF CheckoutReadItems
  <1> HIDE DEF items, total, kept, l
  <1>11. [l EXCEPT !.op = "pay", !.items = items, !.total = total, !.code = kept] \in Local
    BY <1>1, <1>3, <1>8, <1>9 DEF Local
  <1>12. Holds([l EXCEPT !.op = "pay", !.items = items, !.total = total, !.code = kept])
    BY <1>1, <1>2, <1>6, <1>8 DEF Local, Holds
  <1>13. QED
    BY <1>10, <1>11, <1>12, MoveKeeps

(* createOrder finds the rows of the cart it is going to delete. *)
LEMMA DeleteRows ==
  ASSUME CartInv, NEW r \in Requests, CheckoutDelete(r)
  PROVE  CartInv' /\ UNCHANGED tables
  <1> DEFINE l == req[r]
  <1>1. l \in Local /\ Holds(l) /\ l.op = "pay"
    BY DEF CartInv, CheckoutDelete
  <1>2. InCart(l.buyer) \in SUBSET Products
    BY DEF InCart
  <1>3. /\ req' = [req EXCEPT ![r] = [l EXCEPT !.op = "payWrite", !.rows = InCart(l.buyer)]]
        /\ UNCHANGED <<tables, cartStore, cart, price>>
    BY DEF CheckoutDelete
  <1> HIDE DEF l
  <1>4. [l EXCEPT !.op = "payWrite", !.rows = InCart(l.buyer)] \in Local
    BY <1>1, <1>2 DEF Local
  <1>5. Holds([l EXCEPT !.op = "payWrite", !.rows = InCart(l.buyer)])
    BY <1>1, <1>2 DEF Local, Holds
  <1>6. QED
    BY <1>3, <1>4, <1>5, MoveKeeps

(* Stock goes down to what a level allows. *)
LEMMA LevelsDown ==
  ASSUME NEW x \in Levels, NEW q \in Nat, q <= x
  PROVE  x - q \in Levels
  BY CheckoutAssumption DEF Levels

(* An order takes no more of a product than there is. *)
LEMMA PlaceKeepsStock ==
  ASSUME stock \in [Products -> Levels], NEW o, NEW b, NEW s, NEW items \in Items,
         NEW total, NEW code, PlaceOrder(o, b, s, items, total, code)
  PROVE  stock' \in [Products -> Levels]
  <1> DEFINE rows == {p \in Products : items[p] > 0}
  <1>1. stock' = [p \in Products |-> IF p \in rows THEN stock[p] - items[p] ELSE stock[p]]
    BY DEF PlaceOrder, WriteStock
  <1>2. ASSUME NEW p \in Products, p \in rows PROVE stock[p] - items[p] \in Levels
    <2>1. items[p] \in Nat /\ stock[p] >= items[p] /\ stock[p] \in Levels
      BY <1>2 DEF PlaceOrder, InStock, Items
    <2>2. QED
      BY <2>1, LevelsDown, CheckoutAssumption DEF Levels
  <1>3. QED
    BY <1>1, <1>2

(* The commit of createOrder keeps the invariant. *)
LEMMA CommitKeeps ==
  ASSUME CartInv, NEW r \in Requests, NEW o \in Orders, CheckoutCommit(r, o)
  PROVE  CartInv'
  <1> DEFINE l == req[r]
  <1>1. l \in Local /\ Holds(l)
    BY DEF CartInv
  <1>2. stock' \in [Products -> Levels]
    <2>1. l.items \in Items
      BY <1>1 DEF Local
    <2>2. QED
      BY <2>1, PlaceKeepsStock DEF CheckoutCommit, CartInv
  <1>3. cart' \in [Buyers -> Items]
    BY DEF CheckoutCommit, Without, CartInv, Items
  <1>4. cartStore' \in [Buyers -> Stores \cup {Nil}]
    BY DEF CheckoutCommit, CartInv
  <1>5. price' = price /\ Finish(r, l.buyer, l.rows)
    BY DEF CheckoutCommit
  <1>6. QED
    BY <1>2, <1>3, <1>4, <1>5, FinishKeeps DEF CartInv

-----------------------------------------------------------------------------
(* Other writers *)

(* So do a top-up, a seller who sets the stock, and the events of catalog. *)
LEMMA OthersKeep ==
  ASSUME CartInv,
         \/ \E b \in Buyers : TopUp(b)
         \/ \E p \in Products : ChangesStock(p)
         \/ \E p \in Products : ChangePrice(p)
         \/ \E p \in Products : DeleteProduct(p)
         \/ \E code \in Codes : Expire(code)
  PROVE  CartInv'
  <1>1. CASE \E b \in Buyers : TopUp(b)
    BY <1>1 DEF TopUp, DirectTopUp, inventory, CartInv
  <1>2. CASE \E p \in Products : ChangesStock(p)
    <2>1. PICK p \in Products : ChangesStock(p)
      BY <1>2
    <2>2. UNCHANGED <<cartStore, cart, price, req>>
      BY <2>1 DEF ChangesStock, ChangeStockRead, ChangeStockWrite, ChangeStockAbort
    <2>3. CASE ChangeStockWrite(p)
      <3>1. PICK n \in StockLevels : SetStock(p, n)
        BY <2>3 DEF ChangeStockWrite
      <3>2. n \in Levels
        BY CheckoutAssumption DEF Levels
      <3>3. stock' \in [Products -> Levels]
        BY <3>1, <3>2 DEF SetStock, WriteStock, CartInv
      <3>4. QED
        BY <2>2, <3>3 DEF CartInv
    <2>4. CASE ChangeStockRead(p) \/ ChangeStockAbort(p)
      BY <2>2, <2>4 DEF ChangeStockRead, ChangeStockAbort, FindProduct, GiveUpStock, CartInv
    <2>5. QED
      BY <2>1, <2>3, <2>4 DEF ChangesStock
  <1>3. CASE \E p \in Products : ChangePrice(p)
    BY <1>3 DEF ChangePrice, tables, inventory, CartInv
  <1>4. CASE \E p \in Products : DeleteProduct(p)
    <2>1. PICK p \in Products : DeleteProduct(p)
      BY <1>4
    <2>2. stock' \in [Products -> Levels]
      BY <2>1 DEF DeleteProduct, ProductDeleted, CartInv, Levels
    <2>3. cart' \in [Buyers -> Items]
      BY <2>1 DEF DeleteProduct, CartInv, Items
    <2>4. ASSUME NEW r \in Requests
          PROVE  req'[r] \in Local /\ Holds(req'[r])
      <3>1. req'[r] = [req[r] EXCEPT !.rows = @ \ {p}]
        BY <2>1 DEF DeleteProduct
      <3>2. req[r] \in Local /\ Holds(req[r])
        BY DEF CartInv
      <3>3. [req[r] EXCEPT !.rows = @ \ {p}] \in Local
            /\ Holds([req[r] EXCEPT !.rows = @ \ {p}])
        BY <3>2, ForgetRows
      <3>4. QED
        BY <3>1, <3>3
    <2>5. req' = [r \in Requests |-> req'[r]] /\ UNCHANGED <<cartStore, price>>
      BY <2>1 DEF DeleteProduct
    <2>6. QED
      BY <2>2, <2>3, <2>4, <2>5 DEF CartInv
  <1>5. CASE \E code \in Codes : Expire(code)
    BY <1>5 DEF Expire, tables, inventory, CartInv
  <1>6. QED
    BY <1>1, <1>2, <1>3, <1>4, <1>5

-----------------------------------------------------------------------------
(* Carts stay finite *)

(* A row more or less leaves a cart finite.                                *)
LEMMA OneRowMore ==
  ASSUME FiniteCarts, \A b \in Buyers : \E p : InCart(b)' \subseteq InCart(b) \cup {p}
  PROVE  FiniteCarts'
  <1> SUFFICES ASSUME NEW b \in Buyers
               PROVE  IsFiniteSet(InCart(b)')
    BY DEF FiniteCarts
  <1>1. PICK p : InCart(b)' \subseteq InCart(b) \cup {p}
    OBVIOUS
  <1>2. IsFiniteSet(InCart(b))
    BY DEF FiniteCarts
  <1> HIDE DEF InCart
  <1>3. IsFiniteSet(InCart(b) \cup {p})
    BY <1>2, FS_AddElement
  <1>4. QED
    BY <1>1, <1>3, FS_Subset

(* No step adds more than one row to a cart.                               *)
LEMMA CartsStayFinite ==
  ASSUME CartInv, FiniteCarts, [Next]_vars
  PROVE  FiniteCarts'
  <1>1. CASE UNCHANGED cart
    BY <1>1 DEF FiniteCarts, InCart
  <1>2. ASSUME NEW b \in Buyers, NEW p \in Products, NEW q,
               cart' = [cart EXCEPT ![b][p] = q]
        PROVE  FiniteCarts'
    <2>1. \A x \in Buyers : InCart(x)' \subseteq InCart(x) \cup {p}
      BY <1>2 DEF CartInv, Items, InCart
    <2>2. QED
      BY <2>1, OneRowMore
  <1>3. ASSUME NEW b, NEW gone, Without(b, gone)
        PROVE  FiniteCarts'
    <2>1. \A x \in Buyers : InCart(x)' \subseteq InCart(x) \cup {Nil}
      BY <1>3 DEF Without, CartInv, Items, InCart
    <2>2. QED
      BY <2>1, OneRowMore
  <1>4. ASSUME NEW p \in Products, DeleteProduct(p)
        PROVE  FiniteCarts'
    <2>1. \A x \in Buyers : InCart(x)' \subseteq InCart(x) \cup {Nil}
      BY <1>4 DEF DeleteProduct, CartInv, Items, InCart
    <2>2. QED
      BY <2>1, OneRowMore
  <1>5. ASSUME NEW r \in Requests, AddCommit(r) \/ UpdateCommit(r)
        PROVE  FiniteCarts'
    <2> DEFINE l == req[r]
    <2>1. l.buyer \in Buyers
      BY <1>5 DEF CartInv, Holds, AddCommit, UpdateCommit
    <2>2. l.product \in l.rows \/ l.op = "addWrite" => l.product \in Products
      BY DEF CartInv, Local, Holds
    <2>3. \/ UNCHANGED cart
          \/ /\ cart' = [cart EXCEPT ![l.buyer][l.product] = l.qty]
             /\ l.product \in Products
      BY <1>5, <2>2 DEF AddCommit, UpdateCommit
    <2>4. QED
      BY <1>1, <1>2, <2>1, <2>3
  <1>6. ASSUME NEW r \in Requests, CartStep(r)
        PROVE  FiniteCarts'
    <2>1. CASE RemoveCommit(r) \/ ClearCommit(r)
      BY <1>3, <2>1 DEF RemoveCommit, ClearCommit
    <2>2. CASE AddCommit(r) \/ UpdateCommit(r)
      BY <1>5, <2>2
    <2>3. CASE UNCHANGED cart
      BY <1>1, <2>3
    <2>4. QED
      BY <1>6, <2>1, <2>2, <2>3
         DEF CartStep, AddRead, AddLookup, UpdateRead, RemoveRead, ClearDelete, HealRead, HealCommit
  <1>7. ASSUME NEW r \in Requests, CheckoutStep(r)
        PROVE  FiniteCarts'
    <2>1. CASE \E o \in Orders : CheckoutCommit(r, o)
      BY <1>3, <2>1 DEF CheckoutCommit
    <2>2. CASE UNCHANGED cart
      BY <1>1, <2>2
    <2>3. QED
      BY <1>7, <2>1, <2>2 DEF CheckoutStep, CheckoutReadCart, CheckoutReadItems, CheckoutDelete
  <1>8. CASE \/ \E r \in Requests : Abort(r)
             \/ \E b \in Buyers : TopUp(b)
             \/ \E p \in Products : ChangesStock(p)
             \/ \E p \in Products : ChangePrice(p)
             \/ \E code \in Codes : Expire(code)
             \/ UNCHANGED vars
    BY <1>1, <1>8 DEF Abort, TopUp, ChangesStock, ChangeStockRead, ChangeStockWrite,
       ChangeStockAbort, ChangePrice, Expire, vars
  <1>9. QED
    BY <1>4, <1>6, <1>7, <1>8 DEF Next, ChangesStock

-----------------------------------------------------------------------------
(* The refinement *)

(* The invariant holds at first. *)
LEMMA InitHolds == Init => CartInv /\ FiniteCarts
  <1> SUFFICES ASSUME Init PROVE CartInv /\ FiniteCarts
    OBVIOUS
  <1>1. stock \in [Products -> Levels]
    BY DEF Init, TablesInit, Levels
  <1>2. /\ cartStore \in [Buyers -> Stores \cup {Nil}]
        /\ cart \in [Buyers -> Items]
        /\ price \in [Products -> Prices]
    BY DEF Init, Items
  <1>3. req \in [Requests -> Local] /\ \A r \in Requests : Holds(req[r])
    BY IdleIsLocal DEF Init
  <1>4. \A b \in Buyers : InCart(b) = {}
    BY DEF Init, InCart
  <1>5. FiniteCarts
    BY <1>4, FS_EmptySet DEF FiniteCarts
  <1>6. QED
    BY <1>1, <1>2, <1>3, <1>5 DEF CartInv

(* Empty tables are empty tables of the lifecycle. *)
LEMMA InitImplements == Init => Lifecycle!Init
  BY DEF Init, TablesInit, OrderStatus, Packed, Waiting, Sent, Completed, Returned,
     Lifecycle!Init, Lifecycle!TablesInit, Lifecycle!OrderStatus, Lifecycle!Packed,
     Lifecycle!Waiting, Lifecycle!Sent, Lifecycle!Completed, Lifecycle!Returned

(* A step of the lifecycle that leaves everything alone. *)
LEMMA StutterImplements ==
  ASSUME UNCHANGED tables
  PROVE  [Lifecycle!Next]_(Lifecycle!vars)
  BY DEF tables, wallets, inventory, deliveries, Lifecycle!vars, Lifecycle!tables,
     Lifecycle!locals, Lifecycle!wallets, Lifecycle!inventory, Lifecycle!deliveries

(* The commit of createOrder is CreateOrder of the lifecycle, with the      *)
(* items, the total and the code the request has kept.                      *)
LEMMA CommitImplements ==
  ASSUME CartInv, NEW r \in Requests, NEW o \in Orders, CheckoutCommit(r, o)
  PROVE  Lifecycle!Next
  <1> DEFINE l == req[r]
  <1>1. l \in Local /\ Holds(l) /\ l.op = "payWrite"
    BY DEF CartInv, CheckoutCommit
  <1>2. /\ l.buyer \in Buyers /\ l.store \in Stores /\ l.items \in Snapshots
        /\ l.total \in Payable /\ l.code \in Vouchers \cup {NoCode}
    BY <1>1 DEF Local, Holds
  <1>3. PlaceOrder(o, l.buyer, l.store, l.items, l.total, l.code)
    BY DEF CheckoutCommit
  <1>4. Lifecycle!PlaceOrder(o, l.buyer, l.store, l.items, l.total, l.code)
    BY <1>3 DEF PlaceOrder, InStock, CanPay, UsesLeft, WriteStock, StockEvents, Credit,
       UseVoucher, SetStatus, deliveries, Packed,
       Lifecycle!PlaceOrder, Lifecycle!InStock, Lifecycle!CanPay, Lifecycle!UsesLeft,
       Lifecycle!WriteStock, Lifecycle!StockEvents, Lifecycle!Credit, Lifecycle!UseVoucher,
       Lifecycle!SetStatus, Lifecycle!deliveries, Lifecycle!Packed
  <1>5. Lifecycle!CreateOrder(o, l.buyer, l.store)
    BY <1>2, <1>4 DEF Lifecycle!CreateOrder, Lifecycle!locals
  <1>6. QED
    BY <1>2, <1>5 DEF Lifecycle!Next

(* The other writers are the same steps of the lifecycle. *)
LEMMA OthersImplement ==
  ASSUME \/ \E b \in Buyers : TopUp(b)
         \/ \E p \in Products : ChangesStock(p)
         \/ \E p \in Products : DeleteProduct(p)
  PROVE  Lifecycle!Next
  <1>1. CASE \E b \in Buyers : TopUp(b)
    <2>1. PICK b \in Buyers, amount \in TopUps :
            balance[b] <= MaxBalance /\ DirectTopUp(b, amount)
      BY <1>1 DEF TopUp
    <2>2. Lifecycle!DirectTopUp(b, amount)
      BY <2>1 DEF DirectTopUp, Credit, inventory, deliveries, Lifecycle!DirectTopUp,
         Lifecycle!Credit, Lifecycle!inventory, Lifecycle!deliveries
    <2>3. Lifecycle!TopUp(b)
      BY <2>1, <2>2 DEF Lifecycle!TopUp, Lifecycle!locals
    <2>4. QED
      BY <2>3 DEF Lifecycle!Next
  <1>2. CASE \E p \in Products : ChangesStock(p)
    <2> USE DEF wallets, deliveries, Lifecycle!wallets, Lifecycle!deliveries, Lifecycle!locals
    <2>1. PICK p \in Products : ChangesStock(p)
      BY <1>2
    <2>2. CASE ChangeStockRead(p)
      <3>1. Lifecycle!ChangeStockRead(p)
        BY <2>2 DEF ChangeStockRead, FindProduct, Lifecycle!ChangeStockRead, Lifecycle!FindProduct
      <3>2. QED
        BY <3>1 DEF Lifecycle!Next
    <2>3. CASE ChangeStockWrite(p)
      <3>1. PICK n \in StockLevels : version[p] < MaxVersion /\ SetStock(p, n)
        BY <2>3 DEF ChangeStockWrite
      <3>2. Lifecycle!SetStock(p, n)
        BY <3>1 DEF SetStock, WriteStock, StockEvents, Lifecycle!SetStock, Lifecycle!WriteStock,
           Lifecycle!StockEvents
      <3>3. Lifecycle!ChangeStockWrite(p)
        BY <3>1, <3>2 DEF Lifecycle!ChangeStockWrite
      <3>4. QED
        BY <3>3 DEF Lifecycle!Next
    <2>4. CASE ChangeStockAbort(p)
      <3>1. Lifecycle!ChangeStockAbort(p)
        BY <2>4 DEF ChangeStockAbort, GiveUpStock, Lifecycle!ChangeStockAbort, Lifecycle!GiveUpStock
      <3>2. QED
        BY <3>1 DEF Lifecycle!Next
    <2>5. QED
      BY <2>1, <2>2, <2>3, <2>4 DEF ChangesStock
  <1>3. CASE \E p \in Products : DeleteProduct(p)
    <2>1. PICK p \in Products : ProductDeleted(p)
      BY <1>3 DEF DeleteProduct
    <2>2. Lifecycle!ProductDeleted(p)
      BY <2>1 DEF ProductDeleted, wallets, deliveries, Lifecycle!ProductDeleted,
         Lifecycle!wallets, Lifecycle!deliveries
    <2>3. Lifecycle!DeleteProduct(p)
      BY <2>2 DEF Lifecycle!DeleteProduct, Lifecycle!locals
    <2>4. QED
      BY <2>3 DEF Lifecycle!Next
  <1>4. QED
    BY <1>1, <1>2, <1>3

(* One step of a checkout, a cart request or another writer. *)
LEMMA StepImplements ==
  CartInv /\ FiniteCarts /\ [Next]_vars => CartInv' /\ [Lifecycle!Next]_(Lifecycle!vars)
  <1> SUFFICES ASSUME CartInv, FiniteCarts, [Next]_vars
               PROVE  CartInv' /\ [Lifecycle!Next]_(Lifecycle!vars)
    OBVIOUS
  <1>1. CASE UNCHANGED vars
    <2>1. CartInv'
      BY <1>1 DEF vars, tables, inventory, CartInv
    <2>2. QED
      BY <1>1, <2>1, StutterImplements DEF vars
  <1>2. ASSUME NEW r \in Requests, CartStep(r) \/ CheckoutStep(r) \/ Abort(r)
        PROVE  CartInv' /\ [Lifecycle!Next]_(Lifecycle!vars)
    <2>1. CASE CartStep(r) \/ Abort(r)
      <3>1. CASE \E b \in Buyers, p \in Products, q \in Quantities :
                   AddRead(r, b, p, q) \/ UpdateRead(r, b, p, q)
        BY <3>1, ItemReads, StutterImplements
      <3>2. CASE \E b \in Buyers, p \in Products : RemoveRead(r, b, p)
        BY <3>2, ProductRead, StutterImplements
      <3>3. CASE \E b \in Buyers : ClearDelete(r, b) \/ HealRead(r, b)
        BY <3>3, WholeCartReads, StutterImplements
      <3>4. QED
        BY <2>1, <3>1, <3>2, <3>3, CartWrites, StutterImplements DEF CartStep
    <2>2. CASE CheckoutStep(r)
      <3>1. CASE \E b \in Buyers : CheckoutReadCart(r, b)
        BY <3>1, WholeCartReads, StutterImplements
      <3>2. CASE \E o \in Orders : CheckoutCommit(r, o)
        BY <3>2, CommitKeeps, CommitImplements
      <3>3. QED
        BY <2>2, <3>1, <3>2, ReadItems, DeleteRows, StutterImplements DEF CheckoutStep
    <2>3. QED
      BY <1>2, <2>1, <2>2
  <1>3. CASE \/ \E b \in Buyers : TopUp(b)
             \/ \E p \in Products : ChangesStock(p)
             \/ \E p \in Products : DeleteProduct(p)
    BY <1>3, OthersKeep, OthersImplement
  <1>4. CASE \/ \E p \in Products : ChangePrice(p)
             \/ \E code \in Codes : Expire(code)
    <2>1. UNCHANGED tables
      BY <1>4 DEF ChangePrice, Expire
    <2>2. QED
      BY <1>4, <2>1, OthersKeep, StutterImplements
  <1>5. QED
    BY <1>1, <1>2, <1>3, <1>4 DEF Next, ChangesStock

(* The invariant, as one. *)
LEMMA CartInvStep == CartInv /\ FiniteCarts /\ [Next]_vars => CartInv' /\ FiniteCarts'
  BY StepImplements, CartsStayFinite

(* Carts, checkouts and what interleaves with them are a lifecycle. *)
LEMMA CheckoutIsLifecycle == Spec => Lifecycle!Spec
  BY InitHolds, InitImplements, StepImplements, CartInvStep, PTL DEF Spec, Lifecycle!Spec

(* Carts, checkouts and everything that interleaves with them implement    *)
(* the order lifecycle.                                                    *)
THEOREM CheckoutImplementsLifecycle == Spec => ImplementsLifecycle
  <1>1. [Lifecycle!Next]_(Lifecycle!vars) => [LifecycleStep]_(Lifecycle!vars)
    BY DEF LifecycleStep
  <1>2. QED
    BY <1>1, CheckoutIsLifecycle, PTL DEF ImplementsLifecycle, Lifecycle!Spec

-----------------------------------------------------------------------------
(* What is proved of the lifecycle, for orders that come from carts *)

Proved == INSTANCE OrderLifecycleProofs WITH
  SellerRequests <- {}, AdminRuns <- {}, Carts <- Snapshots, Totals <- Payable,
  NoOrder <- Nil, late <- {},
  reading <- [r \in {} |-> Nil], batch <- [a \in {} |-> {}]

(* The lifecycle's assumptions are met: its carts are item counts, and what *)
(* a buyer can be charged for them is a natural number of rupiah.           *)
LEMMA AssumptionsMet == Proved!TablesAssumption /\ Proved!LifecycleAssumption
  <1>1. Snapshots \subseteq Items
    BY CheckoutAssumption DEF Snapshots, Items
  <1>2. Payable \subseteq Nat
    <2> SUFFICES ASSUME NEW prices \in [Products -> Prices], NEW items \in Snapshots,
                        NEW code \in Codes \cup {NoCode}
                 PROVE  Quote(Subtotal(prices, items), code).totalAmount \in Nat
      BY DEF Payable, Subtotals
    <2>1. items \in Items /\ IsFiniteSet(Rows(items))
      BY <1>1 DEF Snapshots
    <2>2. Subtotal(prices, items) \in Nat
      BY <2>1, SubtotalIsNatural
    <2>3. QED
      BY <2>2, QuoteAddsUp
  <1>3. QED
    BY <1>1, <1>2, TablesAssumption, CheckoutAssumption
       DEF Items, Proved!TablesAssumption, Proved!LifecycleAssumption, Proved!Items

(* Both instances of the lifecycle are the same specification. *)
LEMMA SameLifecycle == Lifecycle!Spec => Proved!Spec
  <1>1. Lifecycle!Init => Proved!Init
    BY DEF Lifecycle!Init, Lifecycle!TablesInit, Lifecycle!OrderStatus, Lifecycle!Packed,
       Lifecycle!Waiting, Lifecycle!Sent, Lifecycle!Completed, Lifecycle!Returned,
       Proved!Init, Proved!TablesInit, Proved!OrderStatus, Proved!Packed,
       Proved!Waiting, Proved!Sent, Proved!Completed, Proved!Returned
  <1>2. [Lifecycle!Next]_(Lifecycle!vars) => [Proved!Next]_(Proved!vars)
    BY Zenon
       DEF Lifecycle!Next, Lifecycle!vars, Lifecycle!tables, Lifecycle!locals,
       Lifecycle!wallets, Lifecycle!inventory, Lifecycle!deliveries, Lifecycle!CreateOrder,
       Lifecycle!ProcessOrderRead, Lifecycle!ProcessOrderWrite, Lifecycle!ProcessOrderAbort,
       Lifecycle!TakeJob, Lifecycle!Takeable, Lifecycle!CompleteJob, Lifecycle!Completable,
       Lifecycle!ClockMoves, Lifecycle!OverdueSelect, Lifecycle!OverdueReturn,
       Lifecycle!OverdueSkip, Lifecycle!TopUp, Lifecycle!ChangeStockRead, Lifecycle!ChangeStockWrite,
       Lifecycle!ChangeStockAbort, Lifecycle!DeleteProduct, Lifecycle!FindProduct, Lifecycle!GiveUpStock, Lifecycle!NoJob,
       Lifecycle!PlaceOrder, Lifecycle!OpenJob, Lifecycle!ReturnOrder, Lifecycle!DirectTopUp,
       Lifecycle!SetStock, Lifecycle!ProductDeleted, Lifecycle!SetStatus, Lifecycle!Credit,
       Lifecycle!StockEvents, Lifecycle!WriteStock, Lifecycle!InStock, Lifecycle!CanPay,
       Lifecycle!UsesLeft, Lifecycle!UseVoucher, Lifecycle!StillOpen, Lifecycle!Refund,
       Lifecycle!Placed, Lifecycle!ItemsOf, Lifecycle!Final, Lifecycle!Packed,
       Lifecycle!Waiting, Lifecycle!Sent, Lifecycle!Completed, Lifecycle!Returned,
       Proved!Next, Proved!vars, Proved!tables, Proved!locals,
       Proved!wallets, Proved!inventory, Proved!deliveries, Proved!CreateOrder,
       Proved!ProcessOrderRead, Proved!ProcessOrderWrite, Proved!ProcessOrderAbort,
       Proved!TakeJob, Proved!Takeable, Proved!CompleteJob, Proved!Completable,
       Proved!ClockMoves, Proved!OverdueSelect, Proved!OverdueReturn,
       Proved!OverdueSkip, Proved!TopUp, Proved!ChangeStockRead, Proved!ChangeStockWrite,
       Proved!ChangeStockAbort, Proved!DeleteProduct, Proved!FindProduct, Proved!GiveUpStock, Proved!NoJob,
       Proved!PlaceOrder, Proved!OpenJob, Proved!ReturnOrder, Proved!DirectTopUp,
       Proved!SetStock, Proved!ProductDeleted, Proved!SetStatus, Proved!Credit,
       Proved!StockEvents, Proved!WriteStock, Proved!InStock, Proved!CanPay,
       Proved!UsesLeft, Proved!UseVoucher, Proved!StillOpen, Proved!Refund,
       Proved!Placed, Proved!ItemsOf, Proved!Final, Proved!Packed,
       Proved!Waiting, Proved!Sent, Proved!Completed, Proved!Returned
  <1>3. QED
    BY <1>1, <1>2, PTL DEF Lifecycle!Spec, Proved!Spec

(* However carts, checkouts and the other writers interleave: no rupiah    *)
(* appears or vanishes in the wallets.                                     *)
THEOREM CheckoutsConserveMoney == Spec => []MoneyConserved
  <1>1. Proved!Spec => []Proved!MoneyConserved
    BY AssumptionsMet, Proved!NoMoneyIsLost
  <1>2. Proved!MoneyConserved => MoneyConserved
    BY DEF Proved!MoneyConserved, MoneyConserved, Proved!NetPaid, NetPaid, Proved!OrdersOf,
       OrdersOf, Proved!Placed, Placed, SumFunction, SumFunctionOnSet, FoldFunctionOnSet,
       MapThenFoldSet, Proved!SumFunction, Proved!SumFunctionOnSet,
       Proved!FoldFunctionOnSet, Proved!MapThenFoldSet
  <1>3. QED
    BY <1>1, <1>2, CheckoutIsLifecycle, SameLifecycle, PTL

(* Every use of a voucher is accounted for by one order, also when several *)
(* checkouts saw the last use as available.                                *)
THEOREM CheckoutsCountVouchers == Spec => []VoucherAccounting
  <1>1. Proved!Spec => []Proved!VoucherAccounting
    BY AssumptionsMet, Proved!VouchersAddUp
  <1>2. Proved!VoucherAccounting => VoucherAccounting
    BY DEF Proved!VoucherAccounting, VoucherAccounting, Proved!UsersOf, UsersOf,
       Proved!Cardinality, Cardinality
  <1>3. QED
    BY <1>1, <1>2, CheckoutIsLifecycle, SameLifecycle, PTL

(* The stock the outbox announces last for a product is the stock there    *)
(* is, whichever checkouts took from it: for every product catalog has not *)
(* deleted.  One it has deleted may get its row back from a setStock.      *)
THEOREM CheckoutsAnnounceStock == Spec => []OutboxMirrorsStock
  <1>1. Proved!Spec => []Proved!OutboxMirrorsStock
    BY AssumptionsMet, Proved!OutboxIsTruthful
  <1>2. Proved!OutboxMirrorsStock => OutboxMirrorsStock
    BY DEF Proved!OutboxMirrorsStock, OutboxMirrorsStock
  <1>3. QED
    BY <1>1, <1>2, CheckoutIsLifecycle, SameLifecycle, PTL

-----------------------------------------------------------------------------
(* Type correctness, and what a buyer is quoted *)

(* Every variable and every request in flight has its type: amounts and    *)
(* stock never become negative.                                            *)
THEOREM TypeCorrect == Spec => []TypeOK
  <1> DEFINE Rest == cartLock \in [Buyers -> Requests \cup {"free"}] /\ expired \subseteq Codes
  <1>1. Proved!Spec => []Proved!TypeOK
    BY AssumptionsMet, Proved!TypeCorrect
  <1>2. Proved!TypeOK => TablesTypeOK
    BY DEF Proved!TypeOK, Proved!TablesTypeOK, TablesTypeOK, Proved!Items, Items,
       Proved!Bill, Bill, Proved!JobStatus, JobStatus, Proved!OrderStatus, OrderStatus,
       Proved!InventoryChanged, InventoryChanged, Proved!Packed, Packed, Proved!Waiting,
       Waiting, Proved!Sent, Sent, Proved!Completed, Completed, Proved!Returned, Returned
  <1>3. Init => Rest
    BY DEF Init
  <1>4. CartInv /\ Rest /\ [Next]_vars => Rest'
    <2> SUFFICES ASSUME CartInv, Rest, [Next]_vars
                 PROVE  Rest'
      OBVIOUS
    <2>1. ASSUME NEW r \in Requests, CartStep(r) \/ CheckoutStep(r) \/ Abort(r)
          PROVE  Rest'
      BY <2>1, ZenonT(60) DEF CartStep, AddRead, AddLookup, AddCommit, Unlock, UpdateRead, UpdateCommit,
         RemoveRead, RemoveCommit, ClearDelete, ClearCommit, HealRead, HealCommit,
         CheckoutStep, CheckoutReadCart, CheckoutReadItems, CheckoutDelete, CheckoutCommit, Abort
    <2>2. CASE \/ \E b \in Buyers : TopUp(b)
               \/ \E p \in Products : ChangesStock(p)
               \/ \E p \in Products : ChangePrice(p)
               \/ \E p \in Products : DeleteProduct(p)
               \/ \E code \in Codes : Expire(code)
               \/ UNCHANGED vars
      BY <2>2 DEF TopUp, ChangesStock, ChangeStockRead, ChangeStockWrite, ChangeStockAbort,
         ChangePrice, DeleteProduct, Expire, vars
    <2>3. QED
      BY <2>1, <2>2 DEF Next, ChangesStock
  <1>5. TablesTypeOK /\ CartInv /\ Rest => TypeOK
    <2> SUFFICES ASSUME CartInv, NEW r \in Requests
                 PROVE  DOMAIN req[r] = DOMAIN Idle /\ req[r].rows \subseteq Products
      BY DEF TypeOK, CartInv
    <2>1. req[r] \in Local
      BY DEF CartInv
    <2>2. QED
      BY <2>1 DEF Local, Idle
  <1> HIDE DEF Rest
  <1>6. QED
    BY <1>1, <1>2, <1>3, <1>4, <1>5, InitHolds, CartInvStep, CheckoutIsLifecycle,
       SameLifecycle, PTL DEF Spec

(* A cart as it is costs a natural number of rupiah. *)
LEMMA CartHasPrice ==
  ASSUME CartInv, FiniteCarts, NEW b \in Buyers
  PROVE  Subtotal(price, Orderable(b)) \in Nat
  BY OrderableIsFinite, SubtotalIsNatural DEF CartInv

(* Every quote and every bill is exact: 12% to the nearest rupiah, amounts *)
(* that add up, and nothing of a discount that the totals swallow.         *)
THEOREM QuotesAreExact == Spec => []QuoteIsExact
  <1>1. CartInv /\ FiniteCarts => QuoteIsExact
    BY CartHasPrice, QuoteAddsUp DEF QuoteIsExact, AcceptedCodes
  <1>2. QED
    BY <1>1, InitHolds, CartInvStep, PTL DEF Spec

(* A discount stays within its percentage, its cap, its amount and what    *)
(* the goods cost.                                                         *)
THEOREM DiscountsStayWithinOffer == Spec => []DiscountWithinOffer
  <1>1. CartInv /\ FiniteCarts => DiscountWithinOffer
    BY CartHasPrice, DiscountBounds DEF DiscountWithinOffer, AcceptedCodes
  <1>2. QED
    BY <1>1, InitHolds, CartInvStep, PTL DEF Spec

-----------------------------------------------------------------------------
(* One store per cart, for a buyer who makes one request at a time *)

Running(r) == req[r].op # "idle"

(* No buyer has two requests in flight.                                    *)
OneAtATime ==
  \A r, x \in Requests :
    Running(r) /\ Running(x) /\ r # x => req[r].buyer # req[x].buyer

(* What a request has seen of its buyer's cart is still so. *)
StillSees(l) ==
  /\ l.op \in {"add", "addWrite"} =>
       l.store = cartStore[l.buyer] /\ l.store \in {Nil, StoreOf[l.product]}
  /\ l.op = "update" => l.rows \subseteq InCart(l.buyer)
  /\ l.op = "remove" /\ l.empty => InCart(l.buyer) \subseteq l.rows
  /\ l.op \in {"clear", "payWrite"} => InCart(l.buyer) \subseteq l.rows
  /\ l.op = "heal" => InCart(l.buyer) = {}

ScopeInv == OneStorePerCart /\ \A r \in Requests : StillSees(req[r])

(* A request that has read, and written nothing.                           *)
LEMMA ReadKeepsScope ==
  ASSUME CartInv, ScopeInv, NEW r \in Requests, NEW l, StillSees(l),
         req' = [req EXCEPT ![r] = l], UNCHANGED <<cart, cartStore>>
  PROVE  ScopeInv'
  <1>1. OneStorePerCart'
    BY DEF ScopeInv, OneStorePerCart, InCart
  <1>2. ASSUME NEW x \in Requests
        PROVE  StillSees(req'[x])
    BY DEF CartInv, ScopeInv
  <1>3. QED
    BY <1>1, <1>2 DEF ScopeInv, StillSees, InCart

(* A request that has changed its buyer's cart and nobody else's, and has  *)
(* left it with goods of its store only.                                   *)
LEMMA CommitKeepsScope ==
  ASSUME CartInv, ScopeInv, OneAtATime, NEW r \in Requests, Running(r),
         NEW b \in Buyers, b = req[r].buyer, NEW gone, Finish(r, b, gone),
         \A c \in Buyers : c # b => cart'[c] = cart[c] /\ cartStore'[c] = cartStore[c],
         \A p \in InCart(b)' : StoreOf[p] = cartStore'[b]
  PROVE  ScopeInv'
  <1>1. ASSUME NEW c \in Buyers, c # b
        PROVE  InCart(c)' = InCart(c) /\ cartStore'[c] = cartStore[c]
    BY <1>1 DEF InCart
  <1>2. ASSUME NEW c \in Buyers, NEW p \in InCart(c)'
        PROVE  StoreOf[p] = cartStore'[c]
    <2>1. CASE c = b
      BY <1>2, <2>1
    <2>2. CASE c # b
      BY <1>1, <1>2, <2>2 DEF ScopeInv, OneStorePerCart
    <2>3. QED
      BY <2>1, <2>2
  <1>3. OneStorePerCart'
    BY <1>2 DEF OneStorePerCart
  <1>4. ASSUME NEW x \in Requests
        PROVE  StillSees(req[x])'
    <2>1. CASE x = r
      <3>1. req'[x] = Idle /\ Idle.op = "idle"
        BY <2>1 DEF Finish, Idle
      <3>2. QED
        BY <3>1 DEF StillSees
    <2>2. CASE x # r /\ ~Running(x)
      <3>1. req'[x].op = "idle"
        BY <2>2 DEF CartInv, Local, Finish, Running
      <3>2. QED
        BY <3>1 DEF StillSees
    <2>3. CASE x # r /\ Running(x)
      <3>1. req[x].buyer # b /\ req[x].buyer \in Buyers
        BY <2>3 DEF OneAtATime, CartInv, Holds, Running
      <3>2. req'[x] = req[x]
        BY <2>3, <3>1 DEF Finish
      <3>3. InCart(req[x].buyer)' = InCart(req[x].buyer) /\ cartStore'[req[x].buyer] = cartStore[req[x].buyer]
        BY <1>1, <3>1, <3>2 DEF InCart
      <3>4. StillSees(req[x])
        BY DEF ScopeInv
      <3> DEFINE l == req[x]
      <3>5. l' = l /\ InCart(l.buyer)' = InCart(l.buyer) /\ cartStore'[l.buyer] = cartStore[l.buyer]
        BY <3>2, <3>3
      <3>6. QED
        BY <3>4, <3>5 DEF StillSees
    <2>4. QED
      BY <2>1, <2>2, <2>3
  <1>5. QED
    BY <1>3, <1>4 DEF ScopeInv

(* addItemToCart and updateCartItemQuantity read and look up.              *)
LEMMA ItemReadsScope ==
  ASSUME CartInv, ScopeInv, NEW r \in Requests,
         \/ \E b \in Buyers, p \in Products, q \in Quantities :
              AddRead(r, b, p, q) \/ UpdateRead(r, b, p, q)
         \/ AddLookup(r)
  PROVE  ScopeInv'
  <1>1. ASSUME NEW b \in Buyers, NEW p \in Products, NEW q \in Quantities, AddRead(r, b, p, q)
        PROVE  ScopeInv'
    <2> DEFINE l == [Request("add", b) EXCEPT !.product = p, !.qty = q,
                       !.store = cartStore[b], !.stock = stock[p]]
    <2>1. l.op = "add" /\ l.buyer = b /\ l.store = cartStore[b] /\ l.product = p
      BY DEF Request, Idle
    <2>2. l.store \in {Nil, StoreOf[l.product]}
      BY <1>1, <2>1 DEF AddRead, SameStore
    <2>3. req' = [req EXCEPT ![r] = l] /\ UNCHANGED <<cart, cartStore>>
      BY <1>1 DEF AddRead, Begin
    <2> HIDE DEF l
    <2>4. StillSees(l)
      BY <2>1, <2>2 DEF StillSees
    <2>5. QED
      BY <2>3, <2>4, ReadKeepsScope
  <1>2. ASSUME NEW b \in Buyers, NEW p \in Products, NEW q \in Quantities, UpdateRead(r, b, p, q)
        PROVE  ScopeInv'
    <2> DEFINE l == [Request("update", b) EXCEPT !.product = p, !.qty = q, !.rows = {p}]
    <2>1. l.op = "update" /\ l.buyer = b /\ l.rows = {p}
      BY DEF Request, Idle
    <2>2. req' = [req EXCEPT ![r] = l] /\ UNCHANGED <<cart, cartStore>> /\ p \in InCart(b)
      BY <1>2 DEF UpdateRead, Begin, InCart
    <2> HIDE DEF l
    <2>3. StillSees(l)
      BY <2>1, <2>2 DEF StillSees
    <2>4. QED
      BY <2>2, <2>3, ReadKeepsScope
  <1>3. CASE AddLookup(r)
    <2> DEFINE old == cart[req[r].buyer][req[r].product]
               l   == [req[r] EXCEPT !.op = "addWrite", !.qty = req[r].qty + old,
                         !.rows = IF old > 0 THEN {req[r].product} ELSE {}, !.empty = (old = 0)]
    <2>1. req[r] \in Local /\ StillSees(req[r]) /\ req[r].op = "add"
      BY <1>3 DEF CartInv, ScopeInv, AddLookup
    <2>2. l.op = "addWrite" /\ l.buyer = req[r].buyer /\ l.store = req[r].store
          /\ l.product = req[r].product
      BY <2>1 DEF Local
    <2>3. req' = [req EXCEPT ![r] = l] /\ UNCHANGED <<cart, cartStore>>
      BY <1>3 DEF AddLookup
    <2> HIDE DEF l
    <2>4. StillSees(l)
      BY <2>1, <2>2 DEF StillSees
    <2>5. QED
      BY <2>3, <2>4, ReadKeepsScope
  <1>4. QED
    BY <1>1, <1>2, <1>3

(* The other requests that read a cart.                                    *)
LEMMA CartReadsScope ==
  ASSUME CartInv, ScopeInv, NEW r \in Requests,
         \/ \E b \in Buyers, p \in Products : RemoveRead(r, b, p)
         \/ \E b \in Buyers : ClearDelete(r, b) \/ HealRead(r, b) \/ CheckoutReadCart(r, b)
         \/ \E code \in Codes \cup {NoCode} : CheckoutReadItems(r, code)
         \/ CheckoutDelete(r)
         \/ Abort(r)
  PROVE  ScopeInv'
  <1>1. ASSUME NEW b \in Buyers, NEW p \in Products, RemoveRead(r, b, p)
        PROVE  ScopeInv'
    <2> DEFINE l == [Request("remove", b) EXCEPT !.product = p, !.rows = {p},
                                                 !.empty = (InCart(b) = {p})]
    <2>1. l.op = "remove" /\ l.buyer = b /\ l.rows = {p} /\ (l.empty <=> InCart(b) = {p})
      BY DEF Request, Idle
    <2>2. req' = [req EXCEPT ![r] = l] /\ UNCHANGED <<cart, cartStore>>
      BY <1>1 DEF RemoveRead, Begin
    <2> HIDE DEF l
    <2>3. StillSees(l)
      BY <2>1 DEF StillSees
    <2>4. QED
      BY <2>2, <2>3, ReadKeepsScope
  <1>2. ASSUME NEW b \in Buyers, ClearDelete(r, b)
        PROVE  ScopeInv'
    <2> DEFINE l == [Request("clear", b) EXCEPT !.rows = InCart(b)]
    <2>1. l.op = "clear" /\ l.buyer = b /\ l.rows = InCart(b)
      BY DEF Request, Idle
    <2>2. req' = [req EXCEPT ![r] = l] /\ UNCHANGED <<cart, cartStore>>
      BY <1>2 DEF ClearDelete, Begin
    <2> HIDE DEF l
    <2>3. StillSees(l)
      BY <2>1 DEF StillSees
    <2>4. QED
      BY <2>2, <2>3, ReadKeepsScope
  <1>3. ASSUME NEW b \in Buyers, HealRead(r, b)
        PROVE  ScopeInv'
    <2>1. Request("heal", b).op = "heal" /\ Request("heal", b).buyer = b
      BY DEF Request, Idle
    <2>2. /\ req' = [req EXCEPT ![r] = Request("heal", b)]
          /\ UNCHANGED <<cart, cartStore>> /\ InCart(b) = {}
      BY <1>3 DEF HealRead, Begin
    <2>3. StillSees(Request("heal", b))
      BY <2>1, <2>2 DEF StillSees
    <2>4. QED
      BY <2>2, <2>3, ReadKeepsScope
  <1>4. ASSUME NEW b \in Buyers, CheckoutReadCart(r, b)
        PROVE  ScopeInv'
    <2> DEFINE l == [Request("checkout", b) EXCEPT !.store = cartStore[b]]
    <2>1. l.op = "checkout"
      BY DEF Request, Idle
    <2>2. req' = [req EXCEPT ![r] = l] /\ UNCHANGED <<cart, cartStore>>
      BY <1>4 DEF CheckoutReadCart, Begin
    <2> HIDE DEF l
    <2>3. StillSees(l)
      BY <2>1 DEF StillSees
    <2>4. QED
      BY <2>2, <2>3, ReadKeepsScope
  <1>5. ASSUME NEW l, l.op = "pay", req' = [req EXCEPT ![r] = l], UNCHANGED <<cart, cartStore>>
        PROVE  ScopeInv'
    <2>1. StillSees(l)
      BY <1>5 DEF StillSees
    <2>2. QED
      BY <1>5, <2>1, ReadKeepsScope
  <1>6. ASSUME NEW code \in Codes \cup {NoCode}, CheckoutReadItems(r, code)
        PROVE  ScopeInv'
    <2> DEFINE items == Orderable(req[r].buyer)
               l == [req[r] EXCEPT !.op = "pay", !.items = items,
                       !.total = Quote(Subtotal(price, items), code).totalAmount,
                       !.code = IF code \in Vouchers THEN code ELSE NoCode]
    <2>1. req' = [req EXCEPT ![r] = l] /\ UNCHANGED <<cart, cartStore>>
      BY <1>6 DEF CheckoutReadItems
    <2>2. l.op = "pay"
      BY DEF CartInv, Local
    <2> HIDE DEF l
    <2>3. QED
      BY <1>5, <2>1, <2>2
  <1>7. CASE CheckoutDelete(r)
    <2> DEFINE l == [req[r] EXCEPT !.op = "payWrite", !.rows = InCart(req[r].buyer)]
    <2>1. l.op = "payWrite" /\ l.buyer = req[r].buyer /\ l.rows = InCart(req[r].buyer)
      BY DEF CartInv, Local
    <2>2. req' = [req EXCEPT ![r] = l] /\ UNCHANGED <<cart, cartStore>>
      BY <1>7 DEF CheckoutDelete
    <2> HIDE DEF l
    <2>3. StillSees(l)
      BY <2>1 DEF StillSees
    <2>4. QED
      BY <2>2, <2>3, ReadKeepsScope
  <1>8. CASE Abort(r)
    <2>1. Idle.op = "idle"
      BY DEF Idle
    <2>2. StillSees(Idle)
      BY <2>1 DEF StillSees
    <2>3. QED
      BY <1>8, <2>2, ReadKeepsScope DEF Abort
  <1>9. QED
    BY <1>1, <1>2, <1>3, <1>4, <1>6, <1>7, <1>8

(* addItemToCart and updateCartItemQuantity commit.                        *)
LEMMA ItemCommitsScope ==
  ASSUME CartInv, ScopeInv, OneAtATime, NEW r \in Requests, AddCommit(r) \/ UpdateCommit(r)
  PROVE  ScopeInv'
  <1> PICK b \in Buyers : b = req[r].buyer
    BY DEF CartInv, AddCommit, UpdateCommit, Holds
  <1> PICK p : p = req[r].product
    OBVIOUS
  <1> DEFINE l == req[r]
  <1>1. l \in Local /\ Holds(l) /\ StillSees(l) /\ Running(r)
    BY DEF CartInv, ScopeInv, AddCommit, UpdateCommit, Running
  <1>2. \A x \in InCart(b) : StoreOf[x] = cartStore[b]
    BY <1>1 DEF ScopeInv, OneStorePerCart
  <1>3. CASE AddCommit(r)
    <2>1. /\ cart' = cart \/ cart' = [cart EXCEPT ![b][p] = l.qty]
          /\ cartStore' = [cartStore EXCEPT ![b] = IF l.store = Nil THEN StoreOf[p] ELSE @]
          /\ Finish(r, b, {})
      BY <1>3 DEF AddCommit
    <2>2. l.op = "addWrite" /\ p \in Products
      BY <1>1, <1>3 DEF AddCommit, Holds
    <2>3. l.store = cartStore[b] /\ l.store \in {Nil, StoreOf[p]}
      BY <1>1, <2>2 DEF StillSees
    <2>4. cartStore'[b] = StoreOf[p]
      BY <1>1, <2>1, <2>3 DEF CartInv
    <2>5. InCart(b)' \subseteq InCart(b) \cup {p}
      BY <1>1, <2>1, <2>2 DEF CartInv, Items, InCart
    <2>6. ASSUME NEW x \in InCart(b)
          PROVE  StoreOf[x] = StoreOf[p]
      <3>1. StoreOf[x] = cartStore[b] /\ StoreOf[x] \in Stores
        BY <1>2, CheckoutAssumption DEF InCart
      <3>2. QED
        BY <2>3, <3>1, CheckoutAssumption
    <2>7. \A x \in InCart(b)' : StoreOf[x] = cartStore'[b]
      BY <2>4, <2>5, <2>6
    <2>8. \A c \in Buyers : c # b => cart'[c] = cart[c] /\ cartStore'[c] = cartStore[c]
      BY <2>1 DEF CartInv
    <2>9. QED
      BY <1>1, <2>1, <2>7, <2>8, CommitKeepsScope
  <1>4. CASE UpdateCommit(r)
    <2>1. /\ \/ cart' = cart
             \/ p \in l.rows /\ cart' = [cart EXCEPT ![b][p] = l.qty]
          /\ cartStore' = cartStore
          /\ Finish(r, b, {})
      BY <1>4 DEF UpdateCommit
    <2>2. l.rows \subseteq InCart(b)
      BY <1>1, <1>4 DEF UpdateCommit, StillSees
    <2>3. InCart(b)' \subseteq InCart(b)
      BY <1>1, <2>1, <2>2 DEF CartInv, Items, InCart
    <2>4. \A x \in InCart(b)' : StoreOf[x] = cartStore'[b]
      BY <1>2, <2>1, <2>3
    <2>5. \A c \in Buyers : c # b => cart'[c] = cart[c] /\ cartStore'[c] = cartStore[c]
      BY <2>1 DEF CartInv
    <2>6. QED
      BY <1>1, <2>1, <2>4, <2>5, CommitKeepsScope
  <1>5. QED
    BY <1>3, <1>4

(* The commits that delete rows: when the store is reset nothing is left.  *)
LEMMA DeletingCommitsScope ==
  ASSUME CartInv, ScopeInv, OneAtATime, NEW r \in Requests,
         \/ RemoveCommit(r)
         \/ ClearCommit(r)
         \/ HealCommit(r)
         \/ \E o \in Orders : CheckoutCommit(r, o)
  PROVE  ScopeInv'
  <1> PICK b \in Buyers : b = req[r].buyer
    BY DEF CartInv, RemoveCommit, ClearCommit, HealCommit, CheckoutCommit, Holds
  <1> DEFINE l == req[r]
  <1>1. l \in Local /\ StillSees(l) /\ Running(r)
    BY DEF CartInv, ScopeInv, RemoveCommit, ClearCommit, HealCommit, CheckoutCommit, Running
  <1>2. \A x \in InCart(b) : StoreOf[x] = cartStore[b]
    BY <1>1 DEF ScopeInv, OneStorePerCart
  <1>3. ASSUME NEW rows, Without(b, rows) \/ (rows = {} /\ cart' = cart)
        PROVE  /\ InCart(b)' = InCart(b) \ rows
               /\ \A c \in Buyers : c # b => cart'[c] = cart[c]
    BY <1>1, <1>3 DEF Without, CartInv, Items, InCart
  <1>4. ASSUME NEW rows, Without(b, rows) \/ (rows = {} /\ cart' = cart),
               InCart(b) \subseteq rows, cartStore' = [cartStore EXCEPT ![b] = Nil],
               Finish(r, b, rows)
        PROVE  ScopeInv'
    <2>1. InCart(b)' = {}
      BY <1>3, <1>4
    <2>2. \A c \in Buyers : c # b => cart'[c] = cart[c] /\ cartStore'[c] = cartStore[c]
      BY <1>3, <1>4 DEF CartInv
    <2>3. QED
      BY <1>1, <1>4, <2>1, <2>2, CommitKeepsScope
  <1>5. CASE RemoveCommit(r)
    <2>1. /\ Without(b, l.rows) /\ Finish(r, b, l.rows)
          /\ cartStore' = [cartStore EXCEPT ![b] = IF l.empty THEN Nil ELSE @]
      BY <1>5 DEF RemoveCommit
    <2>2. CASE l.empty
      <3>1. InCart(b) \subseteq l.rows
        BY <1>1, <1>5, <2>2 DEF RemoveCommit, StillSees
      <3>2. cartStore' = [cartStore EXCEPT ![b] = Nil]
        BY <2>1, <2>2
      <3>3. QED
        BY <1>4, <2>1, <3>1, <3>2
    <2>3. CASE ~l.empty
      <3>1. cartStore' = cartStore
        BY <1>1, <2>1, <2>3 DEF CartInv
      <3>2. \A x \in InCart(b)' : StoreOf[x] = cartStore'[b]
        BY <1>2, <1>3, <2>1, <3>1
      <3>3. \A c \in Buyers : c # b => cart'[c] = cart[c] /\ cartStore'[c] = cartStore[c]
        BY <1>3, <2>1, <3>1
      <3>4. QED
        BY <1>1, <2>1, <3>2, <3>3, CommitKeepsScope
    <2>4. QED
      BY <2>2, <2>3
  <1>6. CASE ClearCommit(r)
    <2>1. /\ Without(b, l.rows) /\ Finish(r, b, l.rows)
          /\ cartStore' = [cartStore EXCEPT ![b] = Nil]
          /\ InCart(b) \subseteq l.rows
      BY <1>1, <1>6 DEF ClearCommit, StillSees
    <2>2. QED
      BY <1>4, <2>1
  <1>7. CASE HealCommit(r)
    <2>1. /\ cart' = cart /\ Finish(r, b, {})
          /\ cartStore' = [cartStore EXCEPT ![b] = Nil]
          /\ InCart(b) \subseteq {}
      BY <1>1, <1>7 DEF HealCommit, StillSees
    <2>2. QED
      BY <1>4, <2>1
  <1>8. CASE \E o \in Orders : CheckoutCommit(r, o)
    <2>1. /\ Without(b, l.rows) /\ Finish(r, b, l.rows)
          /\ cartStore' = [cartStore EXCEPT ![b] = Nil]
          /\ InCart(b) \subseteq l.rows
      BY <1>1, <1>8 DEF CheckoutCommit, StillSees
    <2>2. QED
      BY <1>4, <2>1
  <1>9. QED
    BY <1>5, <1>6, <1>7, <1>8

(* productDeleted takes the product out of the cart and out of what a      *)
(* request has found there.                                                *)
LEMMA DeleteKeepsScope ==
  ASSUME CartInv, ScopeInv, NEW p \in Products, DeleteProduct(p)
  PROVE  ScopeInv'
  <1>1. ASSUME NEW b \in Buyers
        PROVE  InCart(b)' = InCart(b) \ {p} /\ cartStore'[b] = cartStore[b]
    BY DEF DeleteProduct, CartInv, Items, InCart
  <1>2. OneStorePerCart'
    BY <1>1 DEF ScopeInv, OneStorePerCart
  <1>3. ASSUME NEW r \in Requests
        PROVE  StillSees(req[r])'
    <2> DEFINE l == req[r]
    <2>1. l \in Local /\ Holds(l) /\ StillSees(l)
      BY DEF CartInv, ScopeInv
    <2>2. req'[r] = [l EXCEPT !.rows = @ \ {p}]
      BY DEF DeleteProduct
    <2>3. /\ l'.op = l.op /\ l'.buyer = l.buyer /\ l'.store = l.store
          /\ l'.product = l.product /\ l'.empty = l.empty /\ l'.rows = l.rows \ {p}
      BY <2>1, <2>2 DEF Local
    <2>4. CASE l.op = "idle"
      BY <2>3, <2>4 DEF StillSees
    <2>5. CASE l.op # "idle"
      <3>1. InCart(l.buyer)' = InCart(l.buyer) \ {p} /\ cartStore'[l'.buyer] = cartStore[l.buyer]
        <4>1. l.buyer \in Buyers
          BY <2>1, <2>5 DEF Holds
        <4>2. InCart(l.buyer)' = {x \in Products : cart'[l'.buyer][x] > 0}
          BY DEF InCart
        <4>3. QED
          BY <1>1, <2>3, <4>1, <4>2 DEF InCart
      <3> HIDE DEF l
      <3>2. StillSees(l)'
        BY <2>1, <2>3, <3>1 DEF StillSees
      <3>3. QED
        BY <3>2 DEF l
    <2>6. QED
      BY <2>4, <2>5
  <1>4. QED
    BY <1>2, <1>3 DEF ScopeInv

(* One step.                                                               *)
LEMMA ScopeStep == CartInv /\ ScopeInv /\ OneAtATime /\ [Next]_vars => ScopeInv'
  <1> SUFFICES ASSUME CartInv, ScopeInv, OneAtATime, [Next]_vars
               PROVE  ScopeInv'
    OBVIOUS
  <1>1. CASE UNCHANGED <<cart, cartStore, req>>
    BY <1>1 DEF ScopeInv, OneStorePerCart, StillSees, InCart
  <1>2. CASE \/ \E b \in Buyers : TopUp(b)
             \/ \E p \in Products : ChangesStock(p)
             \/ \E p \in Products : ChangePrice(p)
             \/ \E code \in Codes : Expire(code)
             \/ UNCHANGED vars
    <2>1. UNCHANGED <<cart, cartStore, req>>
      BY <1>2 DEF TopUp, ChangesStock, ChangeStockRead, ChangeStockWrite, ChangeStockAbort,
         ChangePrice, Expire, vars
    <2>2. QED
      BY <1>1, <2>1
  <1>3. QED
    BY <1>2, ItemReadsScope, CartReadsScope, ItemCommitsScope, DeletingCommitsScope,
       DeleteKeepsScope DEF Next, ChangesStock, CartStep, CheckoutStep

(* Carts start without a store.                                            *)
LEMMA ScopeInit == Init => ScopeInv
  <1> SUFFICES ASSUME Init PROVE ScopeInv
    OBVIOUS
  <1>1. OneStorePerCart
    BY DEF Init, OneStorePerCart, InCart
  <1>2. Idle.op = "idle"
    BY DEF Idle
  <1>3. QED
    BY <1>1, <1>2 DEF Init, ScopeInv, StillSees

(* Everything in a cart comes from the cart's store, as long as no buyer   *)
(* makes two requests at the same time: whatever other buyers do, whatever *)
(* fails, and whichever products catalog deletes.                          *)
THEOREM OneRequestOneStore == Spec /\ []OneAtATime => []OneStorePerCart
  <1>1. ScopeInv => OneStorePerCart
    BY DEF ScopeInv
  <1>2. QED
    BY <1>1, ScopeInit, ScopeStep, InitHolds, CartInvStep, PTL DEF Spec

=============================================================================
