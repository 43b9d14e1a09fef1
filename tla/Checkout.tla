------------------------------ MODULE Checkout ------------------------------
(***************************************************************************)
(* A buyer's cart and the checkout that turns it into an order.            *)
(*                                                                         *)
(* No request locks a cart before it reads it, so requests of one buyer    *)
(* (two tabs, a double click, a retry) interleave between their SELECTs    *)
(* and their writes.  A request in flight keeps what it read in req[r];    *)
(* its writes appear at its commit, and ...Commit is that step.            *)
(*                                                                         *)
(* Two things other transactions do reach into a request in flight:        *)
(*   - UPDATE carts locks the row of the cart until commit: addItemToCart  *)
(*     takes that lock before it looks at the item;                        *)
(*   - a row of cart_items that is deleted is gone for an UPDATE or DELETE *)
(*     by id, even if another request inserts the product again: req.rows  *)
(*     holds the rows a request found, and deleting a row removes it.      *)
(***************************************************************************)
EXTENDS CommerceTables, Functions

CONSTANTS
  Requests,     \* requests in flight at the same time
  StoreOf,      \* product_refs.store_id
  Nil,          \* carts.store_id IS NULL, and a field a request does not use
  NoCap,
  Promos,       \* rows of promos
  VoucherRow,   \* [Vouchers -> [amount, minOrder]]
  PromoRow,     \* [Promos -> [percent, cap, minOrder]]
  Prices,       \* prices catalog may give a product
  Quantities,   \* quantities a buyer may ask for
  Fee,          \* the delivery fee of the chosen method
  StockLevels, TopUps,
  MaxBalance,   \* bound: no top-up of a wallet holding more than this
  MaxVersion    \* bound: no setStock of a row at this version

INSTANCE Pricing

ASSUME CheckoutAssumption ==
  /\ StoreOf \in [Products -> Stores]
  /\ Nil \notin Stores \cup Orders
  /\ Promos \cap (Vouchers \cup {NoCode}) = {}
  /\ VoucherRow \in [Vouchers -> [amount : Nat, minOrder : Nat]]
  /\ PromoRow \in [Promos -> [percent : 1..100, cap : Nat \cup {NoCap}, minOrder : Nat]]
  /\ Prices \subseteq Nat /\ Prices # {}
  /\ Quantities \subseteq Nat \ {0}
  /\ StockLevels \subseteq Nat /\ TopUps \subseteq Nat
  /\ Fee \in Nat
  /\ MaxBalance \in Nat /\ MaxVersion \in Nat

VARIABLES
  cartStore,  \* carts.store_id of each buyer
  cart,       \* cart_items.quantity, 0 where there is no row
  cartLock,   \* the request that holds the row lock of the cart, or "free"
  price,      \* product_refs.price
  expired,    \* codes whose expires_at has passed
  req         \* the requests in flight

vars == <<tables, cartStore, cart, cartLock, price, expired, req>>

Codes == Vouchers \cup Promos

Idle == [op |-> "idle", buyer |-> Nil, product |-> Nil, qty |-> 0,
         store |-> Nil, stock |-> 0, rows |-> {}, empty |-> FALSE,
         items |-> [p \in Products |-> 0], total |-> 0, code |-> NoCode]

Request(op, b) == [Idle EXCEPT !.op = op, !.buyer = b]

InCart(b) == {p \in Products : cart[b][p] > 0}

TypeOK ==
  /\ TablesTypeOK
  /\ cartStore \in [Buyers -> Stores \cup {Nil}]
  /\ cart \in [Buyers -> Items]
  /\ cartLock \in [Buyers -> Requests \cup {"free"}]
  /\ price \in [Products -> Prices]
  /\ expired \subseteq Codes
  /\ \A r \in Requests : /\ DOMAIN req[r] = DOMAIN Idle
                         /\ req[r].rows \subseteq Products

Init ==
  /\ TablesInit
  /\ cartStore = [b \in Buyers |-> Nil]
  /\ cart = [b \in Buyers |-> [p \in Products |-> 0]]
  /\ cartLock = [b \in Buyers |-> "free"]
  /\ price \in [Products -> Prices]
  /\ expired = {}
  /\ req = [r \in Requests |-> Idle]

-----------------------------------------------------------------------------
(* Moves of a request *)

Begin(r, local) == req[r] = Idle /\ req' = [req EXCEPT ![r] = local]

(* The end of request r.  The rows of cart_items it deleted are gone for   *)
(* every request that had found them.                                      *)
Finish(r, b, gone) ==
  req' = [x \in Requests |->
            IF x = r THEN Idle
            ELSE IF req[x].buyer = b THEN [req[x] EXCEPT !.rows = @ \ gone]
            ELSE req[x]]

Without(b, gone) ==
  cart' = [cart EXCEPT ![b] = [p \in Products |-> IF p \in gone THEN 0 ELSE @[p]]]

Unlock(r, b) == cartLock' = [cartLock EXCEPT ![b] = IF @ = r THEN "free" ELSE @]

Free(b) == cartLock[b] = "free"

(* An error response, a deadlock victim or a restart: rolled back. *)
Abort(r) ==
  /\ req[r] # Idle
  /\ req' = [req EXCEPT ![r] = Idle]
  /\ cartLock' = [b \in Buyers |-> IF cartLock[b] = r THEN "free" ELSE cartLock[b]]
  /\ UNCHANGED <<tables, cartStore, cart, price, expired>>

-----------------------------------------------------------------------------
(* addItemToCart: the product, then the cart; a cart of another store is a *)
(* conflict.  A tombstoned product is refused (hasProduct, asked just      *)
(* before the SELECT and taken together with it).                          *)

SameStore(b, p) == cartStore[b] \in {Nil, StoreOf[p]}

AddRead(r, b, p, q) ==
  /\ p \notin deleted /\ p \in listed /\ stock[p] >= q
  /\ SameStore(b, p)
  /\ Begin(r, [Request("add", b) EXCEPT !.product = p, !.qty = q,
                 !.store = cartStore[b], !.stock = stock[p]])
  /\ UNCHANGED <<tables, cartStore, cart, cartLock, price, expired>>

(* UPDATE carts if no store was read, then the SELECT of the item. *)
AddLookup(r) ==
  LET l   == req[r]
      old == cart[l.buyer][l.product]
  IN /\ l.op = "add"
     /\ old > 0 => l.stock >= old + l.qty
     /\ IF l.store = Nil
        THEN /\ Free(l.buyer)
             /\ cartLock' = [cartLock EXCEPT ![l.buyer] = r]
        ELSE UNCHANGED cartLock
     /\ req' = [req EXCEPT ![r] = [l EXCEPT !.op = "addWrite", !.qty = l.qty + old,
                                   !.rows = IF old > 0 THEN {l.product} ELSE {},
                                   !.empty = (old = 0)]]
     /\ UNCHANGED <<tables, cartStore, cart, price, expired>>

AddCommit(r) ==
  LET l == req[r]
      b == l.buyer
      p == l.product
  IN /\ l.op = "addWrite"
     /\ l.empty => cart[b][p] = 0     \* else uniq_product_in_cart
     /\ cart' = IF l.empty \/ p \in l.rows THEN [cart EXCEPT ![b][p] = l.qty] ELSE cart
     /\ cartStore' = [cartStore EXCEPT ![b] = IF l.store = Nil THEN StoreOf[p] ELSE @]
     /\ Unlock(r, b)
     /\ Finish(r, b, {})
     /\ UNCHANGED <<tables, price, expired>>

-----------------------------------------------------------------------------
(* updateCartItemQuantity *)

UpdateRead(r, b, p, q) ==
  /\ cart[b][p] > 0
  /\ p \in listed /\ stock[p] >= q
  /\ Begin(r, [Request("update", b) EXCEPT !.product = p, !.qty = q, !.rows = {p}])
  /\ UNCHANGED <<tables, cartStore, cart, cartLock, price, expired>>

UpdateCommit(r) ==
  LET l == req[r]
  IN /\ l.op = "update"
     /\ cart' = IF l.product \in l.rows
                THEN [cart EXCEPT ![l.buyer][l.product] = l.qty] ELSE cart
     /\ Finish(r, l.buyer, {})
     /\ UNCHANGED <<tables, cartStore, cartLock, price, expired>>

-----------------------------------------------------------------------------
(* removeCartItem: if its SELECT after the DELETE saw no other row, the    *)
(* store is reset.                                                         *)

RemoveRead(r, b, p) ==
  /\ cart[b][p] > 0
  /\ Begin(r, [Request("remove", b) EXCEPT !.product = p, !.rows = {p},
                                           !.empty = (InCart(b) = {p})])
  /\ UNCHANGED <<tables, cartStore, cart, cartLock, price, expired>>

RemoveCommit(r) ==
  LET l == req[r]
      b == l.buyer
  IN /\ l.op = "remove"
     /\ l.empty => Free(b)
     /\ Without(b, l.rows)
     /\ cartStore' = [cartStore EXCEPT ![b] = IF l.empty THEN Nil ELSE @]
     /\ Finish(r, b, l.rows)
     /\ UNCHANGED <<tables, cartLock, price, expired>>

-----------------------------------------------------------------------------
(* clearCart: the DELETE, then the UPDATE of the cart and the commit. *)

ClearDelete(r, b) ==
  /\ Begin(r, [Request("clear", b) EXCEPT !.rows = InCart(b)])
  /\ UNCHANGED <<tables, cartStore, cart, cartLock, price, expired>>

ClearCommit(r) ==
  LET l == req[r]
      b == l.buyer
  IN /\ l.op = "clear"
     /\ Free(b)
     /\ Without(b, l.rows)
     /\ cartStore' = [cartStore EXCEPT ![b] = Nil]
     /\ Finish(r, b, l.rows)
     /\ UNCHANGED <<tables, cartLock, price, expired>>

-----------------------------------------------------------------------------
(* getOrCreateCart, run by every cart summary and preview: a cart with a   *)
(* store and no items loses its store.  Two statements, no transaction.    *)

HealRead(r, b) ==
  /\ cartStore[b] # Nil /\ InCart(b) = {}
  /\ Begin(r, Request("heal", b))
  /\ UNCHANGED <<tables, cartStore, cart, cartLock, price, expired>>

HealCommit(r) ==
  LET b == req[r].buyer
  IN /\ req[r].op = "heal"
     /\ Free(b)
     /\ cartStore' = [cartStore EXCEPT ![b] = Nil]
     /\ Finish(r, b, {})
     /\ UNCHANGED <<tables, cart, cartLock, price, expired>>

-----------------------------------------------------------------------------
(* createOrder *)

CheckoutReadCart(r, b) ==
  /\ cartStore[b] # Nil
  /\ Begin(r, [Request("checkout", b) EXCEPT !.store = cartStore[b]])
  /\ UNCHANGED <<tables, cartStore, cart, cartLock, price, expired>>

Rows(items) == {p \in Products : items[p] > 0}

Subtotal(prices, items) == SumFunction([p \in Rows(items) |-> prices[p] * items[p]])

\* Mutant: an order without items is not refused.
HasItemsUnchecked(items) == TRUE

HasItems(items) == \E p \in Products : items[p] > 0

(* The items of a cart that still have an inventory row. *)
Orderable(b) == [p \in Products |-> IF p \in listed THEN cart[b][p] ELSE 0]

(* Codes validateCode accepts for this subtotal, and what they take off. *)
Accepted(code, subtotal) ==
  \/ code = NoCode
  \/ /\ code \in Vouchers
     /\ VoucherAccepted(VoucherRow[code], remaining[code], code \in expired, subtotal)
  \/ /\ code \in Promos
     /\ PromoAccepted(PromoRow[code], code \in expired, subtotal)

Discount(code, subtotal) ==
  CASE code = NoCode      -> 0
    [] code \in Vouchers  -> VoucherDiscount(VoucherRow[code], subtotal)
    [] code \in Promos    -> PromoDiscount(PromoRow[code], subtotal)

(* What the order will cost; the preview quotes the same.                  *)
Quote(subtotal, code) == CalculateTotals(subtotal, Fee, Discount(code, subtotal))

(* The items, the totals, the wallet.                                      *)
CheckoutReadItems(r, code) ==
  LET l        == req[r]
      items    == Orderable(l.buyer)
      subtotal == Subtotal(price, items)
      total    == Quote(subtotal, code).totalAmount
  IN /\ l.op = "checkout"
     /\ HasItems(items)
     /\ \A p \in Products : items[p] <= stock[p]
     /\ Accepted(code, subtotal)
     /\ balance[l.buyer] >= total
     /\ req' = [req EXCEPT ![r] = [l EXCEPT !.op = "pay", !.items = items, !.total = total,
                            !.code = IF code \in Vouchers THEN code ELSE NoCode]]
     /\ UNCHANGED <<tables, cartStore, cart, cartLock, price, expired>>

(* DELETE FROM cart_items: the rows of the cart as it is by now. *)
CheckoutDelete(r) ==
  LET l == req[r]
  IN /\ l.op = "pay"
     /\ req' = [req EXCEPT ![r] = [l EXCEPT !.op = "payWrite", !.rows = InCart(l.buyer)]]
     /\ UNCHANGED <<tables, cartStore, cart, cartLock, price, expired>>

CheckoutCommit(r, o) ==
  LET l == req[r]
      b == l.buyer
  IN /\ l.op = "payWrite"
     /\ PlaceOrder(o, b, l.store, l.items, l.total, l.code)
     /\ Free(b)
     /\ Without(b, l.rows)
     /\ cartStore' = [cartStore EXCEPT ![b] = Nil]
     /\ Finish(r, b, l.rows)
     /\ UNCHANGED <<cartLock, price, expired>>

-----------------------------------------------------------------------------
(* The rest of the service, as far as a checkout can notice it *)

TopUp(b) ==
  \E amount \in TopUps :
    /\ balance[b] <= MaxBalance
    /\ DirectTopUp(b, amount)
    /\ UNCHANGED <<cartStore, cart, cartLock, price, expired, req>>

(* setStock *)
ChangeStockRead(p) ==
  /\ FindProduct(p)
  /\ UNCHANGED <<cartStore, cart, cartLock, price, expired, req>>

ChangeStockWrite(p) ==
  \E n \in StockLevels :
    /\ version[p] < MaxVersion
    /\ SetStock(p, n)
    /\ UNCHANGED <<cartStore, cart, cartLock, price, expired, req>>

ChangeStockAbort(p) ==
  /\ GiveUpStock(p)
  /\ UNCHANGED <<cartStore, cart, cartLock, price, expired, req>>

(* productUpserted with another price *)
ChangePrice(p) ==
  \E n \in Prices \ {price[p]} :
    /\ price' = [price EXCEPT ![p] = n]
    /\ UNCHANGED <<tables, cartStore, cart, cartLock, expired, req>>

(* productDeleted also deletes the product from every cart. *)
DeleteProduct(p) ==
  /\ ProductDeleted(p)
  /\ cart' = [b \in Buyers |-> [cart[b] EXCEPT ![p] = 0]]
  /\ req' = [r \in Requests |-> [req[r] EXCEPT !.rows = @ \ {p}]]
  /\ UNCHANGED <<cartStore, cartLock, price, expired>>

Expire(code) ==
  /\ expired' = expired \cup {code}
  /\ UNCHANGED <<tables, cartStore, cart, cartLock, price, req>>

-----------------------------------------------------------------------------

CartStep(r) ==
  \/ \E b \in Buyers, p \in Products, q \in Quantities : AddRead(r, b, p, q)
  \/ AddLookup(r)
  \/ AddCommit(r)
  \/ \E b \in Buyers, p \in Products, q \in Quantities : UpdateRead(r, b, p, q)
  \/ UpdateCommit(r)
  \/ \E b \in Buyers, p \in Products : RemoveRead(r, b, p)
  \/ RemoveCommit(r)
  \/ \E b \in Buyers : ClearDelete(r, b)
  \/ ClearCommit(r)
  \/ \E b \in Buyers : HealRead(r, b)
  \/ HealCommit(r)

CheckoutStep(r) ==
  \/ \E b \in Buyers : CheckoutReadCart(r, b)
  \/ \E code \in Codes \cup {NoCode} : CheckoutReadItems(r, code)
  \/ CheckoutDelete(r)
  \/ \E o \in Orders : CheckoutCommit(r, o)

Next ==
  \/ \E r \in Requests : CartStep(r)
  \/ \E r \in Requests : CheckoutStep(r)
  \/ \E r \in Requests : Abort(r)
  \/ \E b \in Buyers : TopUp(b)
  \/ \E p \in Products : ChangeStockRead(p)
  \/ \E p \in Products : ChangeStockWrite(p)
  \/ \E p \in Products : ChangeStockAbort(p)
  \/ \E p \in Products : ChangePrice(p)
  \/ \E p \in Products : DeleteProduct(p)
  \/ \E code \in Codes : Expire(code)

Spec == Init /\ [][Next]_vars

=============================================================================
