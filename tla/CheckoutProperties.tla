-------------------------- MODULE CheckoutProperties --------------------------
(***************************************************************************)
(* What module Checkout is checked against, beside the properties of the   *)
(* tables.                                                                 *)
(***************************************************************************)
EXTENDS Checkout, TableProperties

(* Everything in a cart comes from the store the cart is scoped to         *)
(* (addItemToCart and the resets of carts.store_id).  True of a buyer who  *)
(* makes one request at a time, also when catalog deletes products.        *)
OneStorePerCart ==
  \A b \in Buyers : \A p \in InCart(b) : StoreOf[p] = cartStore[b]

-----------------------------------------------------------------------------
(* What a buyer is quoted for the cart as it is, with any code that        *)
(* validateCode accepts; createOrder charges the same.                     *)

AcceptedCodes(s) == {c \in Codes \cup {NoCode} : Accepted(c, s)}

(* A quote adds up: the clamp in calculateTotals never swallows a part of  *)
(* the discount, and PPN is 12% of the tax base to the nearest rupiah,     *)
(* whatever was rounded before it.                                         *)
AddsUp(s, d, quote) ==
  /\ quote.totalAmount = s - d + Fee + quote.ppn
  /\ 100 * quote.ppn - 12 * quote.taxBase <= 50
  /\ 12 * quote.taxBase - 100 * quote.ppn <= 50

QuoteIsExact ==
  \A b \in Buyers :
    LET s == Subtotal(price, Orderable(b))
    IN \A code \in AcceptedCodes(s) : AddsUp(s, Discount(code, s), Quote(s, code))

(* A discount stays within the offer it comes from: the percentage, the    *)
(* cap, the amount, and what the goods cost, after whatever rounding.      *)
WithinOffer(code, s, d) ==
  /\ d <= s
  /\ code \in Vouchers => d <= VoucherRow[code].amount
  /\ code \in Promos =>
       /\ 100 * d <= PromoRow[code].percent * s
       /\ PromoRow[code].cap # NoCap => d <= PromoRow[code].cap

DiscountWithinOffer ==
  \A b \in Buyers :
    LET s == Subtotal(price, Orderable(b))
    IN \A code \in AcceptedCodes(s) : WithinOffer(code, s, Discount(code, s))

-----------------------------------------------------------------------------
(* Checkout is the write phase module OrderLifecycle takes it for: however *)
(* requests interleave, an order has items, no more of one than a stock    *)
(* level allows, and a total calculateTotals can come to; every other step *)
(* is one of the lifecycle's or leaves its tables alone.                   *)

Snapshots ==
  {items \in [Products -> {0} \cup UNION {0..n : n \in StockLevels}] :
     Rows(items) # {} /\ IsFiniteSet(Rows(items))}

Subtotals == {Subtotal(prices, items) : prices \in [Products -> Prices], items \in Snapshots}

Payable == {Quote(s, code).totalAmount : s \in Subtotals, code \in Codes \cup {NoCode}}

Lifecycle == INSTANCE OrderLifecycle WITH
  SellerRequests <- {}, AdminRuns <- {}, Carts <- Snapshots, Totals <- Payable,
  NoOrder <- Nil, late <- {},
  reading <- [r \in {} |-> Nil], batch <- [a \in {} |-> {}]

(* Lifecycle!Spec.  Most steps stutter; naming those first spares TLC the  *)
(* search for a CreateOrder that would explain them.                       *)
LifecycleStep == UNCHANGED Lifecycle!vars \/ Lifecycle!Next

ImplementsLifecycle == Lifecycle!Init /\ [][LifecycleStep]_(Lifecycle!vars)

-----------------------------------------------------------------------------
(* docs/BUYER.md: "Only one store's products per checkout".                *)
OneStorePerCheckout ==
  \A o \in Placed : \A p \in ItemsOf(o) : StoreOf[p] = bill[o].store

=============================================================================
