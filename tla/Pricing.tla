------------------------------- MODULE Pricing -------------------------------
(***************************************************************************)
(* What checkout charges: DiscountsService.validateCode and                *)
(* OrdersCheckoutService.calculateTotals, over natural numbers of rupiah.  *)
(* JavaScript's Math.round(x / 100) is the floor of x / 100 + 1 / 2; its   *)
(* products and sums are exact far beyond the 32-bit columns they go to.   *)
(***************************************************************************)
EXTENDS Integers

CONSTANT NoCap   \* promos.max_discount_amount IS NULL

Least(a, b) == IF a <= b THEN a ELSE b

RoundDown(n, d) == n \div d  \* Mutant: Math.floor.

Round(n, d) == (2 * n + d) \div (2 * d)

(* A flat amount, never more than the goods cost. *)
VoucherDiscount(v, subtotal) == Least(v.amount, subtotal)

(* A percentage, with an optional cap, never more than the goods cost. *)
\* Mutant: the cap is ignored.
PromoDiscountUncapped(p, subtotal) ==
  Least((subtotal * p.percent) \div 100, subtotal)

PromoDiscount(p, subtotal) ==
  LET share  == (subtotal * p.percent) \div 100
      capped == IF p.cap = NoCap THEN share ELSE Least(share, p.cap)
  IN Least(capped, subtotal)

(* The checks validateCode makes before it grants a discount. *)
VoucherAccepted(v, left, expired, subtotal) ==
  ~expired /\ left > 0 /\ subtotal >= v.minOrder

PromoAccepted(p, expired, subtotal) == ~expired /\ subtotal >= p.minOrder

CalculateTotals(subtotal, fee, discount) ==
  LET discounted == IF discount > subtotal THEN 0 ELSE subtotal - discount
      taxBase    == discounted + fee
      ppn        == Round(12 * taxBase, 100)
  IN [taxBase |-> taxBase, ppn |-> ppn, totalAmount |-> taxBase + ppn]

=============================================================================
