----------------------------- MODULE MCCheckout -----------------------------
(* Small instances of Checkout. *)
EXTENDS CheckoutProperties, TLC

CONSTANTS o1, o2, b1, b2, s1, s2, p1, p2, v1, c1, r1, r2

OneUseEach == [v \in Vouchers |-> 1]

(* The first product belongs to the first store, the other to the second. *)
TwoStores == [p \in Products |-> IF p = p1 THEN s1 ELSE s2]
OneStore  == [p \in Products |-> s1]

Vouchers5  == [v \in Vouchers |-> [amount |-> 5, minOrder |-> 10]]
(* More than a cheap item costs, from the first rupiah. *)
Vouchers30 == [v \in Vouchers |-> [amount |-> 30, minOrder |-> 0]]

Promos20   == [c \in Promos |-> [percent |-> 20, cap |-> 3, minOrder |-> 10]]

(* A percentage that does not divide evenly, and a cap. *)
Promos33   == [c \in Promos |-> [percent |-> 33, cap |-> 5, minOrder |-> 14]]

Symmetry == Permutations(Orders) \cup Permutations(Requests) \cup Permutations(Buyers)
=============================================================================
