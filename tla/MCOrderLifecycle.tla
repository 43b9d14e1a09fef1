-------------------------- MODULE MCOrderLifecycle --------------------------
(* Small instances of OrderLifecycle. *)
EXTENDS OrderProperties, TLC

CONSTANTS o1, o2, b1, s1, p1, d1, d2, v1, r1, r2, a1, a2

OneUseEach == [v \in Vouchers |-> 1]

(* One unit of every product. *)
OneOfEach == {[p \in Products |-> 1]}

Symmetry == Permutations(Orders) \cup Permutations(Drivers) \cup
            Permutations(SellerRequests) \cup Permutations(AdminRuns)
=============================================================================
