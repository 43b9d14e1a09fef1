------------------------- MODULE MCCatalogReadModel -------------------------
(* A small instance of CatalogReadModel. *)
EXTENDS CatalogProperties, TLC

CONSTANTS s1, p1, p2, b1, b2, u1, o1, o2, r1, r2

InStore1 == [p \in Products |-> s1]

(* The first buyer bought both products, the other one two of the second.  *)
PlacedBy == o1 :> b1 @@ o2 :> b2
Bought   == o1 :> (p1 :> 1 @@ p2 :> 1) @@ o2 :> (p1 :> 0 @@ p2 :> 2)

Symmetry == Permutations(Requests)
=============================================================================
