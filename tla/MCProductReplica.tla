-------------------------- MODULE MCProductReplica --------------------------
(* Small instances of ProductReplica. *)
EXTENDS ReplicaProperties

CONSTANTS s1, p1, seller, other, x1, x2, relay1, relay2

InStore1 == [p \in Products |-> s1]
SoldBySeller == [s \in Stores |-> seller]

=============================================================================
