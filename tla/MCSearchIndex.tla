---------------------------- MODULE MCSearchIndex ----------------------------
(* Small instances of SearchIndex. *)
EXTENDS SearchProperties, TLC

CONSTANTS p1, i1, i2, x1, x2, x3, x4

Symmetry == Permutations(Instances) \cup Permutations(Indices)
=============================================================================
