----------------------------- MODULE MCSession -----------------------------
(* Small instances of Session. *)
EXTENDS SessionProperties

CONSTANTS u1, s1, s2, t1, t2, t3, i1, i2, r1, r2

OneUser == [s \in Sessions |-> u1]
=============================================================================
