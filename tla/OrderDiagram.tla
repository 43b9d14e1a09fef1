----------------------------- MODULE OrderDiagram -----------------------------
(***************************************************************************)
(* What an order's status promises, and nothing else: an order appears in  *)
(* sedang_dikemas, then follows the arcs of a state diagram.               *)
(***************************************************************************)
CONSTANTS
  Orders,
  Arcs       \* pairs <<from, to>>; "none" is the state before the order

VARIABLE status

Init == status = [o \in Orders |-> "none"]

Follow(o, arc) ==
  /\ status[o] = arc[1]
  /\ status' = [status EXCEPT ![o] = arc[2]]

Next == \E o \in Orders, arc \in Arcs : Follow(o, arc)

Spec == Init /\ [][Next]_status
=============================================================================
