--------------------------- MODULE MCEventDelivery ---------------------------
(* Small instances of EventDelivery. *)
EXTENDS EventDelivery

CONSTANTS e1, e2, relay1, relay2

=============================================================================
