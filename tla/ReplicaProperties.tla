-------------------------- MODULE ReplicaProperties --------------------------
(***************************************************************************)
(* What module ProductReplica is checked against.                          *)
(***************************************************************************)
EXTENDS ProductReplica

(* A stock set before the product arrived is never stranded: pending_stock *)
(* has a row only while product_refs has none (setStock and productUpserted*)
(* serialise on the product's lock: comment in catalog-sync.service.ts).   *)
PendingStockNotStranded ==
  \A p \in Products : pending[p] # None => ref[p].version = 0

(* Once the bus is silent and nothing was parked, the replica is catalog's *)
(* state: every store has its newest version, every live product too, with *)
(* a stock row, whatever order and however often the events arrived.       *)
QuietMeansReplicated ==
  Quiet /\ parked = {} =>
    /\ storeRef = store
    /\ \A p \in Products : product[p].state = "live" =>
         /\ ref[p] = [version |-> product[p].version, deleted |-> FALSE]
         /\ inv[p] # None

(* A redelivered or late event never takes a replica back to an older      *)
(* version, and a deleted product stays deleted.                           *)
ReplicaNeverGoesBack ==
  [][/\ \A s \in Stores : storeRef'[s] >= storeRef[s]
     /\ \A p \in Products : /\ ref'[p].version >= ref[p].version
                             /\ ref[p].deleted => ref'[p].deleted]_vars

-----------------------------------------------------------------------------
(* What comments and documents say, and the code does not keep *)

(* docs/architecture/data-ownership.md and communication.md: a deletion is *)
(* not undone by an older upsert; once every event is handled, a product   *)
(* catalog deleted is not for sale.                                        *)
DeletedStaysDeleted ==
  Quiet /\ parked = {} =>
    \A p \in Products :
      product[p].state = "deleted" /\ ref[p].version > 0 => ref[p].deleted

=============================================================================
