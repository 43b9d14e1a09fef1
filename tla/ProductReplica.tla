--------------------------- MODULE ProductReplica ---------------------------
(***************************************************************************)
(* Catalog's stores and products, and the replica of them commerce keeps   *)
(* to sell from: product_refs, store_refs, the inventory row of a product  *)
(* and the stock a seller set before the product arrived.                  *)
(*                                                                         *)
(* Catalog writes a change and its event in one transaction; module        *)
(* EventBus carries the event, in any order, more than once.  A handler of *)
(* commerce is one transaction.  setStock is two steps (its SELECT and its *)
(* write) under the advisory lock of the product, which productUpserted    *)
(* takes as well and productDeleted does not.                              *)
(***************************************************************************)
EXTENDS EventBus

CONSTANTS
  Stores, Products,
  StoreOf,      \* the store a product is created in
  Sellers,
  SellerOf,     \* the seller of a store
  Setters,      \* setStock requests in flight at the same time
  Levels,       \* stock levels sellers set
  MaxVersion,   \* bound: versions of a product in catalog
  MaxStoreVersion, \* bound: versions of a store in catalog
  MaxSets,      \* bound: versions of an inventory row
  None          \* no row, no request

ASSUME ReplicaAssumption ==
  /\ StoreOf \in [Products -> Stores]
  /\ SellerOf \in [Stores -> Sellers]
  /\ Levels \subseteq Nat
  /\ MaxVersion \in Nat \ {0} /\ MaxStoreVersion \in Nat \ {0} /\ MaxSets \in Nat
  /\ None \notin Setters \cup [stock : Nat, version : Nat]

VARIABLES
  store,      \* catalog: version of the store, 0 before it is created
  product,    \* catalog: "none", "live" or "deleted", and the version
  storeRef,   \* commerce: store_refs.version, 0 without a row
  ref,        \* commerce: product_refs version and deleted, version 0 without a row
  inv,        \* commerce: the inventory row of the product, or None
  pending,    \* commerce: the pending_stock row of the product, or None
  lock,       \* commerce: holder of the product's advisory lock, or None
  setter      \* commerce: the setStock requests in flight

catalog == <<store, product>>
replica == <<storeRef, ref, inv, pending>>
vars    == <<bus, catalog, replica, lock, setter>>

Versions == 1..MaxVersion

StoreUpserted(s, v)   == [type |-> "catalog.store.upserted", id |-> s, version |-> v]
ProductUpserted(p, v) == [type |-> "catalog.product.upserted", id |-> p, version |-> v]
ProductDeleted(p, v)  == [type |-> "catalog.product.deleted", id |-> p, version |-> v]

ReplicaEvents ==
  {StoreUpserted(s, v) : s \in Stores, v \in 1..MaxStoreVersion} \cup
  {ProductUpserted(p, v) : p \in Products, v \in Versions} \cup
  {ProductDeleted(p, v) : p \in Products, v \in Versions}

(* The bus carries these. *)
ASSUME ReplicaEventsAssumption == Events = ReplicaEvents

TypeOK ==
  /\ BusTypeOK
  /\ store \in [Stores -> 0..MaxStoreVersion]
  /\ product \in [Products -> [state : {"none", "live", "deleted"}, version : 0..MaxVersion]]
  /\ storeRef \in [Stores -> 0..MaxStoreVersion]
  /\ ref \in [Products -> [version : 0..MaxVersion, deleted : BOOLEAN]]
  /\ inv \in [Products -> [stock : Nat, version : Nat] \cup {None}]
  /\ pending \in [Products -> [seller : Sellers, stock : Nat] \cup {None}]
  /\ lock \in [Products -> Setters \cup {None}]
  /\ setter \in [Setters -> [seller : Sellers, product : Products, stock : Nat,
                             found : BOOLEAN] \cup {None}]

Init ==
  /\ BusInit
  /\ store = [s \in Stores |-> 0]
  /\ product = [p \in Products |-> [state |-> "none", version |-> 0]]
  /\ storeRef = [s \in Stores |-> 0]
  /\ ref = [p \in Products |-> [version |-> 0, deleted |-> FALSE]]
  /\ inv = [p \in Products |-> None]
  /\ pending = [p \in Products |-> None]
  /\ lock = [p \in Products |-> None]
  /\ setter = [x \in Setters |-> None]

-----------------------------------------------------------------------------
(* Catalog: stores.service and products.service *)

CatalogWrite(E) ==
  /\ Enqueue(E)
  /\ UNCHANGED <<replica, lock, setter>>

CreateStore(s) ==
  /\ store[s] = 0
  /\ store' = [store EXCEPT ![s] = 1]
  /\ CatalogWrite({StoreUpserted(s, 1)})
  /\ UNCHANGED product

(* createSellerProduct and deleteSellerProduct also adjust the store's     *)
(* product count, which is a new version of the store.                     *)
CreateProduct(p) ==
  LET s == StoreOf[p]
  IN /\ store[s] \in 1..(MaxStoreVersion - 1)
     /\ product[p].state = "none"
     /\ product' = [product EXCEPT ![p] = [state |-> "live", version |-> 1]]
     /\ store' = [store EXCEPT ![s] = @ + 1]
     /\ CatalogWrite({ProductUpserted(p, 1), StoreUpserted(s, store[s] + 1)})

UpdateProduct(p) ==
  LET v == product[p].version + 1
  IN /\ product[p].state = "live" /\ v <= MaxVersion
     /\ product' = [product EXCEPT ![p].version = v]
     /\ CatalogWrite({ProductUpserted(p, v)})
     /\ UNCHANGED store

DeleteProduct(p) ==
  LET s == StoreOf[p]
      v == product[p].version + 1
  IN /\ product[p].state = "live" /\ v <= MaxVersion /\ store[s] < MaxStoreVersion
     /\ product' = [product EXCEPT ![p] = [state |-> "deleted", version |-> v]]
     /\ store' = [store EXCEPT ![s] = @ + 1]
     /\ CatalogWrite({ProductDeleted(p, v), StoreUpserted(s, store[s] + 1)})

-----------------------------------------------------------------------------
(* Commerce: the handlers of catalog-sync *)

\* Mutant: the incoming version always wins.
NewerUnchecked(old, new) == TRUE

(* setWhere: version < incoming. *)
Newer(old, new) == old < new

HandleStoreUpserted(m) ==
  LET e == m.event
  IN /\ e.type = "catalog.store.upserted"
     /\ storeRef' = [storeRef EXCEPT ![e.id] = IF Newer(@, e.version)
                                                THEN e.version ELSE @]
     /\ UNCHANGED <<ref, inv, pending>>

(* The inventory row a live product has from now on: the one it has, with  *)
(* the pending stock if that was set by the seller of the product's store. *)
WithPending(p) ==
  LET row == IF inv[p] = None THEN [stock |-> 0, version |-> 0] ELSE inv[p]
  IN IF pending[p] # None /\ pending[p].seller = SellerOf[StoreOf[p]]
     THEN [stock |-> pending[p].stock, version |-> row.version + 1]
     ELSE row

(* Else the foreign key of product_refs fails. *)
StoreKnown(p) == storeRef[StoreOf[p]] > 0

\* Mutant: productUpserted without lockProduct.
UnlockedIgnored(p) == TRUE

Unlocked(p) == lock[p] = None

HandleProductUpserted(m) ==
  LET e == m.event
      p == e.id
  IN /\ e.type = "catalog.product.upserted"
     /\ Unlocked(p)
     /\ StoreKnown(p)
     /\ IF Newer(ref[p].version, e.version)
        THEN /\ ref' = [ref EXCEPT ![p].version = e.version]
             /\ IF ref[p].deleted
                THEN UNCHANGED <<inv, pending>>
                ELSE /\ inv' = [inv EXCEPT ![p] = WithPending(p)]
                     /\ pending' = [pending EXCEPT ![p] = None]
        ELSE UNCHANGED <<ref, inv, pending>>
     /\ UNCHANGED storeRef

(* An UPDATE only: without a row, or with a newer one, nothing happens. *)
HandleProductDeleted(m) ==
  LET e == m.event
      p == e.id
  IN /\ e.type = "catalog.product.deleted"
     /\ IF ref[p].version \in 1..(e.version - 1)
        THEN /\ ref' = [ref EXCEPT ![p] = [version |-> e.version, deleted |-> TRUE]]
             /\ inv' = [inv EXCEPT ![p] = None]
             /\ pending' = [pending EXCEPT ![p] = None]
        ELSE UNCHANGED <<ref, inv, pending>>
     /\ UNCHANGED storeRef

Handle(m) ==
  /\ \/ HandleStoreUpserted(m)
     \/ HandleProductUpserted(m)
     \/ HandleProductDeleted(m)
  /\ UNCHANGED <<catalog, lock, setter>>

-----------------------------------------------------------------------------
(* Commerce: InventoryService.setStock *)

(* Takes the lock and looks the product and its store up. *)
SetStockRead(x, who, p, n) ==
  /\ setter[x] = None /\ lock[p] = None
  /\ product[p].state # "none"         \* the id is known to its seller
  /\ ref[p].version > 0 => ~ref[p].deleted /\ SellerOf[StoreOf[p]] = who
  /\ lock' = [lock EXCEPT ![p] = x]
  /\ setter' = [setter EXCEPT ![x] = [seller |-> who, product |-> p, stock |-> n,
                                      found |-> ref[p].version > 0]]
  /\ UNCHANGED <<bus, catalog, replica>>

SetStockWrite(x) ==
  LET l   == setter[x]
      p   == l.product
      row == IF inv[p] = None THEN [stock |-> l.stock, version |-> 1]
                              ELSE [stock |-> l.stock, version |-> inv[p].version + 1]
  IN /\ l # None
     /\ IF l.found
        THEN /\ row.version <= MaxSets
             /\ inv' = [inv EXCEPT ![p] = row]
             /\ UNCHANGED pending
        ELSE /\ pending' = [pending EXCEPT ![p] = [seller |-> l.seller, stock |-> l.stock]]
             /\ UNCHANGED inv
     /\ lock' = [lock EXCEPT ![p] = None]
     /\ setter' = [setter EXCEPT ![x] = None]
     /\ UNCHANGED <<bus, catalog, storeRef, ref>>

(* Rolled back: a failed request or a restart. *)
SetStockAbort(x) ==
  /\ setter[x] # None
  /\ lock' = [lock EXCEPT ![setter[x].product] = None]
  /\ setter' = [setter EXCEPT ![x] = None]
  /\ UNCHANGED <<bus, catalog, replica>>

-----------------------------------------------------------------------------

Produce ==
  \/ \E s \in Stores : CreateStore(s)
  \/ \E p \in Products : CreateProduct(p)
  \/ \E p \in Products : UpdateProduct(p)
  \/ \E p \in Products : DeleteProduct(p)

Relay(r) ==
  /\ \/ RelayPublish(r)
     \/ RelayPublishPart(r)
     \/ RelayMark(r)
     \/ RelayCrash(r)
  /\ UNCHANGED <<catalog, replica, lock, setter>>

Deliver(m) ==
  \/ HandledAcked(m) /\ Handle(m)
  \/ HandledUnacked(m) /\ Handle(m)
  \/ Failed(m) /\ UNCHANGED <<catalog, replica, lock, setter>>

SetStock(x) ==
  \/ \E who \in Sellers, p \in Products, n \in Levels : SetStockRead(x, who, p, n)
  \/ SetStockWrite(x)
  \/ SetStockAbort(x)

Next ==
  \/ Produce
  \/ \E r \in Relays : Relay(r)
  \/ \E m \in queue : Deliver(m)
  \/ \E x \in Setters : SetStock(x)

Spec == Init /\ [][Next]_vars

=============================================================================
