---------------------------- MODULE ReplicaProofs ----------------------------
(***************************************************************************)
(* Proofs about the replica commerce keeps of catalog's products.          *)
(***************************************************************************)
EXTENDS ReplicaProperties, TLAPS

-----------------------------------------------------------------------------
(* Types *)

(* What the fields of an event can be. *)
LEMMA EventFields ==
  ASSUME NEW e \in Events
  PROVE  \/ /\ e.type = "catalog.store.upserted"
            /\ e.id \in Stores /\ e.version \in 1..MaxStoreVersion
         \/ /\ e.type \in {"catalog.product.upserted", "catalog.product.deleted"}
            /\ e.id \in Products /\ e.version \in Versions
  BY ReplicaEventsAssumption
  DEF ReplicaEvents, StoreUpserted, ProductUpserted, ProductDeleted

(* An event is known by its type, entity and version. *)
LEMMA EventNames ==
  /\ \A s \in Stores, v \in 1..MaxStoreVersion : StoreUpserted(s, v) \in Events
  /\ \A p \in Products, v \in Versions : ProductUpserted(p, v) \in Events
  /\ \A p \in Products, v \in Versions : ProductDeleted(p, v) \in Events
  BY ReplicaEventsAssumption DEF ReplicaEvents

(* Whatever a relay or the broker does. *)
LEMMA RelayTypes ==
  ASSUME BusTypeOK, NEW r \in Relays,
         RelayPublish(r) \/ RelayPublishPart(r) \/ RelayMark(r) \/ RelayCrash(r)
  PROVE  BusTypeOK'
  <1>1. ASSUME NEW E \in SUBSET Events PROVE Copies(E) \in SUBSET Message
    BY BusAssumption DEF Copies, Message
  <1>2. CASE RelayPublish(r)
    BY <1>1, <1>2 DEF BusTypeOK, RelayPublish
  <1>3. CASE RelayPublishPart(r)
    BY <1>1, <1>3 DEF BusTypeOK, RelayPublishPart
  <1>4. CASE RelayMark(r)
    BY <1>4 DEF BusTypeOK, RelayMark
  <1>5. CASE RelayCrash(r)
    BY <1>5 DEF BusTypeOK, RelayCrash
  <1>6. QED
    BY <1>2, <1>3, <1>4, <1>5

(* Whatever becomes of a delivery. *)
LEMMA QueueTypes ==
  ASSUME BusTypeOK, NEW m \in queue, HandledAcked(m) \/ HandledUnacked(m) \/ Failed(m)
  PROVE  BusTypeOK'
  <1>1. m \in Message
    BY DEF BusTypeOK
  <1>2. CASE HandledAcked(m)
    BY <1>2 DEF BusTypeOK, HandledAcked
  <1>3. CASE HandledUnacked(m)
    BY <1>3 DEF BusTypeOK, HandledUnacked, bus
  <1>4. CASE Failed(m)
    <2>1. m.event \in Events
      BY <1>1 DEF Message
    <2>2. RetriesLeft(m) => [m EXCEPT !.attempt = @ + 1] \in Message
      BY <1>1, BusAssumption DEF Message, RetriesLeft
    <2>3. QED
      BY <1>4, <2>1, <2>2 DEF BusTypeOK, Failed
  <1>5. QED
    BY <1>2, <1>3, <1>4

(* A write of catalog, with the events it puts in the outbox. *)
LEMMA WriteTypes ==
  ASSUME TypeOK, NEW E \in SUBSET Events, CatalogWrite(E),
         store' \in [Stores -> 0..MaxStoreVersion],
         product' \in [Products -> [state : {"none", "live", "deleted"},
                                    version : 0..MaxVersion]]
  PROVE  TypeOK'
  BY DEF CatalogWrite, Enqueue, TypeOK, BusTypeOK, replica

(* Catalog's writes keep the types. *)
LEMMA ProduceTypes ==
  ASSUME TypeOK, Produce
  PROVE  TypeOK'
  <1> USE ReplicaAssumption
  <1>1. CASE \E s \in Stores : CreateStore(s)
    <2>1. PICK s \in Stores : CreateStore(s)
      BY <1>1
    <2>2. store' \in [Stores -> 0..MaxStoreVersion] /\ product' = product
      BY <2>1 DEF CreateStore, TypeOK
    <2>3. StoreUpserted(s, 1) \in Events
      BY EventNames
    <2>4. QED
      BY <2>1, <2>2, <2>3, WriteTypes DEF CreateStore, TypeOK
  <1>2. CASE \E p \in Products : CreateProduct(p)
    <2>1. PICK p \in Products : CreateProduct(p)
      BY <1>2
    <2> DEFINE s == StoreOf[p]
    <2>2. s \in Stores /\ store[s] + 1 \in 1..MaxStoreVersion /\ 1 \in Versions
      BY <2>1 DEF CreateProduct, TypeOK, Versions
    <2>3. store' \in [Stores -> 0..MaxStoreVersion]
      BY <2>1, <2>2 DEF CreateProduct, TypeOK
    <2>4. product' \in [Products -> [state : {"none", "live", "deleted"},
                                     version : 0..MaxVersion]]
      BY <2>1, <2>2 DEF CreateProduct, TypeOK, Versions
    <2>5. {ProductUpserted(p, 1), StoreUpserted(s, store[s] + 1)} \in SUBSET Events
      BY <2>2, EventNames
    <2>6. QED
      BY <2>1, <2>3, <2>4, <2>5, WriteTypes DEF CreateProduct
  <1>3. CASE \E p \in Products : UpdateProduct(p)
    <2>1. PICK p \in Products : UpdateProduct(p)
      BY <1>3
    <2> DEFINE v == product[p].version + 1
    <2>2. v \in Versions
      BY <2>1 DEF UpdateProduct, TypeOK, Versions
    <2>3. product' \in [Products -> [state : {"none", "live", "deleted"},
                                     version : 0..MaxVersion]]
      BY <2>1, <2>2 DEF UpdateProduct, TypeOK, Versions
    <2>4. {ProductUpserted(p, v)} \in SUBSET Events
      BY <2>2, EventNames
    <2>5. QED
      BY <2>1, <2>3, <2>4, WriteTypes DEF UpdateProduct, TypeOK
  <1>4. CASE \E p \in Products : DeleteProduct(p)
    <2>1. PICK p \in Products : DeleteProduct(p)
      BY <1>4
    <2> DEFINE s == StoreOf[p]
               v == product[p].version + 1
    <2>2. s \in Stores /\ store[s] + 1 \in 1..MaxStoreVersion /\ v \in Versions
      BY <2>1 DEF DeleteProduct, TypeOK, Versions
    <2>3. store' \in [Stores -> 0..MaxStoreVersion]
      BY <2>1, <2>2 DEF DeleteProduct, TypeOK
    <2>4. product' \in [Products -> [state : {"none", "live", "deleted"},
                                     version : 0..MaxVersion]]
      BY <2>1, <2>2 DEF DeleteProduct, TypeOK, Versions
    <2>5. {ProductDeleted(p, v), StoreUpserted(s, store[s] + 1)} \in SUBSET Events
      BY <2>2, EventNames
    <2>6. QED
      BY <2>1, <2>3, <2>4, <2>5, WriteTypes DEF DeleteProduct
  <1>5. QED
    BY <1>1, <1>2, <1>3, <1>4 DEF Produce

(* The stock row a product gets is a row. *)
LEMMA PendingRow ==
  ASSUME TypeOK, NEW p \in Products
  PROVE  WithPending(p) \in [stock : Nat, version : Nat] /\ WithPending(p) # None
  <1> DEFINE row == IF inv[p] = None THEN [stock |-> 0, version |-> 0] ELSE inv[p]
  <1>1. row \in [stock : Nat, version : Nat]
    BY DEF TypeOK
  <1>2. CASE pending[p] # None /\ pending[p].seller = SellerOf[StoreOf[p]]
    <2>1. pending[p].stock \in Nat
      BY <1>2 DEF TypeOK
    <2>2. QED
      BY <1>1, <1>2, <2>1, ReplicaAssumption DEF WithPending
  <1>3. CASE ~(pending[p] # None /\ pending[p].seller = SellerOf[StoreOf[p]])
    BY <1>1, <1>3, ReplicaAssumption DEF WithPending
  <1>4. QED
    BY <1>2, <1>3

(* What the handlers write. *)
LEMMA HandleTypes ==
  ASSUME TypeOK, NEW m, m.event \in Events, Handle(m)
  PROVE  /\ storeRef' \in [Stores -> 0..MaxStoreVersion]
         /\ ref' \in [Products -> [version : 0..MaxVersion, deleted : BOOLEAN]]
         /\ inv' \in [Products -> [stock : Nat, version : Nat] \cup {None}]
         /\ pending' \in [Products -> [seller : Sellers, stock : Nat] \cup {None}]
         /\ UNCHANGED <<store, product, lock, setter>>
  <1> DEFINE e == m.event
  <1> USE ReplicaAssumption
  <1>1. UNCHANGED <<store, product, lock, setter>>
    BY DEF Handle, catalog
  <1>2. CASE HandleStoreUpserted(m)
    <2>1. e.id \in Stores /\ e.version \in 1..MaxStoreVersion
      BY <1>2, EventFields DEF HandleStoreUpserted
    <2>2. QED
      BY <1>1, <1>2, <2>1 DEF HandleStoreUpserted, TypeOK, Newer
  <1>3. CASE HandleProductUpserted(m)
    <2>1. e.id \in Products /\ e.version \in Versions
      BY <1>3, EventFields DEF HandleProductUpserted
    <2>2. WithPending(e.id) \in [stock : Nat, version : Nat]
      BY <2>1, PendingRow
    <2>3. ref' \in [Products -> [version : 0..MaxVersion, deleted : BOOLEAN]]
      <3>1. [ref[e.id] EXCEPT !.version = e.version] \in [version : 0..MaxVersion, deleted : BOOLEAN]
        <4>1. ref[e.id] \in [version : 0..MaxVersion, deleted : BOOLEAN]
          BY <2>1 DEF TypeOK
        <4>2. e.version \in 0..MaxVersion
          BY <2>1 DEF Versions
        <4>3. QED
          BY <4>1, <4>2
      <3>2. \/ ref' = ref
            \/ ref' = [ref EXCEPT ![e.id] = [ref[e.id] EXCEPT !.version = e.version]]
        BY <1>3 DEF HandleProductUpserted
      <3>3. QED
        BY <3>1, <3>2, SMTT(30) DEF TypeOK
    <2>4. inv' \in [Products -> [stock : Nat, version : Nat] \cup {None}]
      BY <1>3, <2>1, <2>2, SMTT(30) DEF HandleProductUpserted, TypeOK
    <2>5. pending' \in [Products -> [seller : Sellers, stock : Nat] \cup {None}]
      BY <1>3, <2>1 DEF HandleProductUpserted, TypeOK
    <2>6. QED
      BY <1>1, <1>3, <2>3, <2>4, <2>5 DEF HandleProductUpserted, TypeOK
  <1>4. CASE HandleProductDeleted(m)
    <2>1. e.id \in Products /\ e.version \in Versions
      BY <1>4, EventFields DEF HandleProductDeleted
    <2>2. ref' \in [Products -> [version : 0..MaxVersion, deleted : BOOLEAN]]
      <3>1. [version |-> e.version, deleted |-> TRUE] \in [version : 0..MaxVersion, deleted : BOOLEAN]
        BY <2>1 DEF Versions
      <3>2. \/ ref' = ref
            \/ ref' = [ref EXCEPT ![e.id] = [version |-> e.version, deleted |-> TRUE]]
        BY <1>4 DEF HandleProductDeleted
      <3>3. QED
        BY <3>1, <3>2 DEF TypeOK
    <2>3. QED
      BY <1>1, <1>4, <2>1, <2>2 DEF HandleProductDeleted, TypeOK
  <1>5. QED
    BY <1>2, <1>3, <1>4 DEF Handle

(* A delivery keeps the types, whether it is handled or not. *)
LEMMA DeliverTypes ==
  ASSUME TypeOK, NEW m \in queue, Deliver(m)
  PROVE  TypeOK'
  <1>1. m.event \in Events
    BY DEF TypeOK, BusTypeOK, Message
  <1>2. BusTypeOK'
    BY QueueTypes DEF Deliver, TypeOK
  <1>3. CASE Handle(m)
    BY <1>1, <1>2, <1>3, HandleTypes DEF TypeOK
  <1>4. CASE UNCHANGED <<catalog, replica, lock, setter>>
    BY <1>2, <1>4 DEF TypeOK, catalog, replica
  <1>5. QED
    BY <1>3, <1>4 DEF Deliver

(* So does a setStock request. *)
LEMMA SetStockTypes ==
  ASSUME TypeOK, NEW x \in Setters, SetStock(x)
  PROVE  TypeOK'
  <1> USE ReplicaAssumption
  <1>1. CASE \E who \in Sellers, p \in Products, n \in Levels : SetStockRead(x, who, p, n)
    <2>1. PICK who \in Sellers, p \in Products, n \in Levels : SetStockRead(x, who, p, n)
      BY <1>1
    <2>2. [seller |-> who, product |-> p, stock |-> n, found |-> ref[p].version > 0]
            \in [seller : Sellers, product : Products, stock : Nat, found : BOOLEAN]
      OBVIOUS
    <2>3. lock' \in [Products -> Setters \cup {None}]
      BY <2>1 DEF SetStockRead, TypeOK
    <2>4. setter' \in [Setters -> [seller : Sellers, product : Products, stock : Nat,
                                   found : BOOLEAN] \cup {None}]
      BY <2>1, <2>2 DEF SetStockRead, TypeOK
    <2>5. QED
      BY <2>1, <2>3, <2>4 DEF SetStockRead, TypeOK, BusTypeOK, bus, catalog, replica
  <1>2. CASE SetStockWrite(x)
    <2> DEFINE l == setter[x]
               p == l.product
               row == IF inv[p] = None THEN [stock |-> l.stock, version |-> 1]
                      ELSE [stock |-> l.stock, version |-> inv[p].version + 1]
    <2>1. l \in [seller : Sellers, product : Products, stock : Nat, found : BOOLEAN]
      BY <1>2 DEF SetStockWrite, TypeOK
    <2>2. row \in [stock : Nat, version : Nat]
      BY <2>1 DEF TypeOK
    <2>3. inv' \in [Products -> [stock : Nat, version : Nat] \cup {None}]
      <3>1. inv' = inv \/ inv' = [inv EXCEPT ![p] = row]
        BY <1>2 DEF SetStockWrite
      <3>2. QED
        BY <2>2, <3>1 DEF TypeOK
    <2>4. pending' \in [Products -> [seller : Sellers, stock : Nat] \cup {None}]
      BY <1>2, <2>1 DEF SetStockWrite, TypeOK
    <2>5. lock' \in [Products -> Setters \cup {None}]
      BY <1>2 DEF SetStockWrite, TypeOK
    <2>6. setter' \in [Setters -> [seller : Sellers, product : Products, stock : Nat,
                                   found : BOOLEAN] \cup {None}]
      BY <1>2 DEF SetStockWrite, TypeOK
    <2>7. QED
      BY <1>2, <2>3, <2>4, <2>5, <2>6 DEF SetStockWrite, TypeOK, BusTypeOK, bus, catalog
  <1>3. CASE SetStockAbort(x)
    BY <1>3 DEF SetStockAbort, TypeOK, BusTypeOK, bus, catalog, replica
  <1>4. QED
    BY <1>1, <1>2, <1>3 DEF SetStock

(* The type invariant is inductive. *)
LEMMA TypesKept == TypeOK /\ [Next]_vars => TypeOK'
  <1> SUFFICES ASSUME TypeOK, [Next]_vars PROVE TypeOK'
    OBVIOUS
  <1>1. ASSUME NEW r \in Relays, Relay(r) PROVE TypeOK'
    <2>1. BusTypeOK'
      BY <1>1, RelayTypes DEF Relay, TypeOK
    <2>2. QED
      BY <1>1, <2>1 DEF Relay, TypeOK, catalog, replica
  <1>2. CASE UNCHANGED vars
    BY <1>2 DEF vars, bus, catalog, replica, TypeOK, BusTypeOK
  <1>3. QED
    BY <1>1, <1>2, ProduceTypes, DeliverTypes, SetStockTypes DEF Next

(* Catalog's versions and the replica's only grow, and what is deleted     *)
(* stays deleted.                                                          *)
Grows ==
  /\ \A s \in Stores : store'[s] >= store[s] /\ storeRef'[s] >= storeRef[s]
  /\ \A p \in Products : /\ product'[p].version >= product[p].version
                         /\ product[p].state = "deleted" => product'[p].state = "deleted"
                         /\ ref'[p].version >= ref[p].version
                         /\ ref[p].deleted => ref'[p].deleted

(* The handlers take the replica forward only. *)
LEMMA HandleGrows ==
  ASSUME TypeOK, NEW m, m.event \in Events, Handle(m)
  PROVE  Grows
  <1> DEFINE e == m.event
  <1>1. UNCHANGED <<store, product>>
    BY DEF Handle, catalog
  <1>2. CASE HandleStoreUpserted(m)
    <2>1. e.id \in Stores /\ e.version \in 1..MaxStoreVersion
      BY <1>2, EventFields DEF HandleStoreUpserted
    <2>2. QED
      BY <1>1, <1>2, <2>1, ReplicaAssumption DEF HandleStoreUpserted, TypeOK, Newer, Grows
  <1>3. CASE HandleProductUpserted(m)
    <2>1. e.id \in Products /\ e.version \in Versions
      BY <1>3, EventFields DEF HandleProductUpserted
    <2>2. \/ ref' = ref
          \/ /\ ref[e.id].version < e.version
             /\ ref' = [ref EXCEPT ![e.id] = [ref[e.id] EXCEPT !.version = e.version]]
      BY <1>3 DEF HandleProductUpserted, Newer
    <2>3. ASSUME NEW p \in Products
          PROVE  ref'[p].version >= ref[p].version /\ (ref[p].deleted => ref'[p].deleted)
      <3>1. /\ ref[p].version \in Nat /\ e.version \in Nat
            /\ ref \in [Products -> [version : 0..MaxVersion, deleted : BOOLEAN]]
        BY <2>1, ReplicaAssumption DEF TypeOK, Versions
      <3>2. CASE ref' = ref
        BY <3>1, <3>2
      <3>3. CASE p = e.id /\ ref[e.id].version < e.version
                 /\ ref' = [ref EXCEPT ![e.id] = [ref[e.id] EXCEPT !.version = e.version]]
        BY <3>1, <3>3
      <3>4. CASE p # e.id
                 /\ ref' = [ref EXCEPT ![e.id] = [ref[e.id] EXCEPT !.version = e.version]]
        BY <3>1, <3>4
      <3>5. QED
        BY <2>2, <3>2, <3>3, <3>4
    <2>4. QED
      BY <1>1, <1>3, <2>3, ReplicaAssumption DEF HandleProductUpserted, Grows, TypeOK
  <1>4. CASE HandleProductDeleted(m)
    <2>1. e.id \in Products /\ e.version \in Versions
      BY <1>4, EventFields DEF HandleProductDeleted
    <2>2. \/ ref' = ref
          \/ /\ ref[e.id].version \in 1..(e.version - 1)
             /\ ref' = [ref EXCEPT ![e.id] = [version |-> e.version, deleted |-> TRUE]]
      BY <1>4 DEF HandleProductDeleted
    <2>3. ASSUME NEW p \in Products
          PROVE  ref'[p].version >= ref[p].version /\ (ref[p].deleted => ref'[p].deleted)
      <3>1. /\ ref[p].version \in Nat /\ e.version \in Nat
            /\ ref \in [Products -> [version : 0..MaxVersion, deleted : BOOLEAN]]
        BY <2>1, ReplicaAssumption DEF TypeOK, Versions
      <3>2. CASE ref' = ref
        BY <3>1, <3>2
      <3>3. CASE p = e.id /\ ref[e.id].version \in 1..(e.version - 1)
                 /\ ref' = [ref EXCEPT ![e.id] = [version |-> e.version, deleted |-> TRUE]]
        BY <3>1, <3>3
      <3>4. CASE p # e.id
                 /\ ref' = [ref EXCEPT ![e.id] = [version |-> e.version, deleted |-> TRUE]]
        BY <3>1, <3>4
      <3>5. QED
        BY <2>2, <3>2, <3>3, <3>4
    <2>4. QED
      BY <1>1, <1>4, <2>3, ReplicaAssumption DEF HandleProductDeleted, Grows, TypeOK
  <1>5. QED
    BY <1>2, <1>3, <1>4 DEF Handle

(* Whatever leaves both sides alone. *)
LEMMA StillGrows ==
  ASSUME TypeOK, UNCHANGED <<store, product, storeRef, ref>>
  PROVE  Grows
  BY ReplicaAssumption DEF TypeOK, Grows

(* A product that was never created has no version. *)
FreshInv == \A p \in Products : product[p].state = "none" => product[p].version = 0

(* What an event says of catalog. *)
Known(e) ==
  /\ e.type = "catalog.store.upserted" => e.version <= store[e.id]
  /\ e.type = "catalog.product.upserted" => e.version <= product[e.id].version
  /\ e.type = "catalog.product.deleted" =>
       e.version <= product[e.id].version /\ product[e.id].state = "deleted"

(* A write of catalog moves forward and sends the newest state of whatever *)
(* it changed.                                                             *)
Sends(E) ==
  /\ outbox' = outbox \cup E
  /\ \A s \in Stores : \/ store'[s] = store[s]
                       \/ store'[s] = store[s] + 1 /\ StoreUpserted(s, store'[s]) \in E
  /\ \A p \in Products :
       \/ product'[p] = product[p]
       \/ /\ product'[p].version > product[p].version
          /\ product[p].state # "deleted"
          /\ \/ product'[p].state = "live" /\ ProductUpserted(p, product'[p].version) \in E
             \/ product'[p].state = "deleted"
  /\ \A e \in E : Known(e)'
  /\ UNCHANGED <<batch, queue, parked, replica, lock, setter>>

(* Each of catalog's operations is such a write. *)
LEMMA ProduceSends ==
  ASSUME TypeOK, FreshInv, Produce
  PROVE  \E E \in SUBSET Events : Sends(E)
  <1> USE ReplicaAssumption
  <1>1. CASE \E s \in Stores : CreateStore(s)
    <2>1. PICK s \in Stores : CreateStore(s)
      BY <1>1
    <2> DEFINE E == {StoreUpserted(s, 1)}
    <2>2. E \in SUBSET Events
      BY EventNames
    <2>3. store' = [store EXCEPT ![s] = 1] /\ store[s] = 0 /\ product' = product
      BY <2>1 DEF CreateStore
    <2>4. \A e \in E : Known(e)'
      BY <2>3 DEF Known, StoreUpserted, TypeOK
    <2>5. \A q \in Stores : \/ store'[q] = store[q]
                            \/ store'[q] = store[q] + 1 /\ StoreUpserted(q, store'[q]) \in E
      BY <2>3 DEF TypeOK
    <2>6. Sends(E)
      BY <2>1, <2>3, <2>4, <2>5 DEF Sends, CreateStore, CatalogWrite, Enqueue
    <2>7. QED
      BY <2>2, <2>6
  <1>2. CASE \E p \in Products : CreateProduct(p)
    <2>1. PICK p \in Products : CreateProduct(p)
      BY <1>2
    <2> DEFINE s == StoreOf[p]
               E == {ProductUpserted(p, 1), StoreUpserted(s, store[s] + 1)}
    <2>2. /\ s \in Stores /\ store[s] + 1 \in 1..MaxStoreVersion
          /\ product[p].state = "none" /\ product[p].version = 0
      BY <2>1 DEF CreateProduct, TypeOK, FreshInv
    <2>3. /\ store' = [store EXCEPT ![s] = store[s] + 1]
          /\ product' = [product EXCEPT ![p] = [state |-> "live", version |-> 1]]
      BY <2>1 DEF CreateProduct
    <2>4. E \in SUBSET Events
      BY <2>2, EventNames DEF Versions
    <2>5. \A e \in E : Known(e)'
      BY <2>2, <2>3 DEF Known, StoreUpserted, ProductUpserted, TypeOK
    <2>6. \A q \in Stores : \/ store'[q] = store[q]
                            \/ store'[q] = store[q] + 1 /\ StoreUpserted(q, store'[q]) \in E
      BY <2>3 DEF TypeOK
    <2>7. \A q \in Products :
            \/ product'[q] = product[q]
            \/ /\ product'[q].version > product[q].version
               /\ product[q].state # "deleted"
               /\ product'[q].state = "live" /\ ProductUpserted(q, product'[q].version) \in E
      BY <2>2, <2>3 DEF TypeOK
    <2>8. Sends(E)
      BY <2>1, <2>5, <2>6, <2>7 DEF Sends, CreateProduct, CatalogWrite, Enqueue
    <2>9. QED
      BY <2>4, <2>8
  <1>3. CASE \E p \in Products : UpdateProduct(p)
    <2>1. PICK p \in Products : UpdateProduct(p)
      BY <1>3
    <2> DEFINE v == product[p].version + 1
               E == {ProductUpserted(p, v)}
    <2>2. v \in Versions /\ product[p].state = "live" /\ store' = store
      BY <2>1 DEF UpdateProduct, TypeOK, Versions
    <2>3. product' = [product EXCEPT ![p] = [product[p] EXCEPT !.version = v]]
      BY <2>1 DEF UpdateProduct
    <2>4. E \in SUBSET Events
      BY <2>2, EventNames
    <2>5. \A e \in E : Known(e)'
      BY <2>2, <2>3 DEF Known, ProductUpserted, TypeOK
    <2>6. \A q \in Products :
            \/ product'[q] = product[q]
            \/ /\ product'[q].version > product[q].version
               /\ product[q].state # "deleted"
               /\ product'[q].state = "live" /\ ProductUpserted(q, product'[q].version) \in E
      BY <2>2, <2>3 DEF TypeOK
    <2>7. Sends(E)
      BY <2>1, <2>2, <2>5, <2>6 DEF Sends, UpdateProduct, CatalogWrite, Enqueue
    <2>8. QED
      BY <2>4, <2>7
  <1>4. CASE \E p \in Products : DeleteProduct(p)
    <2>1. PICK p \in Products : DeleteProduct(p)
      BY <1>4
    <2> DEFINE s == StoreOf[p]
               v == product[p].version + 1
               E == {ProductDeleted(p, v), StoreUpserted(s, store[s] + 1)}
    <2>2. /\ s \in Stores /\ store[s] + 1 \in 1..MaxStoreVersion
          /\ v \in Versions /\ product[p].state = "live"
      BY <2>1 DEF DeleteProduct, TypeOK, Versions
    <2>3. /\ store' = [store EXCEPT ![s] = store[s] + 1]
          /\ product' = [product EXCEPT ![p] = [state |-> "deleted", version |-> v]]
      BY <2>1 DEF DeleteProduct
    <2>4. E \in SUBSET Events
      BY <2>2, EventNames
    <2>5. \A e \in E : Known(e)'
      BY <2>2, <2>3 DEF Known, StoreUpserted, ProductDeleted, TypeOK
    <2>6. \A q \in Stores : \/ store'[q] = store[q]
                            \/ store'[q] = store[q] + 1 /\ StoreUpserted(q, store'[q]) \in E
      BY <2>3 DEF TypeOK
    <2>7. \A q \in Products :
            \/ product'[q] = product[q]
            \/ /\ product'[q].version > product[q].version
               /\ product[q].state # "deleted"
               /\ product'[q].state = "deleted"
      BY <2>2, <2>3 DEF TypeOK
    <2>8. Sends(E)
      BY <2>1, <2>5, <2>6, <2>7 DEF Sends, DeleteProduct, CatalogWrite, Enqueue
    <2>9. QED
      BY <2>4, <2>8
  <1>5. QED
    BY <1>1, <1>2, <1>3, <1>4 DEF Produce

(* No step takes a version back. *)
LEMMA StepGrows == TypeOK /\ FreshInv /\ [Next]_vars => Grows
  <1> SUFFICES ASSUME TypeOK, FreshInv, [Next]_vars PROVE Grows
    OBVIOUS
  <1>1. CASE \E r \in Relays : Relay(r)
    BY <1>1, StillGrows DEF Relay, catalog, replica
  <1>2. CASE \E m \in queue : Deliver(m)
    <2>1. PICK m \in queue : Deliver(m)
      BY <1>2
    <2>2. m.event \in Events
      BY DEF TypeOK, BusTypeOK, Message
    <2>3. Handle(m) \/ UNCHANGED <<catalog, replica>>
      BY <2>1 DEF Deliver
    <2>4. QED
      BY <2>2, <2>3, HandleGrows, StillGrows DEF catalog, replica
  <1>3. CASE \E x \in Setters : SetStock(x)
    BY <1>3, StillGrows DEF SetStock, SetStockRead, SetStockWrite, SetStockAbort, catalog, replica
  <1>4. CASE UNCHANGED vars
    BY <1>4, StillGrows DEF vars, catalog, replica
  <1>5. CASE Produce
    <2>1. PICK E \in SUBSET Events : Sends(E)
      BY <1>5, ProduceSends
    <2>2. UNCHANGED <<storeRef, ref>>
      BY <2>1 DEF Sends, replica
    <2>3. ASSUME NEW s \in Stores
          PROVE  store'[s] >= store[s] /\ storeRef'[s] >= storeRef[s]
      <3>1. store'[s] = store[s] \/ store'[s] = store[s] + 1
        BY <2>1 DEF Sends
      <3>2. store[s] \in Nat /\ storeRef[s] \in Nat
        BY DEF TypeOK
      <3>3. QED
        BY <2>2, <3>1, <3>2
    <2>4. ASSUME NEW p \in Products
          PROVE  /\ product'[p].version >= product[p].version
                 /\ product[p].state = "deleted" => product'[p].state = "deleted"
                 /\ ref'[p].version >= ref[p].version
                 /\ ref[p].deleted => ref'[p].deleted
      <3>1. \/ product'[p] = product[p]
            \/ product'[p].version > product[p].version /\ product[p].state # "deleted"
        BY <2>1 DEF Sends
      <3>2. product[p].version \in Nat /\ ref[p].version \in Nat
        BY DEF TypeOK
      <3>3. product'[p].version \in Nat
        BY <2>1, TypesKept, <1>5 DEF TypeOK, Next
      <3>4. QED
        BY <2>2, <3>1, <3>2, <3>3
    <2>5. QED
      BY <2>3, <2>4 DEF Grows
  <1>6. QED
    BY <1>1, <1>2, <1>3, <1>4, <1>5 DEF Next

(* Creating a product gives it its first version. *)
LEMMA FreshKept == TypeOK /\ FreshInv /\ [Next]_vars => FreshInv'
  <1> SUFFICES ASSUME TypeOK, FreshInv, [Next]_vars PROVE FreshInv'
    OBVIOUS
  <1>1. CASE Produce
    BY <1>1, ProduceSends DEF Sends, FreshInv
  <1>2. CASE product' = product
    BY <1>2 DEF FreshInv
  <1>3. QED
    BY <1>1, <1>2 DEF Next, vars, catalog, Relay, Deliver, Handle, SetStock, SetStockRead,
       SetStockWrite, SetStockAbort

-----------------------------------------------------------------------------
(* The advisory lock *)

(* A request holds the lock of its product, and one that found no product  *)
(* is right about it until it ends.                                        *)
LockInv ==
  \A x \in Setters : setter[x] # None =>
    /\ lock[setter[x].product] = x
    /\ ~setter[x].found => ref[setter[x].product].version = 0

(* Requests begin only when nobody holds the lock, and a product's row     *)
(* appears only then.                                                      *)
LEMMA LockKept == TypeOK /\ LockInv /\ [Next]_vars => LockInv'
  <1> SUFFICES ASSUME TypeOK, LockInv, [Next]_vars,
                      NEW y \in Setters, setter'[y] # None
               PROVE  /\ lock'[setter'[y].product] = y
                      /\ ~setter'[y].found => ref'[setter'[y].product].version = 0
    BY DEF LockInv
  <1> USE ReplicaAssumption
  <1>1. CASE \E m \in queue : Deliver(m) /\ Handle(m)
    <2>1. PICK m \in queue : Handle(m)
      BY <1>1
    <2> DEFINE e == m.event
               q == setter[y].product
    <2>2. /\ setter[y] # None /\ lock[q] = y /\ q \in Products
          /\ UNCHANGED <<lock, setter>>
      BY <2>1 DEF Handle, LockInv, TypeOK
    <2>3. e \in Events
      BY DEF TypeOK, BusTypeOK, Message
    <2>4. CASE HandleStoreUpserted(m)
      BY <2>2, <2>4 DEF HandleStoreUpserted, LockInv
    <2>5. CASE HandleProductUpserted(m)
      <3>1. e.id # q /\ e.id \in Products
        BY <2>2, <2>3, <2>5, EventFields DEF HandleProductUpserted, Unlocked
      <3>2. ref'[q] = ref[q]
        BY <2>2, <2>5, <3>1 DEF HandleProductUpserted, TypeOK
      <3>3. QED
        BY <2>2, <3>2 DEF LockInv
    <2>6. CASE HandleProductDeleted(m)
      <3>1. e.id \in Products /\ e.version \in Nat
        BY <2>3, <2>6, EventFields DEF HandleProductDeleted, Versions
      <3>2. ref[q].version = 0 => ref'[q] = ref[q]
        BY <2>2, <2>6, <3>1 DEF HandleProductDeleted, TypeOK
      <3>3. QED
        BY <2>2, <3>2 DEF LockInv
    <2>7. QED
      BY <2>1, <2>4, <2>5, <2>6 DEF Handle
  <1>2. CASE \E x \in Setters : SetStock(x)
    <2>1. PICK x \in Setters : SetStock(x)
      BY <1>2
    <2>2. CASE \E who \in Sellers, p \in Products, n \in Levels : SetStockRead(x, who, p, n)
      <3>1. PICK who \in Sellers, p \in Products, n \in Levels : SetStockRead(x, who, p, n)
        BY <2>2
      <3>2. CASE y = x
        <4>1. /\ setter'[y].product = p /\ (setter'[y].found <=> ref[p].version > 0)
              /\ lock'[p] = y /\ ref' = ref
          BY <3>1, <3>2 DEF SetStockRead, TypeOK, replica
        <4>2. ref[p].version \in Nat
          BY DEF TypeOK
        <4>3. QED
          BY <4>1, <4>2
      <3>3. CASE y # x
        <4>1. setter'[y] = setter[y] /\ ref' = ref /\ lock[p] = None
          BY <3>1, <3>3 DEF SetStockRead, TypeOK, replica
        <4>2. /\ lock[setter[y].product] = y /\ setter[y].product # p
              /\ setter[y].product \in Products
          BY <4>1 DEF LockInv, TypeOK
        <4>3. lock'[setter[y].product] = y
          BY <3>1, <4>2 DEF SetStockRead, TypeOK
        <4>4. QED
          BY <4>1, <4>3 DEF LockInv
      <3>4. QED
        BY <3>2, <3>3
    <2>3. CASE SetStockWrite(x) \/ SetStockAbort(x)
      <3> DEFINE p == setter[x].product
      <3>1. /\ setter[x] # None /\ lock' = [lock EXCEPT ![p] = None]
            /\ setter' = [setter EXCEPT ![x] = None] /\ ref' = ref
        BY <2>3 DEF SetStockWrite, SetStockAbort, replica
      <3>2. y # x /\ setter'[y] = setter[y]
        BY <3>1 DEF TypeOK
      <3>3. lock[p] = x /\ lock[setter[y].product] = y /\ setter[y].product \in Products
        BY <3>1, <3>2 DEF LockInv, TypeOK
      <3>4. lock'[setter[y].product] = y
        BY <3>1, <3>2, <3>3 DEF TypeOK
      <3>5. QED
        BY <3>1, <3>2, <3>4 DEF LockInv
    <2>4. QED
      BY <2>1, <2>2, <2>3 DEF SetStock
  <1>3. CASE UNCHANGED <<lock, setter, ref>>
    BY <1>3 DEF LockInv
  <1>4. QED
    BY <1>1, <1>2, <1>3 DEF Next, vars, replica, Produce, CreateStore, CreateProduct,
       UpdateProduct, DeleteProduct, CatalogWrite, Relay, Deliver

(* A product without a row cannot have been deleted, and what is parked in *)
(* pending_stock belongs to a product without a row.                       *)
StockInv ==
  /\ PendingStockNotStranded
  /\ \A p \in Products : /\ ref[p].deleted => ref[p].version > 0
                         /\ ref[p].version > 0 /\ ~ref[p].deleted => inv[p] # None

(* The upsert of a product takes its pending stock along, a deletion drops *)
(* it, and a request that found no row is right when it writes.            *)
LEMMA StockKept == TypeOK /\ LockInv /\ StockInv /\ [Next]_vars => StockInv'
  <1> SUFFICES ASSUME TypeOK, LockInv, StockInv, [Next]_vars, NEW q \in Products
               PROVE  /\ pending'[q] # None => ref'[q].version = 0
                      /\ ref'[q].deleted => ref'[q].version > 0
                      /\ ref'[q].version > 0 /\ ~ref'[q].deleted => inv'[q] # None
    BY DEF StockInv, PendingStockNotStranded
  <1> USE ReplicaAssumption
  <1>1. CASE UNCHANGED <<ref, inv, pending>>
    BY <1>1 DEF StockInv, PendingStockNotStranded
  <1>2. CASE \E m \in queue : Handle(m)
    <2>1. PICK m \in queue : Handle(m)
      BY <1>2
    <2> DEFINE e == m.event
    <2>2. e \in Events
      BY DEF TypeOK, BusTypeOK, Message
    <2>3. CASE HandleStoreUpserted(m)
      BY <1>1, <2>3 DEF HandleStoreUpserted
    <2>4. CASE HandleProductUpserted(m)
      <3>1. e.id \in Products /\ e.version \in Nat \ {0}
        BY <2>2, <2>4, EventFields DEF HandleProductUpserted, Versions
      <3>2. WithPending(e.id) # None
        BY <3>1, PendingRow
      <3>3. CASE q # e.id
        <4>1. ref'[q] = ref[q] /\ inv'[q] = inv[q] /\ pending'[q] = pending[q]
          BY <2>4, <3>3 DEF HandleProductUpserted, TypeOK
        <4>2. QED
          BY <4>1 DEF StockInv, PendingStockNotStranded
      <3>4. CASE q = e.id /\ Newer(ref[q].version, e.version)
        <4>1. ref'[q].version = e.version /\ ref'[q].deleted = ref[q].deleted
          BY <2>4, <3>4, SMTT(30) DEF HandleProductUpserted, TypeOK
        <4>2. CASE ref[q].deleted
          BY <2>4, <3>1, <3>4, <4>1, <4>2, SMTT(30)
          DEF HandleProductUpserted, StockInv, PendingStockNotStranded
        <4>3. CASE ~ref[q].deleted
          BY <2>4, <3>1, <3>2, <3>4, <4>1, <4>3 DEF HandleProductUpserted, TypeOK
        <4>4. QED
          BY <4>2, <4>3
      <3>5. CASE q = e.id /\ ~Newer(ref[q].version, e.version)
        BY <1>1, <2>4, <3>5 DEF HandleProductUpserted
      <3>6. QED
        BY <3>3, <3>4, <3>5
    <2>5. CASE HandleProductDeleted(m)
      <3>1. e.id \in Products /\ e.version \in Nat \ {0}
        BY <2>2, <2>5, EventFields DEF HandleProductDeleted, Versions
      <3>2. CASE ref[e.id].version \in 1..(e.version - 1)
        <4>1. /\ ref' = [ref EXCEPT ![e.id] = [version |-> e.version, deleted |-> TRUE]]
              /\ inv' = [inv EXCEPT ![e.id] = None]
              /\ pending' = [pending EXCEPT ![e.id] = None]
          BY <2>5, <3>2 DEF HandleProductDeleted
        <4>2. CASE q = e.id
          BY <3>1, <4>1, <4>2 DEF TypeOK
        <4>3. CASE q # e.id
          BY <4>1, <4>3 DEF TypeOK, StockInv, PendingStockNotStranded
        <4>4. QED
          BY <4>2, <4>3
      <3>3. CASE ~(ref[e.id].version \in 1..(e.version - 1))
        BY <1>1, <2>5, <3>3 DEF HandleProductDeleted
      <3>4. QED
        BY <3>2, <3>3
    <2>6. QED
      BY <2>1, <2>3, <2>4, <2>5 DEF Handle
  <1>3. CASE \E x \in Setters : SetStockWrite(x)
    <2>1. PICK x \in Setters : SetStockWrite(x)
      BY <1>3
    <2> DEFINE l == setter[x]
               p == l.product
               row == IF inv[p] = None THEN [stock |-> l.stock, version |-> 1]
                      ELSE [stock |-> l.stock, version |-> inv[p].version + 1]
    <2>2. /\ l \in [seller : Sellers, product : Products, stock : Nat, found : BOOLEAN]
          /\ ~l.found => ref[p].version = 0
          /\ ref' = ref
      BY <2>1 DEF SetStockWrite, TypeOK, LockInv
    <2>3. row \in [stock : Nat, version : Nat]
      BY <2>2 DEF TypeOK
    <2>4. CASE l.found
      <3>1. inv' = [inv EXCEPT ![p] = row] /\ pending' = pending
        BY <2>1, <2>4 DEF SetStockWrite
      <3>2. inv'[q] = inv[q] \/ inv'[q] # None
        BY <2>3, <3>1 DEF TypeOK
      <3>3. QED
        BY <2>2, <3>1, <3>2 DEF StockInv, PendingStockNotStranded
    <2>5. CASE ~l.found
      <3>1. inv' = inv /\ (q # p => pending'[q] = pending[q])
        BY <2>1, <2>5 DEF SetStockWrite, TypeOK
      <3>2. QED
        BY <2>2, <2>5, <3>1 DEF StockInv, PendingStockNotStranded
    <2>6. QED
      BY <2>4, <2>5
  <1>4. QED
    BY <1>1, <1>2, <1>3 DEF Next, vars, replica, Produce, CreateStore, CreateProduct,
       UpdateProduct, DeleteProduct, CatalogWrite, Relay, Deliver, SetStock, SetStockRead,
       SetStockAbort

-----------------------------------------------------------------------------
(* Nothing the outbox held is forgotten *)

InFlight(e) == \E m \in queue : m.event = e

(* The replica is not older than an upsert says. *)
Applied(e) ==
  /\ e.type = "catalog.store.upserted" => storeRef[e.id] >= e.version
  /\ e.type = "catalog.product.upserted" => ref[e.id].version >= e.version

Settled(e) == InFlight(e) \/ e \in parked \/ Applied(e)
Sent(e)    == e \in outbox \/ Settled(e)

(* What travels is true of catalog. *)
KnownInv == \A e \in Events : e \in outbox \/ InFlight(e) => Known(e)

(* A relay marks only what it published. *)
BatchInv == \A r \in Relays : \A e \in batch[r] : Settled(e)

(* Versions only grow: an upsert once applied stays so, and what an event  *)
(* says of catalog stays true.                                             *)
LEMMA StaysTrue ==
  ASSUME TypeOK, TypeOK', Grows, NEW e \in Events
  PROVE  /\ Applied(e) => Applied(e)'
         /\ Known(e) => Known(e)'
  <1> USE ReplicaAssumption
  <1>1. CASE e.type = "catalog.store.upserted"
    <2>1. e.id \in Stores /\ e.version \in Nat
      BY <1>1, EventFields
    <2>2. /\ store[e.id] \in Nat /\ store'[e.id] \in Nat
          /\ storeRef[e.id] \in Nat /\ storeRef'[e.id] \in Nat
      BY <2>1 DEF TypeOK
    <2>3. store'[e.id] >= store[e.id] /\ storeRef'[e.id] >= storeRef[e.id]
      BY <2>1 DEF Grows
    <2>4. QED
      BY <1>1, <2>1, <2>2, <2>3 DEF Applied, Known
  <1>2. CASE e.type # "catalog.store.upserted"
    <2>1. e.id \in Products /\ e.version \in Nat
      BY <1>2, EventFields DEF Versions
    <2>2. /\ product[e.id].version \in Nat /\ product'[e.id].version \in Nat
          /\ ref[e.id].version \in Nat /\ ref'[e.id].version \in Nat
      BY <2>1 DEF TypeOK
    <2>3. /\ product'[e.id].version >= product[e.id].version
          /\ ref'[e.id].version >= ref[e.id].version
          /\ product[e.id].state = "deleted" => product'[e.id].state = "deleted"
      BY <2>1 DEF Grows
    <2>4. QED
      BY <1>2, <2>1, <2>2, <2>3 DEF Applied, Known
  <1>3. QED
    BY <1>1, <1>2

(* A handler applies its event. *)
LEMMA HandleApplies ==
  ASSUME TypeOK, NEW m, m.event \in Events, Handle(m)
  PROVE  Applied(m.event)'
  <1> DEFINE e == m.event
  <1> USE ReplicaAssumption
  <1>1. CASE HandleStoreUpserted(m)
    <2>1. e.id \in Stores /\ e.version \in Nat /\ storeRef[e.id] \in Nat
      BY <1>1, EventFields DEF HandleStoreUpserted, TypeOK
    <2>2. storeRef'[e.id] >= e.version
      BY <1>1, <2>1 DEF HandleStoreUpserted, Newer, TypeOK
    <2>3. QED
      BY <1>1, <2>2 DEF HandleStoreUpserted, Applied
  <1>2. CASE HandleProductUpserted(m)
    <2>1. e.id \in Products /\ e.version \in Nat /\ ref[e.id].version \in Nat
      BY <1>2, EventFields DEF HandleProductUpserted, TypeOK, Versions
    <2>2. CASE ref[e.id].version < e.version
      <3>1. ref'[e.id].version = e.version
        BY <1>2, <2>1, <2>2 DEF HandleProductUpserted, Newer, TypeOK
      <3>2. QED
        BY <1>2, <2>1, <3>1 DEF HandleProductUpserted, Applied
    <2>3. CASE ~(ref[e.id].version < e.version)
      BY <1>2, <2>1, <2>3 DEF HandleProductUpserted, Newer, Applied
    <2>4. QED
      BY <2>2, <2>3
  <1>3. CASE HandleProductDeleted(m)
    BY <1>3 DEF HandleProductDeleted, Applied
  <1>4. QED
    BY <1>1, <1>2, <1>3 DEF Handle

(* Publishing puts every event of the outbox on its way. *)
LEMMA Published ==
  ASSUME NEW E, NEW e \in E, queue' = queue \cup Copies(E)
  PROVE  InFlight(e)'
  <1> DEFINE m == [event |-> e, attempt |-> 1]
  <1>1. m \in queue' /\ m.event = e
    BY DEF Copies
  <1>2. QED
    BY <1>1 DEF InFlight

(* An event that is on its way is so until it is applied or parked. *)
LEMMA SettledStays ==
  ASSUME TypeOK, TypeOK', FreshInv, [Next]_vars, NEW e \in Events, Settled(e)
  PROVE  Settled(e)'
  <1>1. CASE Applied(e)
    BY <1>1, StepGrows, StaysTrue DEF Settled
  <1>2. CASE queue \subseteq queue' /\ parked \subseteq parked' /\ ~Applied(e)
    BY <1>2 DEF Settled, InFlight
  <1>3. CASE ~Applied(e) /\ \E m \in queue : Deliver(m)
    <2>1. PICK m \in queue : Deliver(m)
      BY <1>3
    <2>2. m.event \in Events
      BY DEF TypeOK, BusTypeOK, Message
    <2>3. CASE (HandledAcked(m) \/ HandledUnacked(m)) /\ Handle(m)
      <3>1. Applied(m.event)'
        BY <2>2, <2>3, HandleApplies
      <3>2. parked' = parked /\ queue \ {m} \subseteq queue'
        BY <2>3 DEF HandledAcked, HandledUnacked, bus
      <3>3. QED
        BY <1>3, <3>1, <3>2 DEF Settled, InFlight
    <2>4. CASE Failed(m)
      <3>1. queue \ {m} \subseteq queue' /\ parked \subseteq parked'
        BY <2>4 DEF Failed
      <3>2. Settled(m.event)'
        <4>1. CASE RetriesLeft(m)
          <5> DEFINE n == [m EXCEPT !.attempt = @ + 1]
          <5>1. n \in queue' /\ n.event = m.event
            BY <2>4, <4>1 DEF Failed, TypeOK, BusTypeOK, Message
          <5>2. QED
            BY <5>1 DEF Settled, InFlight
        <4>2. CASE ~RetriesLeft(m)
          BY <2>4, <4>2 DEF Failed, Settled
        <4>3. QED
          BY <4>1, <4>2
      <3>3. QED
        BY <1>3, <3>1, <3>2 DEF Settled, InFlight
    <2>5. QED
      BY <2>1, <2>3, <2>4 DEF Deliver
  <1>4. CASE Next /\ ~\E m \in queue : Deliver(m)
    <2>1. queue \subseteq queue' /\ parked \subseteq parked'
      BY <1>4 DEF Next, Produce, CreateStore, CreateProduct, UpdateProduct, DeleteProduct,
         CatalogWrite, Enqueue, Relay, RelayPublish, RelayPublishPart, RelayMark, RelayCrash,
         SetStock, SetStockRead, SetStockWrite, SetStockAbort, bus
    <2>2. QED
      BY <1>1, <1>2, <2>1
  <1>5. CASE UNCHANGED vars
    BY <1>1, <1>2, <1>5 DEF vars, bus
  <1>6. QED
    BY <1>1, <1>3, <1>4, <1>5

(* Only a relay that published an event takes it out of the outbox.        *)
LEMMA SentStays ==
  ASSUME TypeOK, TypeOK', FreshInv, BatchInv, [Next]_vars, NEW e \in Events, Sent(e)
  PROVE  Sent(e)'
  <1>1. CASE Settled(e)
    BY <1>1, SettledStays DEF Sent
  <1>2. CASE outbox \subseteq outbox' /\ e \in outbox
    BY <1>2 DEF Sent
  <1>3. CASE e \in outbox /\ \E r \in Relays : RelayMark(r)
    <2>1. PICK r \in Relays : RelayMark(r)
      BY <1>3
    <2>2. CASE e \in batch[r]
      BY <1>1, <2>2 DEF BatchInv
    <2>3. CASE e \notin batch[r]
      BY <1>3, <2>1, <2>3 DEF RelayMark, Sent
    <2>4. QED
      BY <2>2, <2>3
  <1>4. CASE Next /\ ~\E r \in Relays : RelayMark(r)
    <2>1. outbox \subseteq outbox'
      BY <1>4 DEF Next, Produce, CreateStore, CreateProduct, UpdateProduct, DeleteProduct,
         CatalogWrite, Enqueue, Relay, RelayPublish, RelayPublishPart, RelayCrash,
         Deliver, HandledAcked, HandledUnacked, Failed,
         SetStock, SetStockRead, SetStockWrite, SetStockAbort, bus
    <2>2. QED
      BY <1>1, <1>2, <2>1 DEF Sent
  <1>5. CASE UNCHANGED vars
    BY <1>1, <1>2, <1>5 DEF vars, bus, Sent
  <1>6. QED
    BY <1>1, <1>3, <1>4, <1>5 DEF Sent

(* A relay's batch is what it has just published.                          *)
LEMMA BatchKept == TypeOK /\ FreshInv /\ BatchInv /\ [Next]_vars => BatchInv'
  <1> SUFFICES ASSUME TypeOK, FreshInv, BatchInv, [Next]_vars,
                      NEW q \in Relays, NEW e \in batch'[q]
               PROVE  Settled(e)'
    BY DEF BatchInv
  <1>1. TypeOK'
    BY TypesKept
  <1>2. e \in Events
    BY <1>1 DEF TypeOK, BusTypeOK
  <1>3. CASE e \in batch[q]
    BY <1>1, <1>2, <1>3, SettledStays DEF BatchInv
  <1>4. CASE \E r \in Relays : RelayPublish(r)
    <2>1. PICK r \in Relays : RelayPublish(r)
      BY <1>4
    <2>2. CASE q = r
      <3>1. e \in outbox /\ queue' = queue \cup Copies(outbox)
        BY <2>1, <2>2 DEF RelayPublish, TypeOK, BusTypeOK
      <3>2. QED
        BY <3>1, Published DEF Settled
    <2>3. CASE q # r
      BY <1>3, <2>1, <2>3 DEF RelayPublish, TypeOK, BusTypeOK
    <2>4. QED
      BY <2>2, <2>3
  <1>5. CASE \E r \in Relays : RelayMark(r) \/ RelayCrash(r)
    BY <1>3, <1>5 DEF RelayMark, RelayCrash, TypeOK, BusTypeOK
  <1>6. CASE batch' = batch
    BY <1>3, <1>6
  <1>7. QED
    BY <1>4, <1>5, <1>6 DEF Next, vars, bus, Produce, CreateStore, CreateProduct,
       UpdateProduct, DeleteProduct, CatalogWrite, Enqueue, Relay, RelayPublishPart,
       Deliver, HandledAcked, HandledUnacked, Failed,
       SetStock, SetStockRead, SetStockWrite, SetStockAbort

(* Whatever is published was in the outbox, and what is written to the     *)
(* outbox is true at that moment.                                          *)
LEMMA KnownKept == TypeOK /\ FreshInv /\ KnownInv /\ [Next]_vars => KnownInv'
  <1> SUFFICES ASSUME TypeOK, FreshInv, KnownInv, [Next]_vars,
                      NEW e \in Events, e \in outbox' \/ InFlight(e)'
               PROVE  Known(e)'
    BY DEF KnownInv
  <1>1. TypeOK' /\ Grows
    BY TypesKept, StepGrows
  <1>2. CASE e \in outbox \/ InFlight(e)
    BY <1>1, <1>2, StaysTrue DEF KnownInv
  <1>3. CASE Produce
    <2>1. PICK E \in SUBSET Events : Sends(E)
      BY <1>3, ProduceSends
    <2>2. CASE e \in E
      BY <2>1, <2>2 DEF Sends
    <2>3. CASE e \notin E
      BY <1>2, <2>1, <2>3 DEF Sends, InFlight
    <2>4. QED
      BY <2>2, <2>3
  <1>4. CASE outbox' \subseteq outbox
    <2>1. \A n \in queue' \ queue : n.event \in outbox \/ \E m \in queue : n.event = m.event
      <3>1. CASE \E r \in Relays : Relay(r)
        BY <3>1 DEF Relay, RelayPublish, RelayPublishPart, RelayMark, RelayCrash, Copies
      <3>2. CASE \E m \in queue : Deliver(m)
        <4>1. PICK m \in queue : Deliver(m)
          BY <3>2
        <4>2. [m EXCEPT !.attempt = @ + 1].event = m.event
          BY DEF TypeOK, BusTypeOK, Message
        <4>3. QED
          BY <4>1, <4>2 DEF Deliver, HandledAcked, HandledUnacked, Failed, bus
      <3>3. CASE \E x \in Setters : SetStock(x)
        BY <3>3 DEF SetStock, SetStockRead, SetStockWrite, SetStockAbort, bus
      <3>4. CASE Produce
        BY <3>4, ProduceSends DEF Sends
      <3>5. QED
        BY <3>1, <3>2, <3>3, <3>4 DEF Next, vars, bus
    <2>2. QED
      BY <1>2, <1>4, <2>1 DEF InFlight
  <1>5. QED
    BY <1>3, <1>4 DEF Next, vars, bus, Relay, RelayPublish, RelayPublishPart, RelayMark,
       RelayCrash, Deliver, HandledAcked, HandledUnacked, Failed,
       SetStock, SetStockRead, SetStockWrite, SetStockAbort

-----------------------------------------------------------------------------
(* The two sides *)

(* The replica is never ahead of catalog, and catalog's newest state of    *)
(* every store and every live product has been sent.                       *)
StoreInv ==
  \A s \in Stores : /\ storeRef[s] <= store[s]
                    /\ \A e \in Events : e = StoreUpserted(s, store[s]) => Sent(e)

ProductInv ==
  \A p \in Products :
    /\ ref[p].version <= product[p].version
    /\ ref[p].deleted => product[p].state = "deleted"
    /\ product[p].state = "live" => product[p].version > 0
    /\ \A e \in Events :
         product[p].state = "live" /\ e = ProductUpserted(p, product[p].version) => Sent(e)

(* What a handler writes to the replica is what its event says, and that   *)
(* is true of catalog.                                                     *)
LEMMA NeverAhead ==
  ASSUME TypeOK, NEW m, m.event \in Events, Known(m.event), Handle(m), StoreInv, ProductInv
  PROVE  /\ \A s \in Stores : storeRef'[s] <= store[s]
         /\ \A p \in Products : /\ ref'[p].version <= product[p].version
                                /\ ref'[p].deleted => product[p].state = "deleted"
  <1> DEFINE e == m.event
  <1> USE ReplicaAssumption
  <1>1. CASE HandleStoreUpserted(m)
    <2>1. e.id \in Stores /\ e.version \in Nat /\ e.version <= store[e.id]
      BY <1>1, EventFields DEF HandleStoreUpserted, Known
    <2>2. ASSUME NEW s \in Stores PROVE storeRef'[s] <= store[s]
      BY <1>1, <2>1 DEF HandleStoreUpserted, TypeOK, StoreInv
    <2>3. QED
      BY <1>1, <2>2 DEF HandleStoreUpserted, ProductInv
  <1>2. CASE HandleProductUpserted(m)
    <2>1. e.id \in Products /\ e.version \in Nat /\ e.version <= product[e.id].version
      BY <1>2, EventFields DEF HandleProductUpserted, Known, Versions
    <2>2. ASSUME NEW p \in Products
          PROVE  /\ ref'[p].version <= product[p].version
                 /\ ref'[p].deleted => product[p].state = "deleted"
      <3>1. CASE ref'[p] = ref[p]
        BY <3>1 DEF ProductInv
      <3>2. CASE p = e.id /\ ref' = [ref EXCEPT ![e.id] = [ref[e.id] EXCEPT !.version = e.version]]
        <4>1. ref'[p].version = e.version /\ ref'[p].deleted = ref[p].deleted
          BY <3>2 DEF TypeOK
        <4>2. QED
          BY <2>1, <3>2, <4>1 DEF ProductInv
      <3>3. QED
        BY <1>2, <2>1, <3>1, <3>2 DEF HandleProductUpserted, TypeOK
    <2>3. QED
      BY <1>2, <2>2 DEF HandleProductUpserted, StoreInv
  <1>3. CASE HandleProductDeleted(m)
    <2>1. /\ e.id \in Products /\ e.version \in Nat /\ e.version <= product[e.id].version
          /\ product[e.id].state = "deleted"
      BY <1>3, EventFields DEF HandleProductDeleted, Known, Versions
    <2>2. ASSUME NEW p \in Products
          PROVE  /\ ref'[p].version <= product[p].version
                 /\ ref'[p].deleted => product[p].state = "deleted"
      <3>1. CASE ref'[p] = ref[p]
        BY <3>1 DEF ProductInv
      <3>2. CASE p = e.id /\ ref'[p] = [version |-> e.version, deleted |-> TRUE]
        BY <2>1, <3>2
      <3>3. QED
        <4>1. CASE ref' = ref
          BY <3>1, <4>1
        <4>2. CASE ref' = [ref EXCEPT ![e.id] = [version |-> e.version, deleted |-> TRUE]]
          <5>1. DOMAIN ref = Products
            BY DEF TypeOK
          <5>2. QED
            BY <2>1, <3>1, <3>2, <4>2, <5>1
        <4>3. QED
          BY <1>3, <4>1, <4>2 DEF HandleProductDeleted
    <2>3. QED
      BY <1>3, <2>2 DEF HandleProductDeleted, StoreInv
  <1>4. QED
    BY <1>1, <1>2, <1>3 DEF Handle

(* Only a handler changes the replica, only catalog what it owns.          *)
LEMMA StepKinds ==
  ASSUME TypeOK, FreshInv, [Next]_vars
  PROVE  \/ \E E \in SUBSET Events : Sends(E)
         \/ \E m \in queue : Handle(m)
         \/ UNCHANGED <<store, product, storeRef, ref>>
  <1>1. CASE Produce
    BY <1>1, ProduceSends
  <1>2. CASE \E m \in queue : Deliver(m)
    BY <1>2 DEF Deliver, catalog, replica
  <1>3. CASE \E r \in Relays : Relay(r)
    BY <1>3 DEF Relay, catalog, replica
  <1>4. CASE \E x \in Setters : SetStock(x)
    BY <1>4 DEF SetStock, SetStockRead, SetStockWrite, SetStockAbort, catalog, replica
  <1>5. QED
    BY <1>1, <1>2, <1>3, <1>4 DEF Next, vars, catalog, replica

(* A store's newest version was sent, or is sent by the step that makes it.*)
LEMMA StoreKept ==
  ASSUME TypeOK, FreshInv, BatchInv, KnownInv, StoreInv, ProductInv, [Next]_vars
  PROVE  StoreInv'
  <1> USE ReplicaAssumption
  <1>1. TypeOK'
    BY TypesKept
  <1>2. ASSUME NEW s \in Stores, NEW e \in Events, e = StoreUpserted(s, store'[s])
        PROVE  Sent(e)'
    <2>1. CASE store'[s] = store[s]
      BY <1>1, <1>2, <2>1, SentStays DEF StoreInv
    <2>2. CASE store'[s] # store[s]
      <3>1. PICK E \in SUBSET Events : Sends(E)
        BY <2>2, StepKinds DEF Handle, catalog
      <3>2. e \in outbox'
        BY <1>2, <2>2, <3>1 DEF Sends
      <3>3. QED
        BY <3>2 DEF Sent
    <2>3. QED
      BY <2>1, <2>2
  <1>3. ASSUME NEW s \in Stores
        PROVE  storeRef'[s] <= store'[s]
    <2>1. CASE \E m \in queue : Handle(m)
      <3>1. PICK m \in queue : Handle(m)
        BY <2>1
      <3>2. m.event \in Events /\ Known(m.event)
        BY DEF TypeOK, BusTypeOK, Message, KnownInv, InFlight
      <3>3. store' = store
        BY <3>1 DEF Handle, catalog
      <3>4. QED
        BY <3>1, <3>2, <3>3, NeverAhead
    <2>2. CASE storeRef' = storeRef
      <3>1. store'[s] >= store[s] /\ storeRef[s] <= store[s]
        BY StepGrows DEF Grows, StoreInv
      <3>2. store'[s] \in Nat /\ store[s] \in Nat /\ storeRef[s] \in Nat
        BY <1>1 DEF TypeOK
      <3>3. QED
        BY <2>2, <3>1, <3>2
    <2>3. QED
      BY <2>1, <2>2, StepKinds DEF Sends, replica
  <1>4. QED
    BY <1>2, <1>3 DEF StoreInv

(* So was a live product's. *)
LEMMA ProductKept ==
  ASSUME TypeOK, FreshInv, BatchInv, KnownInv, StoreInv, ProductInv, [Next]_vars
  PROVE  ProductInv'
  <1> USE ReplicaAssumption
  <1>1. TypeOK'
    BY TypesKept
  <1>2. ASSUME NEW p \in Products, product'[p].state = "live"
        PROVE  /\ product'[p].version > 0
               /\ \A e \in Events : e = ProductUpserted(p, product'[p].version) => Sent(e)'
    <2>1. CASE product'[p] = product[p]
      BY <1>1, <1>2, <2>1, SentStays DEF ProductInv
    <2>2. CASE product'[p] # product[p]
      <3>1. PICK E \in SUBSET Events : Sends(E)
        BY <2>2, StepKinds DEF Handle, catalog
      <3>2. /\ product'[p].version > product[p].version
            /\ ProductUpserted(p, product'[p].version) \in E
            /\ outbox' = outbox \cup E
        BY <1>2, <2>2, <3>1 DEF Sends
      <3>3. product'[p].version \in Nat /\ product[p].version \in Nat
        BY <1>1 DEF TypeOK
      <3>4. QED
        BY <3>2, <3>3 DEF Sent
    <2>3. QED
      BY <2>1, <2>2
  <1>3. ASSUME NEW p \in Products
        PROVE  /\ ref'[p].version <= product'[p].version
               /\ ref'[p].deleted => product'[p].state = "deleted"
    <2>1. CASE \E m \in queue : Handle(m)
      <3>1. PICK m \in queue : Handle(m)
        BY <2>1
      <3>2. m.event \in Events /\ Known(m.event)
        BY DEF TypeOK, BusTypeOK, Message, KnownInv, InFlight
      <3>3. product' = product
        BY <3>1 DEF Handle, catalog
      <3>4. QED
        BY <3>1, <3>2, <3>3, NeverAhead
    <2>2. CASE ref' = ref
      <3>1. /\ product'[p].version >= product[p].version
            /\ ref[p].version <= product[p].version
            /\ ref[p].deleted => product'[p].state = "deleted"
        BY StepGrows DEF Grows, ProductInv
      <3>2. /\ product'[p].version \in Nat /\ product[p].version \in Nat
            /\ ref[p].version \in Nat
        BY <1>1 DEF TypeOK
      <3>3. QED
        BY <2>2, <3>1, <3>2
    <2>3. QED
      BY <2>1, <2>2, StepKinds DEF Sends, replica
  <1>4. QED
    BY <1>2, <1>3 DEF ProductInv

-----------------------------------------------------------------------------
(* The theorems *)

IInv ==
  /\ TypeOK /\ FreshInv /\ LockInv /\ StockInv
  /\ BatchInv /\ KnownInv /\ StoreInv /\ ProductInv

(* At first there is nothing on either side. *)
LEMMA Initially == Init => IInv
  <1> SUFFICES ASSUME Init PROVE IInv
    OBVIOUS
  <1> USE ReplicaAssumption DEF Init, BusInit
  <1>1. TypeOK
    BY DEF TypeOK, BusTypeOK
  <1>2. FreshInv /\ LockInv /\ StockInv
    BY DEF FreshInv, LockInv, StockInv, PendingStockNotStranded
  <1>3. BatchInv /\ KnownInv
    BY DEF BatchInv, KnownInv, InFlight
  <1>4. ASSUME NEW s \in Stores, NEW e \in Events
        PROVE  e # StoreUpserted(s, store[s])
    BY EventFields DEF StoreUpserted, Versions
  <1>5. StoreInv
    BY <1>4 DEF StoreInv
  <1>6. ProductInv
    BY DEF ProductInv
  <1>7. QED
    BY <1>1, <1>2, <1>3, <1>5, <1>6 DEF IInv

(* The invariant is inductive. *)
LEMMA Inductive == IInv /\ [Next]_vars => IInv'
  BY TypesKept, FreshKept, LockKept, StockKept, BatchKept, KnownKept, StoreKept, ProductKept
  DEF IInv

(* Every reachable state satisfies it. *)
LEMMA Invariant == Spec => []IInv
  BY Initially, Inductive, PTL DEF Spec

(* Catalog's rows, the bus and the replica stay of their types.            *)
THEOREM TypeCorrect == Spec => []TypeOK
  <1>1. IInv => TypeOK
    BY DEF IInv
  <1>2. QED
    BY <1>1, Invariant, PTL

(* A stock that was set before its product arrived is not left behind in   *)
(* pending_stock: the row goes when the product's row comes.               *)
THEOREM NoStockStranded == Spec => []PendingStockNotStranded
  <1>1. IInv => PendingStockNotStranded
    BY DEF IInv, StockInv
  <1>2. QED
    BY <1>1, Invariant, PTL

(* No delivery, however late or repeated, takes a replica row to an older  *)
(* version or brings a deleted product back.                               *)
THEOREM NeverBack == Spec => ReplicaNeverGoesBack
  <1>1. IInv /\ [Next]_vars =>
          [/\ \A s \in Stores : storeRef'[s] >= storeRef[s]
           /\ \A p \in Products : /\ ref'[p].version >= ref[p].version
                                   /\ ref[p].deleted => ref'[p].deleted]_vars
    BY StepGrows DEF IInv, Grows
  <1>2. QED
    BY <1>1, Invariant, PTL DEF Spec, ReplicaNeverGoesBack

(* When nothing travels any more and nothing was parked, commerce sells    *)
(* what catalog has: every store at its newest version, and every live     *)
(* product too, with a stock row.                                          *)
THEOREM Replicated == Spec => []QuietMeansReplicated
  <1>1. ASSUME IInv, Quiet, parked = {}
        PROVE  /\ storeRef = store
               /\ \A p \in Products : product[p].state = "live" =>
                    /\ ref[p] = [version |-> product[p].version, deleted |-> FALSE]
                    /\ inv[p] # None
    <2> USE ReplicaAssumption
    <2>1. ASSUME NEW e \in Events, Sent(e) PROVE Applied(e)
      BY <1>1, <2>1 DEF Quiet, Sent, Settled, InFlight
    <2>2. ASSUME NEW s \in Stores PROVE storeRef[s] = store[s]
      <3>1. store[s] \in 0..MaxStoreVersion /\ storeRef[s] \in Nat /\ storeRef[s] <= store[s]
        BY <1>1 DEF IInv, TypeOK, StoreInv
      <3>2. CASE store[s] > 0
        <4>1. StoreUpserted(s, store[s]) \in Events
          BY <3>1, <3>2, EventNames
        <4>2. Applied(StoreUpserted(s, store[s]))
          BY <1>1, <2>1, <4>1 DEF IInv, StoreInv
        <4>3. QED
          BY <3>1, <4>2 DEF Applied, StoreUpserted
      <3>3. CASE store[s] = 0
        BY <3>1, <3>3
      <3>4. QED
        BY <3>1, <3>2, <3>3
    <2>3. storeRef = store
      BY <1>1, <2>2 DEF IInv, TypeOK
    <2>4. ASSUME NEW p \in Products, product[p].state = "live"
          PROVE  /\ ref[p] = [version |-> product[p].version, deleted |-> FALSE]
                 /\ inv[p] # None
      <3>1. /\ product[p].version \in Versions
            /\ ref[p] \in [version : 0..MaxVersion, deleted : BOOLEAN]
            /\ ref[p].version <= product[p].version
            /\ ~ref[p].deleted
        BY <1>1, <2>4 DEF IInv, TypeOK, ProductInv, Versions
      <3>2. ProductUpserted(p, product[p].version) \in Events
        BY <3>1, EventNames
      <3>3. Applied(ProductUpserted(p, product[p].version))
        BY <1>1, <2>1, <2>4, <3>2 DEF IInv, ProductInv
      <3>4. ref[p].version = product[p].version
        BY <3>1, <3>3 DEF Applied, ProductUpserted, Versions
      <3>5. ref[p] = [version |-> product[p].version, deleted |-> FALSE]
        BY <3>1, <3>4
      <3>6. inv[p] # None
        BY <1>1, <3>1, <3>4 DEF IInv, StockInv, Versions
      <3>7. QED
        BY <3>5, <3>6
    <2>5. QED
      BY <2>3, <2>4
  <1>2. IInv => QuietMeansReplicated
    BY <1>1 DEF QuietMeansReplicated
  <1>3. QED
    BY <1>2, Invariant, PTL

=============================================================================
