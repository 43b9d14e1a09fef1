---------------------------- MODULE SearchProofs ----------------------------
(***************************************************************************)
(* Theorems about SearchIndex, for any number of products, instances and   *)
(* failures.                                                               *)
(***************************************************************************)
EXTENDS SearchProperties, FiniteSetTheorems, TLAPS

-----------------------------------------------------------------------------
(* Tasks *)

(* No part of a rebuild: at most a handler, or a booting instance's turn.  *)
Free == {"idle", "apply", "acquire"}

(* A rebuild that has named its index and not moved the alias to it; one   *)
(* whose index has been created.                                           *)
Filling == {"create", "export", "bulk", "renew", "read", "swap"}
Filled  == {"export", "bulk", "renew", "read", "swap"}

Tasks ==
  {t \in [op : Ops, event : Event \cup {None}, index : Indices \cup {None},
          todo : SUBSET Products, page : SUBSET Event, old : Indices \cup {None},
          boot : BOOLEAN] :
     /\ t.op = "apply" => t.event \in Event
     /\ t.op \in Filling => t.index # None
     /\ t.op \in Free \cup {"drop", "record", "release"} => t.index = None
     /\ t.op \in {"read", "swap"} => t.todo = {}
     /\ t.op # "bulk" => t.page = {}
     /\ \A e \in t.page : \A f \in t.page : e.product = f.product => e = f}

TypeInv == TypeOK /\ task \in [Instances -> Tasks]

(* An instance that does nothing. *)
LEMMA IdleIsTask == Idle \in Tasks /\ \A boot \in BOOLEAN : Leave(boot) \in Tasks
  BY DEF Idle, Leave, Tasks, Ops, Filling, Free

(* A task moves, the others stay.                                          *)
LEMMA GoMoves ==
  ASSUME task \in [Instances -> Tasks], NEW i \in Instances, NEW next \in Tasks, Go(i, next)
  PROVE  /\ task' \in [Instances -> Tasks]
         /\ task'[i] = next
         /\ \A j \in Instances : j # i => task'[j] = task[j]
  BY DEF Go

(* What TypeOK says of tasks follows from what they are.                   *)
LEMMA TasksFit ==
  ASSUME NEW t \in Tasks
  PROVE  /\ DOMAIN t = DOMAIN Idle /\ t.op \in Ops
         /\ t.event \in Event \cup {None}
         /\ {t.index, t.old} \subseteq Indices \cup {None}
         /\ t.todo \subseteq Products /\ t.page \subseteq Event
         /\ t.boot \in BOOLEAN
  BY DEF Tasks, Idle

(* No document is ahead of catalog, and a tombstone is the last version.   *)
NotAhead(p, doc) ==
  /\ doc.version <= product[p].version
  /\ doc.deleted => product[p].deleted /\ doc.version = product[p].version

(* An event tells a version the product had.                               *)
LEMMA SentIsEvent ==
  ASSUME TypeInv, NEW p \in Products, NEW e \in Sent(p)
  PROVE  e \in Event /\ e.product = p /\ NotAhead(p, e.doc)
  <1>1. PICK v \in 1..product[p].version :
          e = [product |-> p, doc |-> [version |-> v,
                 deleted |-> product[p].deleted /\ v = product[p].version]]
    BY DEF Sent
  <1>2. product[p].version \in 0..MaxVersion
    BY DEF TypeInv, TypeOK, Doc
  <1>3. v \in 0..MaxVersion /\ v <= product[p].version
    BY <1>2, SearchAssumption
  <1>4. [version |-> v, deleted |-> product[p].deleted /\ v = product[p].version] \in Doc
    BY <1>3 DEF Doc
  <1>5. QED
    BY <1>1, <1>3, <1>4 DEF Event, NotAhead

(* A handler writes the live index, then the one that is being built.      *)
LEMMA HandlerTask ==
  ASSUME TypeInv, NEW i \in Instances, Handler(i) \/ BootCheck(i) \/ BootConflict(i)
  PROVE  task' \in [Instances -> Tasks]
  <1>1. CASE Handler(i)
    <2>1. ASSUME NEW p \in Products, NEW e \in Sent(p), ApplyLive(i, e)
          PROVE  task' \in [Instances -> Tasks]
      <3>1. e \in Event
        BY SentIsEvent
      <3>2. [Idle EXCEPT !.op = "apply", !.event = e] \in Tasks
        BY <3>1 DEF Idle, Tasks, Ops, Filling, Free
      <3>3. QED
        BY <2>1, <3>2, GoMoves DEF TypeInv, ApplyLive
    <2>2. CASE ApplyBuilding(i) \/ ApplyFails(i)
      BY <2>2, IdleIsTask, GoMoves DEF TypeInv, ApplyBuilding, ApplyFails
    <2>3. QED
      BY <1>1, <2>1, <2>2 DEF Handler
  <1>2. CASE BootCheck(i)
    <2>1. [Idle EXCEPT !.op = "acquire", !.boot = TRUE] \in Tasks
      BY DEF Idle, Tasks, Ops, Filling, Free
    <2>2. QED
      BY <1>2, <2>1, GoMoves DEF TypeInv, BootCheck
  <1>3. CASE BootConflict(i)
    BY <1>3, IdleIsTask, GoMoves DEF TypeInv, BootConflict
  <1>4. QED
    BY <1>1, <1>2, <1>3

(* A rebuild takes the lease.                                              *)
LEMMA AcquireTask ==
  ASSUME TypeInv, NEW i \in Instances, task[i].op \in {"idle", "acquire"}, Acquire(i)
  PROVE  task' \in [Instances -> Tasks]
  <1> DEFINE t == task[i]
  <1>1. t \in Tasks /\ t.index = None
    BY DEF TypeInv, Tasks, Free
  <1>2. CASE lease # None /\ lease.index # None
    <2>1. lease.index \in Indices
      BY <1>2 DEF TypeInv, TypeOK, Lease
    <2>2. [[t EXCEPT !.op = "drop"] EXCEPT !.old = lease.index] \in Tasks
      BY <1>1, <2>1 DEF Tasks, Ops, Filling, Free
    <2>3. QED
      BY <1>2, <2>2, GoMoves DEF TypeInv, Acquire, To
  <1>3. CASE ~(lease # None /\ lease.index # None)
    <2>1. [t EXCEPT !.op = "record"] \in Tasks
      BY <1>1 DEF Tasks, Ops, Filling, Free
    <2>2. QED
      BY <1>3, <2>1, GoMoves DEF TypeInv, Acquire, To
  <1>4. QED
    BY <1>2, <1>3

(* A name is found when there is a fresh one.                              *)
LEMMA NameIsFresh ==
  ASSUME FreshNames # {}
  PROVE  NewName \in FreshNames
  BY DEF NewName

(* Wherever a rebuild stands, it may have to undo what it did.             *)
LEMMA UndoTask ==
  ASSUME NEW t \in Tasks, t.page = {}
  PROVE  [t EXCEPT !.op = "undo"] \in Tasks
  BY DEF Tasks, Ops, Filling, Free

(* A lease that is kept, or lost: the rebuild goes on or undoes its work.  *)
LEMMA KeepLeaseTask ==
  ASSUME TypeInv, NEW i \in Instances, NEW x, NEW next \in Tasks, next.page = {},
         KeepLease(i, x, next)
  PROVE  task' \in [Instances -> Tasks]
  <1>1. [next EXCEPT !.op = "undo"] \in Tasks
    BY UndoTask
  <1>2. QED
    BY <1>1, GoMoves DEF TypeInv, KeepLease

(* From the lease to the first page.                                       *)
LEMMA StartTask ==
  ASSUME TypeInv, NEW i \in Instances, DropAbandoned(i) \/ Record(i) \/ CreateIndex(i)
  PROVE  task' \in [Instances -> Tasks]
  <1> DEFINE t == task[i]
  <1>1. t \in Tasks
    BY DEF TypeInv
  <1>2. CASE DropAbandoned(i)
    <2>1. t.op = "drop"
      BY <1>2 DEF DropAbandoned, At
    <2>2. [[t EXCEPT !.op = "record"] EXCEPT !.old = None] \in Tasks
      BY <1>1, <2>1 DEF Tasks, Ops, Filling, Free
    <2>3. QED
      BY <1>2, <2>2, GoMoves DEF TypeInv, DropAbandoned, To
  <1>3. CASE Record(i)
    <2>1. t.op = "record" /\ NewName \in Indices
      BY <1>3, NameIsFresh DEF Record, At, FreshNames
    <2> DEFINE next == [[t EXCEPT !.op = "create"] EXCEPT !.index = NewName]
    <2>2. NewName # None
      BY <2>1, SearchAssumption
    <2> HIDE DEF t
    <2>3. next \in Tasks /\ next.page = {}
      BY <1>1, <2>1, <2>2 DEF Tasks, Ops, Filling, Free
    <2>4. QED
      BY <1>3, <2>3, KeepLeaseTask DEF Record, To, t
  <1>4. CASE CreateIndex(i)
    <2>1. t.op = "create"
      BY <1>4 DEF CreateIndex, At
    <2>2. [[t EXCEPT !.op = "export"] EXCEPT !.todo = Products] \in Tasks
      BY <1>1, <2>1 DEF Tasks, Ops, Filling, Free
    <2>3. QED
      BY <1>4, <2>2, GoMoves DEF TypeInv, CreateIndex, To
  <1>5. QED
    BY <1>2, <1>3, <1>4

(* The pages.                                                              *)
LEMMA PageTask ==
  ASSUME TypeInv, NEW i \in Instances,
         (\E S \in SUBSET Products : Export(i, S)) \/ Bulk(i) \/ Renew(i)
  PROVE  task' \in [Instances -> Tasks]
  <1> DEFINE t == task[i]
  <1>1. t \in Tasks
    BY DEF TypeInv
  <1>2. ASSUME NEW S \in SUBSET Products, Export(i, S)
        PROVE  task' \in [Instances -> Tasks]
    <2> DEFINE page == {[product |-> p, doc |-> product[p]] : p \in {q \in S : ~product[q].deleted}}
    <2>1. t.op = "export"
      BY <1>2 DEF Export, At
    <2>2. page \in SUBSET Event
      BY DEF TypeInv, TypeOK, Event
    <2>3. \A e \in page : \A f \in page : e.product = f.product => e = f
      OBVIOUS
    <2> HIDE DEF page, t
    <2>4. [[t EXCEPT !.op = "bulk"] EXCEPT !.todo = @ \ S, !.page = page] \in Tasks
      BY <1>1, <2>1, <2>2, <2>3 DEF Tasks, Ops, Filling, Free
    <2>5. QED
      BY <1>2, <2>4, GoMoves DEF TypeInv, Export, To, page, t
  <1>3. CASE Bulk(i)
    <2>1. t.op = "bulk"
      BY <1>3 DEF Bulk, At
    <2>2. [[t EXCEPT !.op = "renew"] EXCEPT !.page = {}] \in Tasks
      BY <1>1, <2>1 DEF Tasks, Ops, Filling, Free
    <2>3. QED
      BY <1>3, <2>2, GoMoves DEF TypeInv, Bulk, To
  <1>4. CASE Renew(i)
    <2> DEFINE op == IF t.todo = {} THEN "read" ELSE "export"
               next == [t EXCEPT !.op = op]
    <2>1. t.op = "renew"
      BY <1>4 DEF Renew, At
    <2>2. next \in Tasks /\ next.page = {}
      <3>1. CASE t.todo = {}
        BY <1>1, <2>1, <3>1 DEF Tasks, Ops, Filling, Free
      <3>2. CASE t.todo # {}
        BY <1>1, <2>1, <3>2 DEF Tasks, Ops, Filling, Free
      <3>3. QED
        BY <3>1, <3>2
    <2>3. QED
      BY <1>4, <2>2, KeepLeaseTask DEF Renew, To
  <1>5. QED
    BY <1>2, <1>3, <1>4

(* The swap and what follows.                                              *)
LEMMA SwapTask ==
  ASSUME TypeInv, NEW i \in Instances, SwapRead(i) \/ SwapAlias(i)
  PROVE  task' \in [Instances -> Tasks]
  <1> DEFINE t == task[i]
  <1>1. t \in Tasks
    BY DEF TypeInv
  <1>2. CASE SwapRead(i)
    <2>1. t.op = "read" /\ live \in Indices \cup {None}
      BY <1>2 DEF SwapRead, At, TypeInv, TypeOK
    <2>2. [[t EXCEPT !.op = "swap"] EXCEPT !.old = live] \in Tasks
      BY <1>1, <2>1 DEF Tasks, Ops, Filling, Free
    <2>3. QED
      BY <1>2, <2>2, GoMoves DEF TypeInv, SwapRead, To
  <1>3. CASE SwapAlias(i)
    <2>1. t.op = "swap"
      BY <1>3 DEF SwapAlias, At
    <2>2. t.boot \in BOOLEAN /\ t.page = {}
      BY <1>1, <2>1 DEF Tasks
    <2>3. [t EXCEPT !.op = "cleanup"] \in Tasks /\ [t EXCEPT !.op = "undo"] \in Tasks
      BY <1>1, <2>1 DEF Tasks, Ops, Filling, Free
    <2>4. QED
      BY <1>3, <2>2, <2>3, IdleIsTask, GoMoves DEF TypeInv, SwapAlias, To
  <1>4. QED
    BY <1>2, <1>3

(* The ends, good and bad.                                                 *)
LEMMA EndTask ==
  ASSUME TypeInv, NEW i \in Instances,
         DropReplaced(i) \/ Undo(i) \/ Release(i) \/ Failure(i)
  PROVE  task' \in [Instances -> Tasks]
  <1> DEFINE t == task[i]
  <1>1. t \in Tasks /\ t.boot \in BOOLEAN
    BY DEF TypeInv, Tasks
  <1>2. CASE DropReplaced(i) \/ Undo(i) \/ Release(i)
    BY <1>1, <1>2, IdleIsTask, GoMoves DEF TypeInv, DropReplaced, Undo, Release
  <1>3. CASE StepFails(i)
    <2>1. [[t EXCEPT !.op = "undo"] EXCEPT !.page = {}] \in Tasks
      BY <1>1 DEF Tasks, Ops, Filling, Free
    <2>2. QED
      BY <1>3, <2>1, IdleIsTask, GoMoves DEF TypeInv, StepFails, To
  <1>4. CASE Outage(i) \/ Crash(i)
    BY <1>4, IdleIsTask, GoMoves DEF TypeInv, Outage, Crash
  <1>5. CASE CleanupFails(i)
    <2>1. t.page = {}
      BY <1>1, <1>5 DEF CleanupFails, At, Tasks
    <2>2. QED
      BY <1>1, <1>5, <2>1, UndoTask, GoMoves DEF TypeInv, CleanupFails, To
  <1>6. QED
    BY <1>2, <1>3, <1>4, <1>5 DEF Failure

(* One step.                                                               *)
LEMMA TasksStep ==
  ASSUME TypeInv, [Next]_vars
  PROVE  task' \in [Instances -> Tasks]
  <1>1. CASE (\E p \in Products : ChangeProduct(p)) \/ Expire \/ ExpireEarly \/ UNCHANGED vars
    BY <1>1 DEF TypeInv, ChangeProduct, Expire, ExpireEarly, vars
  <1>2. ASSUME NEW i \in Instances, Reindex(i) \/ AcquireAtBoot(i)
        PROVE  task' \in [Instances -> Tasks]
    BY <1>2, AcquireTask DEF Reindex, AcquireAtBoot, At
  <1>3. QED
    BY <1>1, <1>2, HandlerTask, StartTask, PageTask, SwapTask, EndTask DEF Next, RebuildStep

-----------------------------------------------------------------------------
(* Indices *)

(* Every rebuild has an index of its own, which is not searched, and which *)
(* only those drop who took the lease from it.                             *)
Unshared ==
  \A i \in Instances : \A j \in Instances :
    i # j /\ task[i].index # None => task[i].index # task[j].index

NotSearched == \A i \in Instances : task[i].op \in Filling => task[i].index # live

NotDropped ==
  \A i \in Instances : \A j \in Instances :
    /\ task[i].op \in Filling
    /\ task[j].op \in {"drop", "swap", "cleanup"} /\ task[j].old = task[i].index
    => task[j].op = "drop" /\ (lease # None => lease.holder # i)

(* The holder's index has the building alias, and so does one about to be  *)
(* made live, if it exists.                                                *)
HolderBuilds ==
  \A i \in Instances :
    task[i].op \in {"export", "bulk", "renew"} /\ lease # None /\ lease.holder = i
      => task[i].index \in building

DoneBuilds ==
  \A i \in Instances :
    task[i].op \in {"read", "swap"} /\ task[i].index \in exists => task[i].index \in building

OwnIndex == Unshared /\ NotSearched /\ NotDropped /\ HolderBuilds /\ DoneBuilds

(* The tables of Elasticsearch and the lease keep their types.             *)
LEMMA ElasticStep ==
  ASSUME TypeInv, OwnIndex, [Next]_vars
  PROVE  /\ exists' \in SUBSET Indices
         /\ live' \in exists' \cup {None}
         /\ building' \in SUBSET (exists' \ {live'})
  <1> USE DEF TypeInv, TypeOK
  <1>1. ASSUME NEW S, Drop(S)
        PROVE  /\ exists' \in SUBSET Indices
               /\ live' \in exists' \cup {None}
               /\ building' \in SUBSET (exists' \ {live'})
    BY <1>1, SearchAssumption DEF Drop
  <1>2. ASSUME NEW i \in Instances, DropAbandoned(i) \/ DropReplaced(i) \/ Undo(i)
        PROVE  \E S : Drop(S)
    BY <1>2 DEF DropAbandoned, DropReplaced, Undo
  <1>3. ASSUME NEW i \in Instances
        PROVE  /\ task[i].op \in Filling => task[i].index \in Indices /\ task[i].index # live
    BY DEF Tasks, OwnIndex, NotSearched
  <1>4. ASSUME NEW i \in Instances, CreateIndex(i) \/ Bulk(i) \/ SwapAlias(i)
        PROVE  /\ exists' \in SUBSET Indices
               /\ live' \in exists' \cup {None}
               /\ building' \in SUBSET (exists' \ {live'})
    <2>1. CASE CreateIndex(i)
      BY <1>3, <2>1 DEF CreateIndex, At, Filling
    <2>2. CASE Bulk(i)
      BY <1>3, <2>2 DEF Bulk, At, Filling
    <2>3. CASE SwapAlias(i)
      BY <1>3, <2>3 DEF SwapAlias, Swappable, MoveAlias, At, Filling, Built
    <2>4. QED
      BY <1>4, <2>1, <2>2, <2>3
  <1>5. CASE UNCHANGED <<exists, live, building>>
    BY <1>5
  <1>6. ASSUME NEW i \in Instances,
               Handler(i) \/ BootCheck(i) \/ Reindex(i) \/ RebuildStep(i) \/ Failure(i)
        PROVE  \/ UNCHANGED <<exists, live, building>>
               \/ DropAbandoned(i) \/ DropReplaced(i) \/ Undo(i)
               \/ CreateIndex(i) \/ Bulk(i) \/ SwapAlias(i)
    BY <1>6 DEF Handler, ApplyLive, ApplyBuilding, ApplyFails, BootCheck, Reindex, Acquire,
       RebuildStep, AcquireAtBoot, BootConflict, Record, KeepLease, Export, Renew, SwapRead,
       Release, Failure, StepFails, Outage, CleanupFails, Crash, elastic
  <1>7. CASE (\E p \in Products : ChangeProduct(p)) \/ Expire \/ ExpireEarly \/ UNCHANGED vars
    BY <1>5, <1>7 DEF ChangeProduct, Expire, ExpireEarly, vars, elastic
  <1>8. QED
    BY <1>1, <1>2, <1>4, <1>5, <1>6, <1>7 DEF Next

(* Documents stay documents.                                               *)
LEMMA DocsStep ==
  ASSUME TypeInv, [Next]_vars
  PROVE  docs' \in [Indices -> [Products -> Doc]] /\ product' \in [Products -> Doc]
  <1> USE DEF TypeInv, TypeOK
  <1>1. NoDoc \in Doc
    BY SearchAssumption DEF NoDoc, Doc
  <1>2. ASSUME NEW x \in Indices, NEW e \in Event, Write(x, e)
        PROVE  docs' \in [Indices -> [Products -> Doc]]
    <2>1. docs[x][e.product] \in Doc /\ e.product \in Products /\ e.doc \in Doc
      BY DEF Event
    <2>2. Guarded(docs[x][e.product], e.doc) \in Doc
      BY <2>1 DEF Guarded
    <2>3. QED
      BY <1>2, <2>1, <2>2 DEF Write
  <1>3. ASSUME NEW i \in Instances, Handler(i)
        PROVE  docs' \in [Indices -> [Products -> Doc]]
    <2>1. ASSUME NEW p \in Products, NEW e \in Sent(p), ApplyLive(i, e)
          PROVE  docs' \in [Indices -> [Products -> Doc]]
      BY <1>2, <2>1, SentIsEvent DEF ApplyLive
    <2>2. CASE ApplyBuilding(i)
      <3>1. task[i].event \in Event
        BY <2>2 DEF ApplyBuilding, At, Tasks
      <3>2. QED
        BY <1>2, <2>2, <3>1 DEF ApplyBuilding, BuildingIndices
    <2>3. QED
      BY <1>3, <2>1, <2>2 DEF Handler, ApplyFails, elastic
  <1>4. ASSUME NEW S, Drop(S)
        PROVE  docs' \in [Indices -> [Products -> Doc]]
    BY <1>1, <1>4 DEF Drop
  <1>5. ASSUME NEW i \in Instances, Bulk(i)
        PROVE  docs' \in [Indices -> [Products -> Doc]]
    <2> DEFINE page == task[i].page
               x    == task[i].index
               new  == [p \in Products |-> IF \E e \in page : e.product = p
                          THEN (CHOOSE e \in page : e.product = p).doc ELSE docs[x][p]]
    <2>1. x \in Indices /\ page \subseteq Event
      BY <1>5 DEF Bulk, At, Tasks, Filling
    <2>2. ASSUME NEW p \in Products
          PROVE  new[p] \in Doc
      <3>1. CASE \E e \in page : e.product = p
        <4>1. (CHOOSE e \in page : e.product = p) \in page
          BY <3>1
        <4>2. QED
          BY <2>1, <3>1, <4>1 DEF Event
      <3>2. CASE ~ \E e \in page : e.product = p
        BY <2>1, <3>2
      <3>3. QED
        BY <3>1, <3>2
    <2>3. docs' = [docs EXCEPT ![x] = new]
      BY <1>5 DEF Bulk
    <2> HIDE DEF new
    <2>4. new \in [Products -> Doc]
      BY <2>2 DEF new
    <2>5. QED
      BY <2>1, <2>3, <2>4
  <1>6. ASSUME NEW i \in Instances,
               Handler(i) \/ BootCheck(i) \/ Reindex(i) \/ RebuildStep(i) \/ Failure(i)
        PROVE  docs' \in [Indices -> [Products -> Doc]] /\ product' = product
    <2>1. CASE DropAbandoned(i) \/ DropReplaced(i) \/ Undo(i)
      BY <1>4, <2>1 DEF DropAbandoned, DropReplaced, Undo
    <2>2. CASE Handler(i)
      BY <1>3, <2>2 DEF Handler, ApplyLive, ApplyBuilding, ApplyFails
    <2>3. CASE Bulk(i)
      BY <1>5, <2>3 DEF Bulk
    <2>4. CASE BootCheck(i) \/ Reindex(i) \/ Failure(i)
      BY <2>4 DEF BootCheck, Reindex, Acquire, Failure, StepFails, Outage, CleanupFails, Crash, elastic
    <2>5. QED
      BY <1>6, <2>1, <2>2, <2>3, <2>4 DEF RebuildStep, AcquireAtBoot, Acquire, BootConflict,
         Record, KeepLease, CreateIndex, Export, Renew, SwapRead, SwapAlias, Release, elastic
  <1>7. ASSUME NEW p \in Products, ChangeProduct(p)
        PROVE  docs' = docs /\ product' \in [Products -> Doc]
    <2>1. product[p].version + 1 \in 0..MaxVersion
      BY <1>7, SearchAssumption DEF ChangeProduct, Doc
    <2>2. QED
      BY <1>7, <2>1 DEF ChangeProduct, Doc, elastic
  <1>8. CASE Expire \/ ExpireEarly \/ UNCHANGED vars
    BY <1>8 DEF Expire, ExpireEarly, vars, elastic
  <1>9. QED
    BY <1>6, <1>7, <1>8 DEF Next


(* The rest of the state keeps its types.                                  *)
LEMMA OthersStep ==
  ASSUME TypeInv, [Next]_vars
  PROVE  /\ lease' \in Lease \cup {None}
         /\ ready' \in SUBSET Instances
         /\ applied' \in [Products -> 0..MaxVersion]
         /\ mishaps' \in SUBSET Mishaps /\ failures' \in 0..MaxMishaps
         /\ raced' \in SUBSET Products
  <1> DEFINE Others == /\ lease' \in Lease \cup {None}
                       /\ ready' \in SUBSET Instances
                       /\ applied' \in [Products -> 0..MaxVersion]
                       /\ mishaps' \in SUBSET Mishaps /\ failures' \in 0..MaxMishaps
                       /\ raced' \in SUBSET Products
  <1> USE DEF TypeInv, TypeOK
  <1>1. CASE UNCHANGED <<lease, ready, applied, mishaps, failures, raced>>
    BY <1>1
  <1>2. ASSUME NEW i \in Instances, Acquire(i)
        PROVE  Others
    BY <1>2 DEF Acquire, Lease, luck
  <1>3. ASSUME NEW i \in Instances, Record(i) \/ Renew(i)
        PROVE  Others
    <2>1. ASSUME NEW x \in Indices, NEW next, KeepLease(i, x, next)
          PROVE  Others
      <3>1. lease' = lease \/ lease' = [holder |-> i, index |-> x, expired |-> FALSE]
        BY <2>1 DEF KeepLease
      <3>2. UNCHANGED <<ready, applied, mishaps, failures, raced>>
        BY <2>1 DEF KeepLease, luck
      <3>3. [holder |-> i, index |-> x, expired |-> FALSE] \in Lease
        BY DEF Lease
      <3>4. QED
        BY <3>1, <3>2, <3>3
    <2>2. CASE Record(i)
      BY <2>1, <2>2, NameIsFresh DEF Record, FreshNames
    <2>3. CASE Renew(i)
      <3>1. task[i].index \in Indices
        BY <2>3 DEF Renew, At, Tasks, Filling
      <3>2. QED
        BY <2>1, <2>3, <3>1 DEF Renew
    <2>4. QED
      BY <1>3, <2>2, <2>3
  <1>4. ASSUME NEW kind, Mishap(kind)
        PROVE  mishaps' \in SUBSET Mishaps /\ failures' \in 0..MaxMishaps
    <2>1. mishaps' \in SUBSET Mishaps
      BY <1>4 DEF Mishap
    <2>2. failures \in 0..MaxMishaps /\ failures < MaxMishaps /\ failures' = failures + 1
      BY <1>4 DEF Mishap
    <2> HIDE DEF TypeInv, TypeOK
    <2>3. failures' \in 0..MaxMishaps
      BY <2>2, SearchAssumption
    <2>4. QED
      BY <2>1, <2>3
  <1>5. ASSUME NEW i \in Instances, ApplyBuilding(i) \/ SwapAlias(i)
        PROVE  Others
    <2>1. CASE ApplyBuilding(i)
      <3>1. PICK e \in Event : e = task[i].event
        BY <2>1 DEF ApplyBuilding, At, Tasks
      <3>2. e.product \in Products /\ e.doc.version \in 0..MaxVersion
        BY DEF Event, Doc
      <3>3. applied' \in [Products -> 0..MaxVersion]
        BY <2>1, <3>1, <3>2 DEF ApplyBuilding
      <3>4. raced' \in SUBSET Products
        BY <2>1, <3>1, <3>2 DEF ApplyBuilding
      <3>5. QED
        BY <2>1, <3>3, <3>4 DEF ApplyBuilding, luck
    <2>2. CASE SwapAlias(i)
      <3>1. HalfApplied \subseteq Products
        BY DEF HalfApplied, Tasks, Event
      <3>2. raced' \in SUBSET Products
        BY <2>2, <3>1 DEF SwapAlias, MoveAlias
      <3>3. mishaps' \in SUBSET Mishaps /\ failures' \in 0..MaxMishaps
        BY <1>4, <2>2 DEF SwapAlias, luck
      <3>4. QED
        BY <2>2, <3>2, <3>3 DEF SwapAlias
    <2>3. QED
      BY <1>5, <2>1, <2>2
  <1>6. ASSUME NEW i \in Instances, Failure(i)
        PROVE  Others
    <2>1. (\E kind : Mishap(kind)) /\ ready' \in SUBSET Instances /\ UNCHANGED <<lease, applied, raced>>
      BY <1>6 DEF Failure, StepFails, Outage, CleanupFails, Crash
    <2>2. QED
      BY <1>4, <2>1
  <1>7. CASE Expire
    BY <1>7 DEF Expire, Lease, luck
  <1>8. CASE ExpireEarly
    BY <1>4, <1>8 DEF ExpireEarly, Lease
  <1>9. ASSUME NEW i \in Instances, Handler(i) \/ BootCheck(i) \/ Reindex(i) \/ RebuildStep(i)
        PROVE  Others
    <2>1. CASE BootCheck(i) \/ Release(i)
      BY <2>1 DEF BootCheck, Release, luck
    <2>2. CASE Reindex(i) \/ AcquireAtBoot(i)
      BY <1>2, <2>2 DEF Reindex, AcquireAtBoot
    <2>3. CASE \/ \E p \in Products : \E e \in Sent(p) : ApplyLive(i, e)
               \/ ApplyFails(i) \/ BootConflict(i) \/ DropAbandoned(i) \/ CreateIndex(i)
               \/ \E S \in SUBSET Products : Export(i, S)
               \/ Bulk(i) \/ SwapRead(i) \/ DropReplaced(i) \/ Undo(i)
      BY <1>1, <2>3 DEF ApplyLive, ApplyFails, BootConflict, DropAbandoned, CreateIndex,
         Export, Bulk, SwapRead, DropReplaced, Undo, luck
    <2>4. QED
      BY <1>3, <1>5, <1>9, <2>1, <2>2, <2>3 DEF Handler, RebuildStep
  <1>10. CASE (\E p \in Products : ChangeProduct(p)) \/ UNCHANGED vars
    BY <1>1, <1>10 DEF ChangeProduct, vars, luck
  <1>11. QED
    BY <1>6, <1>7, <1>8, <1>9, <1>10 DEF Next

(* Types hold at first and after every step.                               *)
LEMMA TypesInit ==
  ASSUME Init
  PROVE  TypeInv
  <1>1. NoDoc \in Doc /\ [version |-> 1, deleted |-> FALSE] \in Doc
    BY SearchAssumption DEF NoDoc, Doc
  <1>2. task \in [Instances -> Tasks]
    BY IdleIsTask DEF Init
  <1>3. \A i \in Instances : task[i] = Idle /\ Idle \in Tasks
    BY IdleIsTask DEF Init
  <1>4. QED
    BY <1>1, <1>2, <1>3, TasksFit, SearchAssumption DEF Init, TypeInv, TypeOK

(* As above.                                                               *)
LEMMA TypesStep ==
  ASSUME TypeInv, OwnIndex, [Next]_vars
  PROVE  TypeInv'
  <1>1. task' \in [Instances -> Tasks]
    BY TasksStep
  <1>2. \A i \in Instances : task'[i] \in Tasks
    BY <1>1
  <1>3. \A i \in Instances :
       /\ DOMAIN task'[i] = DOMAIN Idle /\ task'[i].op \in Ops
       /\ task'[i].event \in Event \cup {None}
       /\ {task'[i].index, task'[i].old} \subseteq Indices \cup {None}
       /\ task'[i].todo \subseteq Products /\ task'[i].page \subseteq Event
    BY <1>2, TasksFit
  <1>4. TypeOK'
    BY <1>3, ElasticStep, DocsStep, OthersStep DEF TypeOK
  <1>5. QED
    BY <1>1, <1>4 DEF TypeInv

(* Fresh: not in use.                                                      *)
LEMMA FreshIsUnused ==
  ASSUME TypeInv, NEW x \in FreshNames
  PROVE  /\ x \in Indices /\ x \notin exists /\ x # None /\ x # live
         /\ lease # None => lease.index # x
         /\ \A j \in Instances : task[j].index # x /\ task[j].old # x
  BY SearchAssumption DEF FreshNames, TypeInv, TypeOK

(* A task that ends, fails, or does not touch what indices are for.        *)
LEMMA OwnIndexKept ==
  ASSUME TypeInv, OwnIndex, NEW k \in Instances, NEW next \in Tasks, Go(k, next),
         next.index \in {task[k].index, None},
         \/ next.op \notin Filling \cup {"drop", "swap", "cleanup"}
         \/ task[k].op = "export" /\ next.op = "bulk",
         UNCHANGED <<exists, live, building, lease>>
  PROVE  OwnIndex'
  <1> USE DEF OwnIndex, Filling
  <1>1. task'[k] = next /\ \A j \in Instances : j # k => task'[j] = task[j]
    BY GoMoves DEF TypeInv
  <1>a. next.op \in Filling => next.index = task[k].index /\ task[k].op \in Filling
    BY DEF Tasks
  <1>2. Unshared'
    BY <1>1 DEF Unshared
  <1>3. NotSearched'
    BY <1>1 DEF NotSearched, TypeInv, TypeOK, Tasks
  <1>4. NotDropped'
    BY <1>1, <1>a DEF NotDropped
  <1>5. HolderBuilds'
    BY <1>1, <1>a DEF HolderBuilds
  <1>6. DoneBuilds'
    BY <1>1, <1>a DEF DoneBuilds
  <1>7. QED
    BY <1>2, <1>3, <1>4, <1>5, <1>6

(* Where nothing an index is for changes.                                  *)
LEMMA OwnIndexSame ==
  ASSUME OwnIndex, UNCHANGED <<task, exists, live, building>>,
         \/ UNCHANGED lease
         \/ lease # None /\ lease' # None /\ lease'.holder = lease.holder
  PROVE  OwnIndex'
  BY DEF OwnIndex, Unshared, NotSearched, NotDropped, HolderBuilds, DoneBuilds, Filling

(* Most steps of handlers and the failures are like that.                  *)
LEMMA OwnIndexQuiet ==
  ASSUME TypeInv, OwnIndex, NEW k \in Instances,
         \/ Handler(k) \/ BootCheck(k) \/ BootConflict(k) \/ Failure(k)
         \/ \E S \in SUBSET Products : Export(k, S)
  PROVE  OwnIndex'
  <1> DEFINE t == task[k]
  <1>1. t \in Tasks /\ t.boot \in BOOLEAN /\ task' \in [Instances -> Tasks]
    BY HandlerTask, PageTask, EndTask DEF TypeInv, Tasks
  <1>2. task'[k] \in Tasks
    BY <1>1
  <1>3. ASSUME Handler(k) \/ BootConflict(k) \/ Crash(k) \/ Outage(k) \/ StepFails(k) \/ CleanupFails(k)
        PROVE  /\ Go(k, task'[k]) /\ task'[k].index \in {task[k].index, None}
               /\ task'[k].op \notin Filling \cup {"drop", "swap", "cleanup"}
               /\ UNCHANGED <<exists, live, building, lease>>
    <2> DEFINE undo == [To(k, "undo") EXCEPT !.page = {}]
    <2>1. undo.index = t.index /\ undo.op = "undo"
      BY <1>1 DEF To, Tasks
    <2>2. To(k, "undo").index = t.index /\ To(k, "undo").op = "undo"
      BY <1>1 DEF To, Tasks
    <2>3. /\ Idle.index = None /\ Idle.op = "idle"
          /\ \A boot : Leave(boot).index = None /\ Leave(boot).op = "release"
          /\ \A e : /\ [Idle EXCEPT !.op = "apply", !.event = e].index = None
                   /\ [Idle EXCEPT !.op = "apply", !.event = e].op = "apply"
      BY DEF Idle, Leave
    <2>4. PICK next : /\ Go(k, next)
                      /\ \/ next \in {Idle, undo, To(k, "undo")}
                         \/ \E boot : next = Leave(boot)
                         \/ \E e : next = [Idle EXCEPT !.op = "apply", !.event = e]
      <3>1. CASE Crash(k) \/ Outage(k) \/ StepFails(k) \/ CleanupFails(k)
        BY <3>1 DEF Crash, Outage, StepFails, CleanupFails
      <3>2. CASE Handler(k) \/ BootConflict(k)
        BY <3>2 DEF Handler, ApplyLive, ApplyBuilding, ApplyFails, BootConflict
      <3>3. QED
        BY <1>3, <3>1, <3>2
    <2>5. task'[k] = next
      BY <2>4 DEF Go, TypeInv
    <2>6. UNCHANGED <<exists, live, building, lease>>
      BY <1>3 DEF Crash, Outage, StepFails, CleanupFails, Handler, ApplyLive, ApplyBuilding,
         ApplyFails, BootConflict, elastic
    <2> HIDE DEF undo
    <2>7. next.index \in {t.index, None} /\ next.op \in {"idle", "apply", "release", "undo"}
      <3>1. CASE next = Idle
        BY <2>3, <3>1
      <3>2. CASE next \in {undo, To(k, "undo")}
        BY <2>1, <2>2, <3>2
      <3>3. ASSUME NEW boot, next = Leave(boot)
            PROVE  next.index = None /\ next.op = "release"
        BY <2>3, <3>3
      <3>4. ASSUME NEW e, next = [Idle EXCEPT !.op = "apply", !.event = e]
            PROVE  next.index = None /\ next.op = "apply"
        BY <2>3, <3>4
      <3>5. QED
        BY <2>4, <3>1, <3>2, <3>3, <3>4
    <2>8. QED
      BY <2>4, <2>5, <2>6, <2>7 DEF Filling
  <1>4. CASE Handler(k) \/ BootConflict(k) \/ Failure(k)
    BY <1>2, <1>3, <1>4, OwnIndexKept DEF Failure
  <1>5. CASE BootCheck(k)
    <2>1. CASE UNCHANGED task
      BY <1>5, <2>1, OwnIndexSame DEF BootCheck, elastic
    <2>2. CASE Go(k, [Idle EXCEPT !.op = "acquire", !.boot = TRUE])
      <3>1. task'[k] = [Idle EXCEPT !.op = "acquire", !.boot = TRUE]
        BY <2>2 DEF Go, TypeInv
      <3>2. task'[k].op = "acquire" /\ task'[k].index = None
        BY <3>1 DEF Idle
      <3>3. QED
        BY <1>2, <1>5, <2>2, <3>1, <3>2, OwnIndexKept DEF BootCheck, elastic, Filling
    <2>3. QED
      BY <1>5, <2>1, <2>2 DEF BootCheck
  <1>6. ASSUME NEW S \in SUBSET Products, Export(k, S)
        PROVE  OwnIndex'
    <2>1. Go(k, task'[k]) /\ task'[k].index = t.index /\ t.op = "export" /\ task'[k].op = "bulk"
      BY <1>1, <1>6 DEF Export, Go, To, TypeInv, At, Tasks
    <2>2. QED
      BY <1>2, <1>6, <2>1, OwnIndexKept DEF Export, elastic
  <1>7. QED
    BY <1>4, <1>5, <1>6

(* Only one task moves.                                                    *)
LEMMA Moved ==
  ASSUME TypeInv, NEW k \in Instances, NEW next, Go(k, next)
  PROVE  task'[k] = next /\ \A j \in Instances : j # k => task'[j] = task[j]
  BY DEF Go, TypeInv

(* What the lease document says when it is written.                        *)
LEMMA LeaseWritten ==
  ASSUME NEW i \in Instances, NEW x \in Indices \cup {None},
         lease' = [holder |-> i, index |-> x, expired |-> FALSE]
  PROVE  lease' # None /\ lease'.holder = i /\ lease'.index = x /\ lease'.expired = FALSE
  <1>1. [holder |-> i, index |-> x, expired |-> FALSE] \in Lease
    BY DEF Lease
  <1>2. QED
    BY <1>1, SearchAssumption

(* The fields of a task that goes on, and of one that ends.                *)
LEMMA ToFields ==
  ASSUME TypeInv, NEW k \in Instances, NEW op
  PROVE  /\ To(k, op).op = op
         /\ To(k, op).event = task[k].event /\ To(k, op).index = task[k].index
         /\ To(k, op).todo = task[k].todo /\ To(k, op).page = task[k].page
         /\ To(k, op).old = task[k].old /\ To(k, op).boot = task[k].boot
  <1>1. task[k] \in Tasks
    BY DEF TypeInv
  <1>2. QED
    BY <1>1 DEF To, Tasks

(* As above.                                                               *)
LEMMA LeaveFields ==
  ASSUME NEW boot
  PROVE  /\ Leave(boot).op = "release" /\ Leave(boot).index = None /\ Leave(boot).old = None
         /\ Leave(boot).page = {} /\ Leave(boot).boot = boot /\ Leave(boot).event = None
  BY DEF Leave, Idle

(* The lease changes hands: the new holder has no index yet.               *)
LEMMA OwnIndexAcquire ==
  ASSUME TypeInv, OwnIndex, NEW k \in Instances, task[k].op \in {"idle", "acquire"}, Acquire(k)
  PROVE  OwnIndex'
  <1>1. task[k] \in Tasks /\ task[k].index = None
    BY DEF TypeInv, Tasks, Free
  <1>2. task'[k].index = None /\ task'[k].op \in {"drop", "record"}
    <2> DEFINE next == [To(k, "drop") EXCEPT !.old = lease.index]
    <2>1. next.op = "drop" /\ next.index = None
      BY <1>1 DEF To, Tasks
    <2>2. To(k, "record").op = "record" /\ To(k, "record").index = None
      BY <1>1, ToFields
    <2>3. Go(k, next) \/ Go(k, To(k, "record"))
      BY DEF Acquire
    <2> HIDE DEF next
    <2>4. QED
      BY <2>1, <2>2, <2>3, Moved
  <1>3. \A j \in Instances : j # k => task'[j] = task[j]
    BY Moved DEF Acquire
  <1>4. lease' # None /\ lease'.holder = k
    BY LeaseWritten DEF Acquire
  <1>5. UNCHANGED <<exists, live, building>>
    BY DEF Acquire, elastic
  <1> USE <1>2, <1>3, <1>4, <1>5 DEF OwnIndex, Filling
  <1>6. Unshared'
    BY DEF Unshared
  <1>7. NotSearched'
    BY DEF NotSearched
  <1>8. NotDropped'
    BY DEF NotDropped
  <1>9. HolderBuilds'
    BY DEF HolderBuilds
  <1>10. DoneBuilds'
    BY DEF DoneBuilds
  <1>11. QED
    BY <1>6, <1>7, <1>8, <1>9, <1>10

(* An index is dropped that no other rebuild fills, unless it lost the     *)
(* lease.                                                                  *)
LEMMA OwnIndexDrop ==
  ASSUME TypeInv, OwnIndex, NEW k \in Instances, DropAbandoned(k) \/ DropReplaced(k) \/ Undo(k)
  PROVE  OwnIndex'
  <1> DEFINE x == IF At(k, "undo") THEN task[k].index ELSE task[k].old
  <1>1. task[k] \in Tasks /\ task[k].op \in {"drop", "cleanup", "undo"}
    BY DEF TypeInv, DropAbandoned, DropReplaced, Undo, At
  <1>2. Drop({x})
    BY DEF DropAbandoned, DropReplaced, Undo, At, Abandoned
  <1>3. task'[k].index = None /\ task'[k].op \in {"record", "release"}
    <2>1. CASE DropAbandoned(k)
      <3> DEFINE next == [To(k, "record") EXCEPT !.old = None]
      <3>1. next.op = "record" /\ next.index = None
        BY <1>1, <2>1 DEF DropAbandoned, At, To, Tasks
      <3>2. Go(k, next)
        BY <2>1 DEF DropAbandoned
      <3> HIDE DEF next
      <3>3. QED
        BY <3>1, <3>2, Moved
    <2>2. CASE DropReplaced(k) \/ Undo(k)
      <3>1. \E boot : Go(k, Leave(boot))
        BY <2>2 DEF DropReplaced, Undo
      <3>2. QED
        BY <3>1, LeaveFields, Moved
    <2>3. QED
      BY <2>1, <2>2
  <1>4. \A j \in Instances : j # k => task'[j] = task[j]
    BY Moved DEF DropAbandoned, DropReplaced, Undo
  <1>5. ASSUME NEW i \in Instances, task[i].op \in Filling, task[i].index = x
        PROVE  lease # None => lease.holder # i
    <2>1. task[i].index # None /\ i # k
      BY <1>1, <1>5 DEF TypeInv, Tasks, Filling
    <2>2. CASE At(k, "undo")
      BY <1>5, <2>1, <2>2 DEF OwnIndex, Unshared
    <2>3. CASE ~At(k, "undo")
      BY <1>1, <1>5, <2>1, <2>3 DEF OwnIndex, NotDropped, At
    <2>4. QED
      BY <2>2, <2>3
  <1>6. /\ exists' = exists \ {x} /\ building' = building \ {x} /\ live' \in {live, None}
        /\ lease' = lease
    BY <1>2 DEF Drop, DropAbandoned, DropReplaced, Undo
  <1>7. \A i \in Instances : task[i].op \in Filling => task[i].index # None
    BY DEF TypeInv, Tasks
  <1> HIDE DEF x
  <1> USE <1>3, <1>4, <1>5, <1>6 DEF OwnIndex, Filling
  <1>8. Unshared'
    BY DEF Unshared
  <1>9. NotSearched'
    BY <1>7 DEF NotSearched
  <1>10. NotDropped'
    BY DEF NotDropped
  <1>11. HolderBuilds'
    BY DEF HolderBuilds
  <1>12. DoneBuilds'
    BY DEF DoneBuilds
  <1>13. QED
    BY <1>8, <1>9, <1>10, <1>11, <1>12

(* A rebuild names its index.                                              *)
LEMMA OwnIndexRecord ==
  ASSUME TypeInv, OwnIndex, NEW k \in Instances, Record(k)
  PROVE  OwnIndex'
  <1> DEFINE t == task[k]
             next == [To(k, "create") EXCEPT !.index = NewName]
  <1>1. t \in Tasks /\ NewName \in FreshNames
    BY NameIsFresh DEF TypeInv, Record
  <1>2. next.index = NewName /\ next.op = "create"
    BY <1>1 DEF To, Tasks
  <1>3. [next EXCEPT !.op = "undo"].index = NewName /\ [next EXCEPT !.op = "undo"].op = "undo"
    BY <1>1 DEF To, Tasks
  <1> HIDE DEF next
  <1>4. /\ \/ lease' # None /\ lease'.holder = k
           \/ UNCHANGED lease
        /\ Go(k, next) \/ Go(k, [next EXCEPT !.op = "undo"])
        /\ UNCHANGED <<exists, live, building>>
    <2>1. \/ lease' = [holder |-> k, index |-> NewName, expired |-> FALSE]
          \/ UNCHANGED lease
      BY DEF Record, KeepLease
    <2>2. NewName \in Indices
      BY <1>1 DEF FreshNames
    <2>3. QED
      BY <2>1, <2>2, LeaseWritten DEF Record, KeepLease, elastic, next
  <1>5. /\ task'[k].index = NewName /\ task'[k].op \in {"create", "undo"}
        /\ \A j \in Instances : j # k => task'[j] = task[j]
    BY <1>2, <1>3, <1>4, Moved
  <1>6. /\ NewName # live /\ NewName # None
        /\ \A j \in Instances : task[j].index # NewName /\ task[j].old # NewName
    BY <1>1, FreshIsUnused
  <1> USE <1>4, <1>5, <1>6 DEF OwnIndex, Filling
  <1>7. Unshared'
    BY DEF Unshared
  <1>8. NotSearched'
    BY DEF NotSearched
  <1>9. NotDropped'
    BY DEF NotDropped, Record, KeepLease
  <1>10. HolderBuilds'
    BY DEF HolderBuilds
  <1>11. DoneBuilds'
    BY DEF DoneBuilds
  <1>12. QED
    BY <1>7, <1>8, <1>9, <1>10, <1>11

(* The index is created, with the building alias.                          *)
LEMMA OwnIndexCreate ==
  ASSUME TypeInv, OwnIndex, NEW k \in Instances, CreateIndex(k)
  PROVE  OwnIndex'
  <1> DEFINE next == [To(k, "export") EXCEPT !.todo = Products]
             x    == task[k].index
  <1>1. task[k] \in Tasks /\ task[k].op = "create"
    BY DEF TypeInv, CreateIndex, At
  <1>2. next.op = "export" /\ next.index = x
    BY <1>1 DEF To, Tasks
  <1>3. Go(k, next)
    BY DEF CreateIndex
  <1> HIDE DEF next
  <1>4. /\ task'[k].op = "export" /\ task'[k].index = x
        /\ \A j \in Instances : j # k => task'[j] = task[j]
    BY <1>2, <1>3, Moved
  <1>5. /\ exists' = exists \cup {x} /\ building' = building \cup {x}
        /\ UNCHANGED <<live, lease>>
    BY DEF CreateIndex
  <1> HIDE DEF x
  <1> USE <1>1, <1>4, <1>5 DEF OwnIndex, Filling
  <1>6. Unshared'
    BY DEF Unshared, x
  <1>7. NotSearched'
    BY DEF NotSearched, x
  <1>8. NotDropped'
    BY DEF NotDropped, x
  <1>9. HolderBuilds'
    BY DEF HolderBuilds, x
  <1>10. DoneBuilds'
    BY DEF DoneBuilds, x
  <1>11. QED
    BY <1>6, <1>7, <1>8, <1>9, <1>10

(* A page is written; the index may come back to life with it.             *)
LEMMA OwnIndexBulk ==
  ASSUME TypeInv, OwnIndex, NEW k \in Instances, Bulk(k)
  PROVE  OwnIndex'
  <1> DEFINE next == [To(k, "renew") EXCEPT !.page = {}]
             x    == task[k].index
  <1>1. task[k] \in Tasks /\ task[k].op = "bulk" /\ task[k].index # None
    BY DEF TypeInv, Bulk, At, Tasks, Filling
  <1>2. next.op = "renew" /\ next.index = x
    BY <1>1 DEF To, Tasks
  <1>3. Go(k, next)
    BY DEF Bulk
  <1> HIDE DEF next
  <1>4. /\ task'[k].op = "renew" /\ task'[k].index = x
        /\ \A j \in Instances : j # k => task'[j] = task[j]
    BY <1>2, <1>3, Moved
  <1>5. /\ exists' \in {exists, exists \cup {x}}
        /\ UNCHANGED <<live, building, lease>>
    BY DEF Bulk
  <1> HIDE DEF x
  <1> USE <1>1, <1>4, <1>5 DEF OwnIndex, Filling
  <1>6. Unshared'
    BY DEF Unshared, x
  <1>7. NotSearched'
    BY DEF NotSearched, x
  <1>8. NotDropped'
    BY DEF NotDropped, x
  <1>9. HolderBuilds'
    BY DEF HolderBuilds, x
  <1>10. DoneBuilds'
    BY DEF DoneBuilds, Unshared, x
  <1>11. QED
    BY <1>6, <1>7, <1>8, <1>9, <1>10

(* The lease is renewed by who holds it, whose index has the alias.        *)
LEMMA OwnIndexRenew ==
  ASSUME TypeInv, OwnIndex, NEW k \in Instances, Renew(k)
  PROVE  OwnIndex'
  <1> DEFINE op == IF task[k].todo = {} THEN "read" ELSE "export"
             next == To(k, op)
  <1>1. task[k] \in Tasks /\ task[k].op = "renew" /\ task[k].index \in Indices
    BY DEF TypeInv, Renew, At, Tasks, Filling
  <1>2. next.op \in {"read", "export"} /\ next.index = task[k].index
    BY ToFields
  <1>3. /\ [next EXCEPT !.op = "undo"].op = "undo"
        /\ [next EXCEPT !.op = "undo"].index = task[k].index
    BY <1>1 DEF To, Tasks
  <1>4. KeepLease(k, task[k].index, next)
    BY DEF Renew
  <1> HIDE DEF op, next
  <1>5. UNCHANGED <<exists, live, building>> /\ \A j \in Instances : j # k => task'[j] = task[j]
    BY <1>4, Moved DEF KeepLease, elastic
  <1>6. \/ /\ lease # None /\ lease.holder = k /\ lease' # None /\ lease'.holder = k
           /\ task'[k].op \in {"read", "export"} /\ task'[k].index = task[k].index
        \/ /\ UNCHANGED lease
           /\ task'[k].op = "undo" /\ task'[k].index = task[k].index
    BY <1>1, <1>2, <1>3, <1>4, LeaseWritten, Moved DEF KeepLease
  <1> USE <1>1, <1>5, <1>6 DEF OwnIndex, Filling
  <1>7. Unshared'
    BY DEF Unshared
  <1>8. NotSearched'
    BY DEF NotSearched
  <1>9. NotDropped'
    BY DEF NotDropped
  <1>10. HolderBuilds'
    BY DEF HolderBuilds
  <1>11. DoneBuilds'
    BY DEF DoneBuilds, HolderBuilds
  <1>12. QED
    BY <1>7, <1>8, <1>9, <1>10, <1>11

(* What is live is read, and then replaced.                                *)
LEMMA OwnIndexSwap ==
  ASSUME TypeInv, OwnIndex, NEW k \in Instances, SwapRead(k) \/ SwapAlias(k)
  PROVE  OwnIndex'
  <1> DEFINE x == task[k].index
             read == [To(k, "swap") EXCEPT !.old = live]
  <1>1. task[k] \in Tasks /\ task[k].op \in {"read", "swap"} /\ x # None
    BY DEF TypeInv, SwapRead, SwapAlias, At, Tasks, Filling
  <1>2. read.op = "swap" /\ read.index = x /\ read.old = live
    BY <1>1 DEF To, Tasks
  <1> HIDE DEF read
  <1>3. \/ /\ task[k].op = "read" /\ task'[k].op = "swap"
           /\ task'[k].index = x /\ task'[k].old = live
           /\ UNCHANGED <<live, building>>
        \/ /\ task[k].op = "swap" /\ task'[k].op = "cleanup"
           /\ task'[k].index = x /\ task'[k].old = task[k].old
           /\ live' = x /\ building' = building \ {x}
        \/ /\ task[k].op = "swap" /\ task'[k].op = "release" /\ task'[k].index = None
           /\ live' = x /\ building' = building \ {x}
        \/ /\ task[k].op = "swap" /\ task'[k].op = "undo" /\ task'[k].index = x
           /\ live' = x /\ building' = building \ {x}
        \/ /\ task'[k].op = "undo" /\ task'[k].index = x
           /\ UNCHANGED <<live, building>>
    <2>1. CASE SwapRead(k)
      BY <1>2, <2>1, Moved DEF SwapRead, At, read, elastic
    <2>2. CASE SwapAlias(k)
      <3>1. \/ /\ \/ Go(k, Leave(task[k].boot))
                  \/ Go(k, To(k, "cleanup"))
                  \/ Go(k, To(k, "undo"))
               /\ live' = x /\ building' = building \ {x}
            \/ Go(k, To(k, "undo")) /\ UNCHANGED <<live, building>>
        BY <2>2 DEF SwapAlias, MoveAlias, Built
      <3>2. CASE Go(k, Leave(task[k].boot)) \/ Go(k, To(k, "cleanup"))
        <4>1. task[k].op = "swap"
          BY <2>2 DEF SwapAlias, At
        <4>2. task'[k] \in {Leave(task[k].boot), To(k, "cleanup")}
          BY <3>2, Moved
        <4>3. task'[k].op # "undo"
          BY <4>2, LeaveFields, ToFields
        <4>4. live' = x /\ building' = building \ {x}
          <5>1. CASE Go(k, To(k, "undo"))
            BY <4>3, <5>1, Moved, ToFields
          <5>2. QED
            BY <3>1, <5>1
        <4>5. QED
          BY <4>1, <4>2, <4>4, LeaveFields, ToFields
      <3>3. CASE Go(k, To(k, "undo"))
        <4>1. task'[k] = To(k, "undo")
          BY <3>3, Moved
        <4>2. task'[k].op = "undo" /\ task'[k].index = x
          BY <4>1, ToFields
        <4>3. \/ live' = x /\ building' = building \ {x}
              \/ UNCHANGED <<live, building>>
          BY <3>1
        <4>4. task[k].op = "swap"
          BY <2>2 DEF SwapAlias, At
        <4>5. QED
          BY <4>2, <4>3, <4>4
      <3>4. QED
        BY <3>1, <3>2, <3>3
    <2>3. QED
      BY <2>1, <2>2
  <1>4. /\ \A j \in Instances : j # k => task'[j] = task[j]
        /\ UNCHANGED <<exists, lease>>
    BY Moved DEF SwapRead, SwapAlias, elastic
  <1>5. \A i \in Instances : task[i].op \in Filling => task[i].index # None
    BY DEF TypeInv, Tasks
  <1> USE <1>1, <1>3, <1>4 DEF OwnIndex, Filling
  <1>6. Unshared'
    BY DEF Unshared
  <1>7. NotSearched'
    BY <1>5 DEF NotSearched, Unshared
  <1>8. NotDropped'
    BY DEF NotDropped, NotSearched
  <1>9. HolderBuilds'
    BY <1>5 DEF HolderBuilds, Unshared
  <1>10. DoneBuilds'
    BY <1>5 DEF DoneBuilds, Unshared
  <1>11. QED
    BY <1>6, <1>7, <1>8, <1>9, <1>10

(* The lease is given up.                                                  *)
LEMMA OwnIndexRelease ==
  ASSUME TypeInv, OwnIndex, NEW k \in Instances, Release(k)
  PROVE  OwnIndex'
  <1>1. task'[k].op = "idle" /\ task'[k].index = None
    BY Moved DEF Release, Idle
  <1>2. /\ \A j \in Instances : j # k => task'[j] = task[j]
        /\ UNCHANGED <<exists, live, building>> /\ lease' \in {None, lease}
    BY Moved DEF Release, elastic
  <1> USE <1>1, <1>2 DEF OwnIndex, Filling
  <1>3. Unshared'
    BY DEF Unshared
  <1>4. NotSearched'
    BY DEF NotSearched
  <1>5. NotDropped'
    BY DEF NotDropped
  <1>6. HolderBuilds'
    BY DEF HolderBuilds
  <1>7. DoneBuilds'
    BY DEF DoneBuilds
  <1>8. QED
    BY <1>3, <1>4, <1>5, <1>6, <1>7

(* One step.                                                               *)
LEMMA OwnIndexStep ==
  ASSUME TypeInv, OwnIndex, [Next]_vars
  PROVE  OwnIndex'
  <1>1. CASE (\E p \in Products : ChangeProduct(p)) \/ UNCHANGED vars
    BY <1>1, OwnIndexSame DEF ChangeProduct, vars, elastic
  <1>2. CASE Expire \/ ExpireEarly
    <2>1. lease # None /\ lease \in Lease /\ lease' = [lease EXCEPT !.expired = TRUE]
      BY <1>2 DEF Expire, ExpireEarly, TypeInv, TypeOK
    <2>2. lease' \in Lease /\ lease'.holder = lease.holder
      BY <2>1 DEF Lease
    <2>3. QED
      BY <1>2, <2>1, <2>2, SearchAssumption, OwnIndexSame DEF Expire, ExpireEarly, elastic
  <1>3. ASSUME NEW k \in Instances, Reindex(k) \/ AcquireAtBoot(k)
        PROVE  OwnIndex'
    BY <1>3, OwnIndexAcquire DEF Reindex, AcquireAtBoot, At
  <1>4. QED
    BY <1>1, <1>2, <1>3, OwnIndexQuiet, OwnIndexDrop, OwnIndexRecord, OwnIndexCreate,
       OwnIndexBulk, OwnIndexRenew, OwnIndexSwap, OwnIndexRelease DEF Next, RebuildStep

(* Types, and every rebuild its own index: in every state.                 *)
LEMMA IndicesAreOwned == Spec => [](TypeInv /\ OwnIndex)
  <1>1. Init => TypeInv /\ OwnIndex
    <2>1. ASSUME Init
          PROVE  OwnIndex
      <3>1. \A i \in Instances : task[i] = Idle /\ Idle.op = "idle" /\ Idle.index = None
        BY <2>1 DEF Init, Idle
      <3>2. QED
        BY <3>1 DEF OwnIndex, Unshared, NotSearched, NotDropped, HolderBuilds, DoneBuilds, Filling
    <2>2. QED
      BY <2>1, TypesInit
  <1>2. TypeInv /\ OwnIndex /\ [Next]_vars => (TypeInv /\ OwnIndex)'
    BY TypesStep, OwnIndexStep
  <1>3. QED
    BY <1>1, <1>2, PTL DEF Spec

(* The state keeps its types: above all, the live alias points at an index *)
(* that exists and never at one that carries the building alias, which     *)
(* holds because no two rebuilds share an index.                           *)
THEOREM TypeCorrect == Spec => []TypeOK
  <1>1. TypeInv => TypeOK
    BY DEF TypeInv
  <1>2. QED
    BY <1>1, IndicesAreOwned, PTL

-----------------------------------------------------------------------------
(* Versions *)

(* Nothing is ahead of catalog: no document, no event a handler holds, no  *)
(* page; and pages hold no tombstones.                                     *)
DocsBehind == \A x \in Indices : \A p \in Products : NotAhead(p, docs[x][p])

AppliedBehind == \A p \in Products : applied[p] <= product[p].version

EventsBehind ==
  \A i \in Instances : \A p \in Products : \A doc \in Doc :
    task[i].op = "apply" /\ task[i].event = [product |-> p, doc |-> doc] => NotAhead(p, doc)

PagesBehind ==
  \A i \in Instances : \A p \in Products : \A doc \in Doc :
    [product |-> p, doc |-> doc] \in task[i].page => NotAhead(p, doc) /\ ~doc.deleted

Versions == DocsBehind /\ AppliedBehind /\ EventsBehind /\ PagesBehind

(* An event is a product and a document.                                   *)
LEMMA EventParts ==
  ASSUME NEW e \in Event
  PROVE  /\ e.product \in Products /\ e.doc \in Doc
         /\ e = [product |-> e.product, doc |-> e.doc]
         /\ e.doc.version \in 0..MaxVersion /\ e.doc.version \in Int /\ e.doc.deleted \in BOOLEAN
  BY SearchAssumption DEF Event, Doc

(* The handler's event.                                                    *)
LEMMA HandledEvent ==
  ASSUME TypeInv, NEW i \in Instances, At(i, "apply")
  PROVE  task[i].event \in Event
  BY DEF TypeInv, Tasks, At

(* A document is overwritten by a newer one only.                          *)
LEMMA WriteGuards ==
  ASSUME TypeInv, NEW x \in Indices, NEW e \in Event, Write(x, e)
  PROVE  /\ \A y \in Indices : \A p \in Products :
              \/ docs'[y][p] = docs[y][p]
              \/ /\ y = x /\ p = e.product /\ docs'[y][p] = e.doc
                 /\ docs[y][p].version < e.doc.version
         /\ docs'[x][e.product].version >= e.doc.version
         /\ \A y \in Indices : \A p \in Products : docs'[y][p].version >= docs[y][p].version
  <1>1. e.product \in Products /\ e.doc \in Doc /\ e.doc.version \in Int
    BY EventParts
  <1>2. docs \in [Indices -> [Products -> Doc]]
    BY DEF TypeInv, TypeOK
  <1>3. \A y \in Indices : \A p \in Products : docs[y][p] \in Doc /\ docs[y][p].version \in Int
    BY <1>2, SearchAssumption DEF Doc
  <1>4. docs' = [docs EXCEPT ![x][e.product] = Guarded(docs[x][e.product], e.doc)]
    BY DEF Write
  <1>5. \A y \in Indices : \A p \in Products :
          docs'[y][p] = IF y = x /\ p = e.product THEN Guarded(docs[x][e.product], e.doc) ELSE docs[y][p]
    BY <1>1, <1>2, <1>4
  <1>6. QED
    BY <1>1, <1>3, <1>5 DEF Guarded

(* Catalog moves forward.                                                  *)
LEMMA ProductGrows ==
  ASSUME TypeInv, [Next]_vars
  PROVE  \A p \in Products :
           /\ product'[p].version >= product[p].version
           /\ product[p].deleted => product'[p] = product[p]
  <1> USE DEF TypeInv, TypeOK
  <1>1. CASE UNCHANGED product
    BY <1>1, SearchAssumption DEF Doc
  <1>2. ASSUME NEW p \in Products, ChangeProduct(p)
        PROVE  \A q \in Products :
                 /\ product'[q].version >= product[q].version
                 /\ product[q].deleted => product'[q] = product[q]
    BY <1>2, SearchAssumption DEF ChangeProduct, Doc
  <1>3. ASSUME NEW i \in Instances,
               Handler(i) \/ BootCheck(i) \/ Reindex(i) \/ RebuildStep(i) \/ Failure(i)
        PROVE  UNCHANGED product
    BY <1>3 DEF Handler, ApplyLive, ApplyBuilding, ApplyFails, BootCheck, Reindex, Acquire,
       RebuildStep, AcquireAtBoot, BootConflict, DropAbandoned, Record, KeepLease, CreateIndex,
       Export, Bulk, Renew, SwapRead, SwapAlias, DropReplaced, Undo, Release, Failure, StepFails,
       Outage, CleanupFails, Crash
  <1>4. CASE Expire \/ ExpireEarly \/ UNCHANGED vars
    BY <1>1, <1>4 DEF Expire, ExpireEarly, vars
  <1>5. QED
    BY <1>1, <1>2, <1>3, <1>4 DEF Next

(* ... so that what was not ahead of it stays so.                          *)
LEMMA BehindStays ==
  ASSUME TypeInv, TypeInv', [Next]_vars, NEW p \in Products, NEW doc \in Doc, NotAhead(p, doc)
  PROVE  /\ doc.version <= product'[p].version
         /\ doc.deleted => product'[p].deleted /\ doc.version = product'[p].version
  <1>1. product[p].version \in Int /\ product'[p].version \in Int /\ doc.version \in Int
    BY SearchAssumption DEF TypeInv, TypeOK, Doc
  <1>2. QED
    BY <1>1, ProductGrows DEF NotAhead

(* What a page writes.                                                     *)
LEMMA PageWritten ==
  ASSUME TypeInv, OwnIndex, NEW i \in Instances, Bulk(i)
  PROVE  /\ task[i].index \in Indices /\ task[i].index # live
         /\ \A y \in Indices : \A p \in Products :
              \/ docs'[y][p] = docs[y][p] /\ ~ (y = task[i].index /\ \E e \in task[i].page : e.product = p)
              \/ /\ y = task[i].index
                 /\ \E e \in task[i].page : e.product = p /\ docs'[y][p] = e.doc
         /\ \A e \in task[i].page : docs'[task[i].index][e.product] = e.doc
  <1> DEFINE page == task[i].page
             x    == task[i].index
             new  == [p \in Products |-> IF \E e \in page : e.product = p
                        THEN (CHOOSE e \in page : e.product = p).doc ELSE docs[x][p]]
  <1>1. x \in Indices /\ page \in SUBSET Event /\ x # live
    BY DEF TypeInv, Bulk, At, Tasks, Filling, OwnIndex, NotSearched
  <1>2. \A e \in page : \A f \in page : e.product = f.product => e = f
    BY DEF TypeInv, Tasks
  <1>3. docs' = [docs EXCEPT ![x] = new]
    BY DEF Bulk
  <1>4. docs \in [Indices -> [Products -> Doc]]
    BY DEF TypeInv, TypeOK
  <1>5. \A e \in page : e.product \in Products
    BY <1>1, EventParts
  <1>6. \A p \in Products : (\E e \in page : e.product = p) =>
          \A e \in page : e.product = p => new[p] = e.doc
    <2>1. ASSUME NEW p \in Products, NEW e \in page, e.product = p
          PROVE  new[p] = e.doc
      <3>1. (CHOOSE f \in page : f.product = p) = e
        BY <1>2, <2>1
      <3>2. QED
        BY <2>1, <3>1
    <2>2. QED
      BY <2>1
  <1>7. \A p \in Products : ~(\E e \in page : e.product = p) => new[p] = docs[x][p]
    OBVIOUS
  <1>8. \A y \in Indices : docs'[y] = IF y = x THEN new ELSE docs[y]
    BY <1>1, <1>3, <1>4
  <1> HIDE DEF new, page, x
  <1>9. \A y \in Indices : \A p \in Products :
          \/ docs'[y][p] = docs[y][p] /\ ~ (y = x /\ \E e \in page : e.product = p)
          \/ y = x /\ \E e \in page : e.product = p /\ docs'[y][p] = e.doc
    BY <1>6, <1>7, <1>8
  <1>10. \A e \in page : docs'[x][e.product] = e.doc
    BY <1>1, <1>5, <1>6, <1>8
  <1>11. QED
    BY <1>1, <1>9, <1>10 DEF page, x

(* Each document a step changes is lost with its index, or replaced by a   *)
(* newer event, in the live index or in the one being built, or written    *)
(* with a page.                                                            *)
LEMMA DocsMove ==
  ASSUME TypeInv, OwnIndex, Versions, [Next]_vars, NEW x \in Indices, NEW p \in Products
  PROVE  \/ docs'[x][p] = docs[x][p]
         \/ docs'[x][p] = NoDoc /\ x \notin exists'
         \/ /\ \E doc \in Doc :
                  docs'[x][p] = doc /\ docs[x][p].version < doc.version /\ NotAhead(p, doc)
            /\ \/ x = live
               \/ \E i \in Instances : ApplyBuilding(i) /\ x \in building /\ task[i].event.product = p
         \/ \E i \in Instances : /\ Bulk(i) /\ x = task[i].index
                                 /\ \E e \in task[i].page : e.product = p /\ docs'[x][p] = e.doc
  <1> DEFINE Newer == \E doc \in Doc :
               docs'[x][p] = doc /\ docs[x][p].version < doc.version /\ NotAhead(p, doc)
  <1>1. ASSUME NEW S, Drop(S)
        PROVE  docs'[x][p] = docs[x][p] \/ (docs'[x][p] = NoDoc /\ x \notin exists')
    BY <1>1 DEF Drop
  <1>2. ASSUME NEW y \in Indices, NEW e \in Event, Write(y, e), NotAhead(e.product, e.doc)
        PROVE  docs'[x][p] = docs[x][p] \/ (Newer /\ x = y /\ p = e.product)
    BY <1>2, WriteGuards, EventParts
  <1>3. ASSUME NEW i \in Instances, Handler(i)
        PROVE  \/ docs'[x][p] = docs[x][p]
               \/ Newer /\ x = live
               \/ Newer /\ ApplyBuilding(i) /\ x \in building /\ task[i].event.product = p
    <2>1. ASSUME NEW q \in Products, NEW e \in Sent(q), ApplyLive(i, e)
          PROVE  docs'[x][p] = docs[x][p] \/ (Newer /\ x = live)
      <3>1. e \in Event /\ NotAhead(e.product, e.doc) /\ Write(live, e) /\ live \in Indices
        BY <2>1, SentIsEvent DEF ApplyLive, TypeInv, TypeOK
      <3>2. QED
        BY <1>2, <3>1
    <2>2. CASE ApplyBuilding(i)
      <3>1. PICK e \in Event : e = task[i].event
        BY <2>2, HandledEvent DEF ApplyBuilding
      <3>2. NotAhead(e.product, e.doc)
        BY <2>2, <3>1, EventParts DEF Versions, EventsBehind, ApplyBuilding, At
      <3>3. UNCHANGED docs \/ \E y \in building : y \in Indices /\ Write(y, e)
        BY <2>2, <3>1 DEF ApplyBuilding, BuildingIndices, TypeInv, TypeOK
      <3>4. QED
        BY <1>2, <2>2, <3>1, <3>2, <3>3
    <2>3. QED
      BY <1>3, <2>1, <2>2 DEF Handler, ApplyFails, elastic
  <1>4. ASSUME NEW i \in Instances,
               BootCheck(i) \/ Reindex(i) \/ RebuildStep(i) \/ Failure(i)
        PROVE  \/ UNCHANGED docs
               \/ \E S : Drop(S)
               \/ Bulk(i)
    <2>1. CASE DropAbandoned(i) \/ DropReplaced(i) \/ Undo(i)
      BY <2>1 DEF DropAbandoned, DropReplaced, Undo
    <2>2. CASE BootCheck(i) \/ Reindex(i) \/ Failure(i)
      BY <2>2 DEF BootCheck, Reindex, Acquire, Failure, StepFails, Outage, CleanupFails, Crash, elastic
    <2>3. QED
      BY <1>4, <2>1, <2>2 DEF RebuildStep, AcquireAtBoot, Acquire, BootConflict,
         Record, KeepLease, CreateIndex, Export, Renew, SwapRead, SwapAlias, Release, elastic
  <1>5. ASSUME NEW i \in Instances, Bulk(i)
        PROVE  \/ docs'[x][p] = docs[x][p]
               \/ /\ x = task[i].index
                  /\ \E e \in task[i].page : e.product = p /\ docs'[x][p] = e.doc
    BY <1>5, PageWritten
  <1>6. CASE (\E q \in Products : ChangeProduct(q)) \/ Expire \/ ExpireEarly \/ UNCHANGED vars
    BY <1>6 DEF ChangeProduct, Expire, ExpireEarly, vars, elastic
  <1>7. QED
    BY <1>1, <1>3, <1>4, <1>5, <1>6 DEF Next

(* How a task gets where it is, where that matters to documents.           *)
LEMMA TaskMoves ==
  ASSUME TypeInv, [Next]_vars, NEW i \in Instances
  PROVE  \/ task'[i] = task[i]
         \/ task'[i].op \notin Filled \cup {"apply"}
         \/ \E p \in Products : \E e \in Sent(p) :
              ApplyLive(i, e) /\ task'[i].op = "apply" /\ task'[i].event = e
         \/ /\ CreateIndex(i)
            /\ task'[i].op = "export" /\ task'[i].index = task[i].index /\ task'[i].todo = Products
         \/ \E S \in SUBSET Products :
              /\ Export(i, S)
              /\ task'[i].op = "bulk" /\ task'[i].index = task[i].index
              /\ task'[i].todo = task[i].todo \ S
              /\ task'[i].page = {[product |-> p, doc |-> product[p]] : p \in {q \in S : ~product[q].deleted}}
         \/ /\ Bulk(i)
            /\ task'[i].op = "renew" /\ task'[i].index = task[i].index
            /\ task'[i].todo = task[i].todo
         \/ /\ Renew(i) \/ SwapRead(i)
            /\ task'[i].op \in {"export", "read", "swap"} /\ task'[i].index = task[i].index
            /\ task'[i].todo = task[i].todo
  <1>1. task[i] \in Tasks
    BY DEF TypeInv
  <1>2. ASSUME NEW j \in Instances, j # i,
               Handler(j) \/ BootCheck(j) \/ Reindex(j) \/ RebuildStep(j) \/ Failure(j)
        PROVE  task'[i] = task[i]
    <2>1. (\E next : Go(j, next)) \/ UNCHANGED task
      BY <1>2 DEF Handler, ApplyLive, ApplyBuilding, ApplyFails, BootCheck, Reindex, Acquire,
         RebuildStep, AcquireAtBoot, BootConflict, DropAbandoned, Record, KeepLease, CreateIndex,
         Export, Bulk, Renew, SwapRead, SwapAlias, DropReplaced, Undo, Release, Failure, StepFails,
         Outage, CleanupFails, Crash
    <2>2. QED
      BY <1>2, <2>1, Moved
  <1>3. CASE (\E p \in Products : ChangeProduct(p)) \/ Expire \/ ExpireEarly \/ UNCHANGED vars
    BY <1>3 DEF ChangeProduct, Expire, ExpireEarly, vars
  <1>4. CASE ApplyBuilding(i) \/ ApplyFails(i) \/ BootConflict(i) \/ Release(i)
    BY <1>4, Moved DEF ApplyBuilding, ApplyFails, BootConflict, Release, Idle, Filled
  <1>5. ASSUME NEW p \in Products, NEW e \in Sent(p), ApplyLive(i, e)
        PROVE  task'[i].op = "apply" /\ task'[i].event = e
    <2> DEFINE next == [Idle EXCEPT !.op = "apply", !.event = e]
    <2>1. next.op = "apply" /\ next.event = e
      BY DEF Idle
    <2>2. task'[i] = next
      BY <1>5, Moved DEF ApplyLive
    <2>3. QED
      BY <2>1, <2>2
  <1>6. CASE BootCheck(i)
    <2>1. [Idle EXCEPT !.op = "acquire", !.boot = TRUE].op = "acquire"
      BY DEF Idle
    <2>2. QED
      BY <1>6, <2>1, Moved DEF BootCheck, Filled
  <1>7. CASE Acquire(i) \/ DropAbandoned(i)
    <2>1. /\ \A x : [To(i, "drop") EXCEPT !.old = x].op = "drop"
          /\ \A x : [To(i, "record") EXCEPT !.old = x].op = "record"
          /\ To(i, "record").op = "record"
      BY <1>1 DEF To, Tasks
    <2>2. QED
      BY <1>7, <2>1, Moved, ZenonT(60) DEF Acquire, DropAbandoned, Filled
  <1>8. ASSUME NEW x, NEW next, KeepLease(i, x, next)
        PROVE  task'[i] = next \/ task'[i] = [next EXCEPT !.op = "undo"]
    BY <1>8, Moved DEF KeepLease
  <1>9. CASE Record(i)
    <2> DEFINE next == [To(i, "create") EXCEPT !.index = NewName]
    <2>1. next.op = "create" /\ [next EXCEPT !.op = "undo"].op = "undo"
      BY <1>1 DEF To, Tasks
    <2>2. QED
      BY <1>8, <1>9, <2>1 DEF Record, Filled
  <1>10. CASE CreateIndex(i)
    <2> DEFINE next == [To(i, "export") EXCEPT !.todo = Products]
    <2>1. next.op = "export" /\ next.index = task[i].index /\ next.todo = Products
      BY <1>1 DEF To, Tasks
    <2>2. task'[i] = next
      BY <1>10, Moved DEF CreateIndex
    <2>3. QED
      BY <1>10, <2>1, <2>2
  <1>11. ASSUME NEW S \in SUBSET Products, Export(i, S)
         PROVE  /\ task'[i].op = "bulk" /\ task'[i].index = task[i].index
                /\ task'[i].todo = task[i].todo \ S
                /\ task'[i].page = {[product |-> p, doc |-> product[p]] : p \in {q \in S : ~product[q].deleted}}
    <2> DEFINE page == {[product |-> p, doc |-> product[p]] : p \in {q \in S : ~product[q].deleted}}
               next == [To(i, "bulk") EXCEPT !.todo = @ \ S, !.page = page]
    <2>1. task'[i] = next
      BY <1>11, Moved DEF Export
    <2> HIDE DEF page
    <2>2. /\ next.op = "bulk" /\ next.index = task[i].index /\ next.todo = task[i].todo \ S
          /\ next.page = page
      BY <1>1 DEF To, Tasks
    <2>3. QED
      BY <2>1, <2>2 DEF page
  <1>12. CASE Bulk(i)
    <2> DEFINE next == [To(i, "renew") EXCEPT !.page = {}]
    <2>1. next.op = "renew" /\ next.index = task[i].index /\ next.todo = task[i].todo
      BY <1>1 DEF To, Tasks
    <2>2. task'[i] = next
      BY <1>12, Moved DEF Bulk
    <2>3. QED
      BY <1>12, <2>1, <2>2
  <1>13. CASE Renew(i)
    <2> DEFINE op == IF task[i].todo = {} THEN "read" ELSE "export"
    <2>1. /\ To(i, op).op = op /\ To(i, op).index = task[i].index /\ To(i, op).todo = task[i].todo
      BY ToFields
    <2>2. [To(i, op) EXCEPT !.op = "undo"].op = "undo"
      BY <1>1 DEF To, Tasks
    <2>3. op \in {"read", "export"}
      OBVIOUS
    <2>4. task'[i] = To(i, op) \/ task'[i] = [To(i, op) EXCEPT !.op = "undo"]
      BY <1>8, <1>13 DEF Renew
    <2> HIDE DEF op
    <2>5. QED
      BY <1>13, <2>1, <2>2, <2>3, <2>4 DEF Filled
  <1>14. CASE SwapRead(i)
    <2> DEFINE next == [To(i, "swap") EXCEPT !.old = live]
    <2>1. next.op = "swap" /\ next.index = task[i].index /\ next.todo = task[i].todo
      BY <1>1 DEF To, Tasks
    <2>2. task'[i] = next
      BY <1>14, Moved DEF SwapRead
    <2>3. QED
      BY <1>14, <2>1, <2>2
  <1>15. CASE SwapAlias(i) \/ DropReplaced(i) \/ Undo(i) \/ Failure(i)
    <2>1. [To(i, "undo") EXCEPT !.page = {}].op = "undo"
      BY <1>1 DEF To, Tasks
    <2>2. task'[i].op \in {"idle", "release", "cleanup", "undo"}
      <3>1. \/ Go(i, Idle) \/ Go(i, To(i, "cleanup")) \/ Go(i, To(i, "undo"))
            \/ Go(i, [To(i, "undo") EXCEPT !.page = {}]) \/ \E boot : Go(i, Leave(boot))
        BY <1>15 DEF SwapAlias, DropReplaced, Undo, Failure, StepFails, Outage, CleanupFails, Crash
      <3>2. Idle.op = "idle"
        BY DEF Idle
      <3>3. To(i, "cleanup").op = "cleanup" /\ To(i, "undo").op = "undo"
        BY ToFields
      <3>4. \A boot : Leave(boot).op = "release"
        BY LeaveFields
      <3>5. PICK next : Go(i, next) /\ next.op \in {"idle", "release", "cleanup", "undo"}
        BY <2>1, <3>1, <3>2, <3>3, <3>4
      <3>6. QED
        BY <3>5, Moved
    <2>3. QED
      BY <2>2 DEF Filled
  <1>16. QED
    BY <1>2, <1>3, <1>4, <1>5, <1>6, <1>7, <1>9, <1>10, <1>11, <1>12, <1>13, <1>14, <1>15
       DEF Next, Handler, Reindex, RebuildStep, AcquireAtBoot

(* Only a handler that is done changes what counts as applied.             *)
LEMMA AppliedMoves ==
  ASSUME [Next]_vars
  PROVE  UNCHANGED applied \/ \E i \in Instances : ApplyBuilding(i)
  <1>1. ASSUME NEW j \in Instances,
               \/ \E p \in Products : \E e \in Sent(p) : ApplyLive(j, e)
               \/ ApplyFails(j) \/ BootCheck(j) \/ Reindex(j) \/ RebuildStep(j) \/ Failure(j)
        PROVE  UNCHANGED applied
    BY <1>1 DEF ApplyLive, ApplyFails, BootCheck, Reindex, Acquire,
       RebuildStep, AcquireAtBoot, BootConflict, DropAbandoned, Record, KeepLease, CreateIndex,
       Export, Bulk, Renew, SwapRead, SwapAlias, DropReplaced, Undo, Release, Failure, StepFails,
       Outage, CleanupFails, Crash
  <1>2. CASE (\E p \in Products : ChangeProduct(p)) \/ Expire \/ ExpireEarly \/ UNCHANGED vars
    BY <1>2 DEF ChangeProduct, Expire, ExpireEarly, vars
  <1>3. QED
    BY <1>1, <1>2 DEF Next, Handler

(* One step leaves nothing ahead of catalog.                               *)
LEMMA VersionsStep ==
  ASSUME TypeInv, TypeInv', OwnIndex, Versions, [Next]_vars
  PROVE  Versions'
  <1>1. \A p \in Products : \A doc \in Doc : NotAhead(p, doc) =>
          /\ doc.version <= product'[p].version
          /\ doc.deleted => product'[p].deleted /\ doc.version = product'[p].version
    BY BehindStays
  <1>2. \A p \in Products : product[p] \in Doc /\ product'[p] \in Doc
    BY DEF TypeInv, TypeOK
  <1>3. \A doc \in Doc : doc.version \in Int /\ doc.version >= 0
    BY SearchAssumption DEF Doc
  <1>4. DocsBehind'
    <2>1. ASSUME NEW x \in Indices, NEW p \in Products
          PROVE  /\ docs'[x][p].version <= product'[p].version
                 /\ docs'[x][p].deleted => product'[p].deleted /\ docs'[x][p].version = product'[p].version
      <3>1. docs[x][p] \in Doc
        BY DEF TypeInv, TypeOK
      <3>2. CASE docs'[x][p] = docs[x][p]
        <4>1. NotAhead(p, docs[x][p])
          BY DEF Versions, DocsBehind
        <4>2. QED
          BY <1>1, <3>1, <3>2, <4>1
      <3>3. CASE docs'[x][p] = NoDoc
        BY <1>2, <1>3, <3>3 DEF NoDoc
      <3>4. ASSUME NEW doc \in Doc, docs'[x][p] = doc, NotAhead(p, doc)
            PROVE  /\ docs'[x][p].version <= product'[p].version
                   /\ docs'[x][p].deleted => product'[p].deleted /\ docs'[x][p].version = product'[p].version
        BY <1>1, <3>4
      <3>5. ASSUME NEW i \in Instances, NEW e \in task[i].page, e.product = p, docs'[x][p] = e.doc
            PROVE  NotAhead(p, e.doc) /\ e.doc \in Doc
        <4>1. e \in Event
          BY DEF TypeInv, Tasks
        <4>2. QED
          BY <3>5, <4>1, EventParts DEF Versions, PagesBehind
      <3>6. QED
        BY <3>2, <3>3, <3>4, <3>5, DocsMove
    <2>2. QED
      BY <2>1 DEF DocsBehind, NotAhead
  <1>5. AppliedBehind'
    <2>1. ASSUME NEW p \in Products
          PROVE  applied'[p] <= product'[p].version
      <3>1. applied[p] \in Int /\ applied[p] <= product[p].version
        BY SearchAssumption DEF Versions, AppliedBehind, TypeInv, TypeOK
      <3>2. applied[p] <= product'[p].version
        BY <1>2, <1>3, <3>1, ProductGrows
      <3>3. ASSUME NEW i \in Instances, ApplyBuilding(i)
            PROVE  applied'[p] <= product'[p].version
        <4>1. PICK e \in Event : e = task[i].event
          BY <3>3, HandledEvent DEF ApplyBuilding
        <4>2. NotAhead(e.product, e.doc) /\ e.doc \in Doc /\ e.product \in Products
          BY <3>3, <4>1, EventParts DEF Versions, EventsBehind, ApplyBuilding, At
        <4>3. applied'[p] \in {applied[p], IF p = e.product THEN e.doc.version ELSE applied[p]}
          BY <3>3, <4>1, <4>2 DEF ApplyBuilding, TypeInv, TypeOK
        <4>4. QED
          BY <1>1, <3>2, <4>2, <4>3
      <3>4. UNCHANGED applied \/ \E i \in Instances : ApplyBuilding(i)
        BY AppliedMoves
      <3>5. QED
        BY <3>2, <3>3, <3>4
    <2>2. QED
      BY <2>1 DEF AppliedBehind
  <1>6. EventsBehind'
    <2>1. ASSUME NEW i \in Instances, NEW p \in Products, NEW doc \in Doc,
                 task'[i].op = "apply", task'[i].event = [product |-> p, doc |-> doc]
          PROVE  NotAhead(p, doc)
      <3>1. CASE task'[i] = task[i]
        BY <2>1, <3>1 DEF Versions, EventsBehind
      <3>2. ASSUME NEW q \in Products, NEW e \in Sent(q), task'[i].event = e
            PROVE  NotAhead(p, doc)
        <4>1. e \in Event /\ NotAhead(e.product, e.doc)
          BY <3>2, SentIsEvent
        <4>2. e.product = p /\ e.doc = doc
          BY <2>1, <3>2
        <4>3. QED
          BY <4>1, <4>2
      <3>3. QED
        BY <2>1, <3>1, <3>2, TaskMoves
    <2>2. QED
      BY <1>1, <2>1 DEF EventsBehind, NotAhead
  <1>7. PagesBehind'
    <2>1. ASSUME NEW i \in Instances, NEW p \in Products, NEW doc \in Doc,
                 [product |-> p, doc |-> doc] \in task'[i].page
          PROVE  NotAhead(p, doc) /\ ~doc.deleted
      <3>1. CASE task'[i] = task[i]
        BY <2>1, <3>1 DEF Versions, PagesBehind
      <3>2. task'[i].op = "bulk"
        BY <2>1 DEF TypeInv, Tasks
      <3>3. ASSUME NEW S \in SUBSET Products,
                   task'[i].page = {[product |-> q, doc |-> product[q]] : q \in {r \in S : ~product[r].deleted}}
            PROVE  NotAhead(p, doc) /\ ~doc.deleted
        <4>1. doc = product[p] /\ ~product[p].deleted
          BY <2>1, <3>3
        <4>2. QED
          BY <1>2, <1>3, <4>1 DEF NotAhead
      <3>4. QED
        BY <3>1, <3>2, <3>3, TaskMoves DEF Filled
    <2>2. QED
      BY <1>1, <2>1 DEF PagesBehind, NotAhead
  <1>8. QED
    BY <1>4, <1>5, <1>6, <1>7 DEF Versions

-----------------------------------------------------------------------------
(* What is applied is kept *)

(* A page is not behind what the index it goes to holds.                   *)
PageIsNewer ==
  \A i \in Instances : \A p \in Products \ raced : \A doc \in Doc :
    [product |-> p, doc |-> doc] \in task[i].page =>
      docs[task[i].index][p].version <= doc.version /\ ~docs[task[i].index][p].deleted

(* What a rebuild's index will hold of p is as new as what was applied.    *)
Covers(i, p) ==
  \/ p \in task[i].todo
  \/ \E doc \in Doc : [product |-> p, doc |-> doc] \in task[i].page /\ doc.version >= applied[p]
  \/ docs[task[i].index][p].version >= applied[p]

BuildCovers ==
  \A i \in Instances : \A p \in Products \ raced :
    task[i].op \in Filled /\ task[i].index \in building /\ ~product[p].deleted => Covers(i, p)

(* A handler's first write is in the live index.                           *)
LiveCovers ==
  \A i \in Instances : \A p \in Products \ raced : \A doc \in Doc :
    /\ task[i].op = "apply" /\ task[i].event = [product |-> p, doc |-> doc]
    /\ live # None /\ ~product[p].deleted
    => docs[live][p].version >= doc.version

Kept == PageIsNewer /\ AppliedIsKept /\ BuildCovers /\ LiveCovers

(* A document of an index that stays only gets newer, but for a page.      *)
LEMMA DocsGrow ==
  ASSUME TypeInv, TypeInv', OwnIndex, Versions, [Next]_vars, NEW x \in Indices, NEW p \in Products,
         x \in exists', \A i \in Instances : Bulk(i) => x # task[i].index
  PROVE  docs'[x][p].version >= docs[x][p].version
  <1>1. docs[x][p] \in Doc /\ docs'[x][p] \in Doc
    BY DEF TypeInv, TypeOK
  <1>2. docs[x][p].version \in Int /\ docs'[x][p].version \in Int
    BY <1>1, SearchAssumption DEF Doc
  <1>3. QED
    BY <1>2, DocsMove

(* Raced products stay raced.                                              *)
LEMMA RacedGrows ==
  ASSUME [Next]_vars
  PROVE  raced \subseteq raced'
  <1>1. ASSUME NEW j \in Instances,
               Handler(j) \/ BootCheck(j) \/ Reindex(j) \/ RebuildStep(j) \/ Failure(j)
        PROVE  raced \subseteq raced'
    BY <1>1 DEF Handler, ApplyLive, ApplyBuilding, ApplyFails, BootCheck, Reindex, Acquire,
       RebuildStep, AcquireAtBoot, BootConflict, DropAbandoned, Record, KeepLease, CreateIndex,
       Export, Bulk, Renew, SwapRead, SwapAlias, MoveAlias, DropReplaced, Undo, Release, Failure,
       StepFails, Outage, CleanupFails, Crash
  <1>2. CASE (\E p \in Products : ChangeProduct(p)) \/ Expire \/ ExpireEarly \/ UNCHANGED vars
    BY <1>2 DEF ChangeProduct, Expire, ExpireEarly, vars
  <1>3. QED
    BY <1>1, <1>2 DEF Next

(* A handler's second write finds no exported page of a product that does  *)
(* not count as raced.                                                     *)
LEMMA ApplyRaces ==
  ASSUME TypeInv, NEW i \in Instances, ApplyBuilding(i), building # {},
         NEW j \in Instances, NEW p \in Products, NEW doc,
         [product |-> p, doc |-> doc] \in task[j].page, task[i].event.product = p
  PROVE  p \in raced'
  <1>1. p \in Exported
    BY DEF Exported
  <1>2. QED
    BY <1>1 DEF ApplyBuilding

(* One step: pages.                                                        *)
LEMMA PageIsNewerStep ==
  ASSUME TypeInv, TypeInv', OwnIndex, Versions, PageIsNewer, [Next]_vars
  PROVE  PageIsNewer'
  <1>1. ASSUME NEW i \in Instances, NEW p \in Products \ raced', NEW doc \in Doc,
               [product |-> p, doc |-> doc] \in task'[i].page
        PROVE  docs'[task'[i].index][p].version <= doc.version /\ ~docs'[task'[i].index][p].deleted
    <2>1. task'[i].op = "bulk"
      BY <1>1 DEF TypeInv, Tasks
    <2>2. task'[i].index \in Indices
      BY <2>1 DEF TypeInv, Tasks, Filling
    <2>3. \A d \in Doc : d.version \in Int /\ d.version >= 0
      BY SearchAssumption DEF Doc
    <2>4. CASE task'[i] = task[i]
      <3> DEFINE x == task[i].index
      <3>1. task[i].op = "bulk" /\ x # live /\ [product |-> p, doc |-> doc] \in task[i].page
        BY <1>1, <2>1, <2>4 DEF OwnIndex, NotSearched, Filling
      <3>2. docs[x][p].version <= doc.version /\ ~docs[x][p].deleted
        BY <3>1, RacedGrows DEF PageIsNewer
      <3>3. CASE docs'[x][p] = docs[x][p]
        BY <2>4, <3>2, <3>3
      <3>4. CASE docs'[x][p] = NoDoc
        BY <2>3, <2>4, <3>4 DEF NoDoc
      <3>5. ASSUME NEW j \in Instances, ApplyBuilding(j), x \in building, task[j].event.product = p
            PROVE  FALSE
        BY <3>1, <3>5, ApplyRaces
      <3>6. ASSUME NEW j \in Instances, Bulk(j), x = task[j].index
            PROVE  FALSE
        <4>1. j = i
          BY <2>2, <2>4, <3>6, SearchAssumption DEF OwnIndex, Unshared
        <4>2. [To(i, "renew") EXCEPT !.page = {}].op = "renew"
          BY DEF TypeInv, To, Tasks
        <4>3. QED
          BY <2>1, <3>6, <4>1, <4>2, Moved DEF Bulk
      <3>7. QED
        BY <2>2, <2>4, <3>1, <3>3, <3>4, <3>5, <3>6, DocsMove
    <2>5. ASSUME NEW S \in SUBSET Products, Export(i, S), task'[i].index = task[i].index,
                 task'[i].page = {[product |-> q, doc |-> product[q]] : q \in {r \in S : ~product[r].deleted}}
          PROVE  docs'[task'[i].index][p].version <= doc.version /\ ~docs'[task'[i].index][p].deleted
      <3>1. doc = product[p] /\ ~product[p].deleted
        BY <1>1, <2>5
      <3>2. docs' = docs
        BY <2>5 DEF Export, elastic
      <3>3. NotAhead(p, docs[task'[i].index][p])
        BY <2>2 DEF Versions, DocsBehind
      <3>4. QED
        BY <3>1, <3>2, <3>3 DEF NotAhead
    <2>6. QED
      BY <2>1, <2>4, <2>5, TaskMoves DEF Filled
  <1>2. QED
    BY <1>1 DEF PageIsNewer

(* Where the live alias goes, and the building alias comes from.           *)
LEMMA AliasesMove ==
  ASSUME [Next]_vars
  PROVE  /\ \/ live' \in {live, None}
            \/ \E i \in Instances :
                 /\ SwapAlias(i) /\ task[i].op = "swap"
                 /\ live' = task[i].index /\ task[i].index \in exists
                 /\ raced' = raced \cup HalfApplied
         /\ \A x \in building' : x \in building \/ \E i \in Instances : CreateIndex(i) /\ x = task[i].index
  <1>1. ASSUME NEW S, Drop(S)
        PROVE  live' \in {live, None} /\ building' \subseteq building
    BY <1>1 DEF Drop
  <1>2. ASSUME NEW i \in Instances, SwapAlias(i)
        PROVE  /\ \/ live' = live
                  \/ /\ task[i].op = "swap" /\ live' = task[i].index /\ task[i].index \in exists
                     /\ raced' = raced \cup HalfApplied
               /\ building' \subseteq building
    BY <1>2 DEF SwapAlias, Swappable, MoveAlias, Built, At
  <1>3. ASSUME NEW i \in Instances, CreateIndex(i)
        PROVE  live' = live /\ \A x \in building' : x \in building \/ x = task[i].index
    BY <1>3 DEF CreateIndex
  <1>4. ASSUME NEW i \in Instances,
               Handler(i) \/ BootCheck(i) \/ Reindex(i) \/ RebuildStep(i) \/ Failure(i)
        PROVE  \/ UNCHANGED <<live, building>>
               \/ DropAbandoned(i) \/ DropReplaced(i) \/ Undo(i)
               \/ CreateIndex(i) \/ SwapAlias(i)
    BY <1>4 DEF Handler, ApplyLive, ApplyBuilding, ApplyFails, BootCheck, Reindex, Acquire,
       RebuildStep, AcquireAtBoot, BootConflict, Record, KeepLease, Export, Bulk, Renew, SwapRead,
       Release, Failure, StepFails, Outage, CleanupFails, Crash, elastic
  <1>5. ASSUME NEW i \in Instances, DropAbandoned(i) \/ DropReplaced(i) \/ Undo(i)
        PROVE  \E S : Drop(S)
    BY <1>5 DEF DropAbandoned, DropReplaced, Undo
  <1>6. CASE (\E p \in Products : ChangeProduct(p)) \/ Expire \/ ExpireEarly \/ UNCHANGED vars
    BY <1>6 DEF ChangeProduct, Expire, ExpireEarly, vars, elastic
  <1>7. QED
    BY <1>1, <1>2, <1>3, <1>4, <1>5, <1>6 DEF Next

(* What a handler's return adds to what was applied.                       *)
LEMMA AppliedFrom ==
  ASSUME TypeInv, [Next]_vars, NEW p \in Products, applied'[p] # applied[p]
  PROVE  \E i \in Instances : \E doc \in Doc :
           /\ ApplyBuilding(i) /\ task[i].op = "apply"
           /\ task[i].event = [product |-> p, doc |-> doc] /\ task[i].event.product = p
           /\ applied'[p] = doc.version
  <1>1. PICK i \in Instances : ApplyBuilding(i)
    BY AppliedMoves
  <1>2. PICK e \in Event : e = task[i].event
    BY <1>1, HandledEvent DEF ApplyBuilding
  <1>3. e.product \in Products /\ e.doc \in Doc /\ e = [product |-> e.product, doc |-> e.doc]
    BY EventParts
  <1>4. applied' = [applied EXCEPT ![e.product] = IF @ < e.doc.version THEN e.doc.version ELSE @]
    BY <1>1, <1>2 DEF ApplyBuilding
  <1>5. p = e.product /\ applied'[p] = e.doc.version
    BY <1>3, <1>4 DEF TypeInv, TypeOK
  <1>6. QED
    BY <1>1, <1>2, <1>3, <1>5 DEF ApplyBuilding, At

(* One step: what is searched.                                             *)
LEMMA AppliedIsKeptStep ==
  ASSUME TypeInv, TypeInv', OwnIndex, Versions, Kept, [Next]_vars
  PROVE  AppliedIsKept'
  <1>1. ASSUME NEW p \in Products \ raced', live' # None, ~product'[p].deleted
        PROVE  docs'[live'][p].version >= applied'[p]
    <2>1. p \notin raced /\ ~product[p].deleted /\ live' \in Indices /\ live' \in exists'
      BY <1>1, RacedGrows, ProductGrows DEF TypeInv, TypeOK
    <2>2. applied[p] \in Int /\ applied'[p] \in Int
      BY SearchAssumption DEF TypeInv, TypeOK
    <2>3. \A x \in Indices : docs[x][p].version \in Int /\ docs'[x][p].version \in Int
      BY SearchAssumption DEF TypeInv, TypeOK, Doc
    <2>4. CASE live' = live
      <3>1. docs'[live][p].version >= docs[live][p].version
        <4>1. \A i \in Instances : Bulk(i) => live # task[i].index
          BY PageWritten
        <4>2. QED
          BY <2>1, <2>4, <4>1, DocsGrow
      <3>2. CASE applied'[p] = applied[p]
        BY <1>1, <2>1, <2>2, <2>3, <2>4, <3>1, <3>2 DEF Kept, AppliedIsKept
      <3>3. CASE applied'[p] # applied[p]
        <4>1. PICK i \in Instances, doc \in Doc :
                /\ task[i].op = "apply" /\ task[i].event = [product |-> p, doc |-> doc]
                /\ applied'[p] = doc.version
          BY <3>3, AppliedFrom
        <4>2. docs[live][p].version >= doc.version
          BY <1>1, <2>1, <2>4, <4>1 DEF Kept, LiveCovers
        <4>3. QED
          BY <2>1, <2>2, <2>3, <2>4, <3>1, <4>1, <4>2
      <3>4. QED
        BY <3>2, <3>3
    <2>5. ASSUME NEW i \in Instances, SwapAlias(i), task[i].op = "swap", live' = task[i].index,
                 task[i].index \in exists
          PROVE  docs'[live'][p].version >= applied'[p]
      <3>1. docs' = docs /\ applied' = applied
        BY <2>5 DEF SwapAlias
      <3>2. task[i].index \in building
        BY <2>5 DEF OwnIndex, DoneBuilds
      <3>3. Covers(i, p)
        BY <2>1, <2>5, <3>2 DEF Kept, BuildCovers, Filled
      <3>4. task[i].todo = {} /\ task[i].page = {}
        BY <2>5 DEF TypeInv, Tasks
      <3>5. QED
        BY <2>5, <3>1, <3>3, <3>4 DEF Covers
    <2>6. QED
      BY <1>1, <2>4, <2>5, AliasesMove
  <1>2. QED
    BY <1>1 DEF AppliedIsKept

(* One step: the handlers' first writes.                                   *)
LEMMA LiveCoversStep ==
  ASSUME TypeInv, TypeInv', OwnIndex, Versions, Kept, [Next]_vars
  PROVE  LiveCovers'
  <1>1. ASSUME NEW i \in Instances, NEW p \in Products \ raced', NEW doc \in Doc,
               task'[i].op = "apply", task'[i].event = [product |-> p, doc |-> doc],
               live' # None, ~product'[p].deleted
        PROVE  docs'[live'][p].version >= doc.version
    <2>1. p \notin raced /\ ~product[p].deleted /\ live' \in Indices /\ live' \in exists'
      BY <1>1, RacedGrows, ProductGrows DEF TypeInv, TypeOK
    <2>2. \A x \in Indices : docs[x][p].version \in Int /\ docs'[x][p].version \in Int
      BY SearchAssumption DEF TypeInv, TypeOK, Doc
    <2>3. doc.version \in Int
      BY SearchAssumption DEF Doc
    <2>4. CASE task'[i] = task[i]
      <3>1. CASE live' = live
        <4>1. \A j \in Instances : Bulk(j) => live # task[j].index
          BY PageWritten
        <4>2. docs'[live][p].version >= docs[live][p].version
          BY <2>1, <3>1, <4>1, DocsGrow
        <4>3. docs[live][p].version >= doc.version
          BY <1>1, <2>1, <2>4, <3>1 DEF Kept, LiveCovers
        <4>4. QED
          BY <2>1, <2>2, <2>3, <3>1, <4>2, <4>3
      <3>2. CASE live' # live
        <4>1. p \in HalfApplied
          BY <1>1, <2>4 DEF HalfApplied
        <4>2. QED
          BY <1>1, <3>2, <4>1, AliasesMove
      <3>3. QED
        BY <3>1, <3>2
    <2>5. ASSUME NEW q \in Products, NEW e \in Sent(q), ApplyLive(i, e), task'[i].event = e
          PROVE  docs'[live'][p].version >= doc.version
      <3>1. e \in Event /\ e.product = p /\ e.doc = doc
        BY <1>1, <2>5, SentIsEvent
      <3>2. Write(live, e) /\ live \in Indices /\ live' = live
        BY <2>5 DEF ApplyLive, TypeInv, TypeOK
      <3>3. QED
        BY <3>1, <3>2, WriteGuards
    <2>6. QED
      BY <1>1, <2>4, <2>5, TaskMoves DEF Filled
  <1>2. QED
    BY <1>1 DEF LiveCovers

(* The index a rebuild goes on with had the building alias already.        *)
LEMMA StillBuilding ==
  ASSUME TypeInv, OwnIndex, [Next]_vars, NEW i \in Instances, task[i].op \in Filled,
         task[i].index \in building'
  PROVE  task[i].index \in building
  <1>1. ASSUME NEW j \in Instances, CreateIndex(j), task[i].index = task[j].index
        PROVE  FALSE
    <2>1. task[i].index # None /\ task[j].op = "create"
      BY <1>1 DEF TypeInv, Tasks, Filled, Filling, CreateIndex, At
    <2>2. i = j
      BY <1>1, <2>1 DEF OwnIndex, Unshared
    <2>3. QED
      BY <2>1, <2>2 DEF Filled
  <1>2. QED
    BY <1>1, AliasesMove

(* A handler's second write reaches the index that is being built.         *)
LEMMA ApplyReaches ==
  ASSUME TypeInv, NEW i \in Instances, ApplyBuilding(i), NEW x \in building,
         NEW p \in Products, NEW doc \in Doc, task[i].event = [product |-> p, doc |-> doc]
  PROVE  docs'[x][p].version >= doc.version
  <1> DEFINE e == [product |-> p, doc |-> doc]
  <1>1. e \in Event /\ e.product = p /\ e.doc = doc
    BY DEF Event
  <1>2. Write(x, task[i].event) /\ x \in Indices
    BY DEF ApplyBuilding, BuildingIndices, TypeInv, TypeOK
  <1>3. Write(x, e)
    BY <1>2
  <1> HIDE DEF e
  <1>4. QED
    BY <1>1, <1>2, <1>3, WriteGuards

(* One step: what is being built, where the rebuild itself does not move.  *)
LEMMA BuildCoversOthers ==
  ASSUME TypeInv, TypeInv', OwnIndex, Versions, Kept, [Next]_vars,
         NEW i \in Instances, NEW p \in Products \ raced',
         task'[i] = task[i], task[i].op \in Filled, task[i].index \in building', ~product'[p].deleted
  PROVE  Covers(i, p)'
  <1> DEFINE x == task[i].index
  <1>1. p \notin raced /\ ~product[p].deleted /\ x \in Indices /\ x \in exists' /\ x \in building
    BY RacedGrows, ProductGrows, StillBuilding DEF TypeInv, TypeOK
  <1>2. docs[x][p].version \in Int /\ docs'[x][p].version \in Int
    BY <1>1, SearchAssumption DEF TypeInv, TypeOK, Doc
  <1>3. applied[p] \in Int /\ applied'[p] \in Int
    BY SearchAssumption DEF TypeInv, TypeOK
  <1>4. Covers(i, p)
    BY <1>1 DEF Kept, BuildCovers
  <1>5. ASSUME NEW j \in Instances, Bulk(j), x = task[j].index
        PROVE  FALSE
    <2>1. j = i
      BY <1>1, <1>5, SearchAssumption DEF OwnIndex, Unshared
    <2>2. [To(i, "renew") EXCEPT !.page = {}].op = "renew"
      BY DEF TypeInv, To, Tasks
    <2>3. task[i].op = "bulk"
      BY <1>5, <2>1 DEF Bulk, At
    <2>4. QED
      BY <1>5, <2>1, <2>2, <2>3, Moved DEF Bulk
  <1>6. docs'[x][p].version >= docs[x][p].version
    BY <1>1, <1>5, DocsGrow
  <1>7. CASE applied'[p] = applied[p]
    <2>1. CASE p \in task[i].todo
      BY <2>1 DEF Covers
    <2>2. ASSUME NEW doc \in Doc, [product |-> p, doc |-> doc] \in task[i].page, doc.version >= applied[p]
          PROVE  Covers(i, p)'
      BY <1>7, <2>2 DEF Covers
    <2>3. CASE docs[x][p].version >= applied[p]
      <3>1. docs'[x][p].version >= applied'[p]
        BY <1>2, <1>3, <1>6, <1>7, <2>3
      <3>2. QED
        BY <3>1 DEF Covers
    <2>4. QED
      BY <1>4, <2>1, <2>2, <2>3 DEF Covers
  <1>8. CASE applied'[p] # applied[p]
    <2>1. PICK j \in Instances, doc \in Doc :
            /\ ApplyBuilding(j)
            /\ task[j].event = [product |-> p, doc |-> doc] /\ task[j].event.product = p
            /\ applied'[p] = doc.version
      <3>1. p \in Products
        OBVIOUS
      <3>2. QED
        BY ONLY TypeInv, [Next]_vars, <1>8, <3>1, AppliedFrom
    <2>2. docs'[x][p].version >= applied'[p]
      BY <1>1, <2>1, ApplyReaches
    <2>3. QED
      BY <2>2 DEF Covers
  <1>9. QED
    BY <1>7, <1>8

(* One step: what is being built.                                          *)
LEMMA BuildCoversStep ==
  ASSUME TypeInv, TypeInv', OwnIndex, Versions, Kept, [Next]_vars
  PROVE  BuildCovers'
  <1>1. ASSUME NEW i \in Instances, NEW p \in Products \ raced',
               task'[i].op \in Filled, task'[i].index \in building', ~product'[p].deleted
        PROVE  Covers(i, p)'
    <2> DEFINE x == task[i].index
    <2>1. p \notin raced /\ ~product[p].deleted
      BY <1>1, RacedGrows, ProductGrows
    <2>2. applied[p] \in Int /\ applied[p] <= product[p].version /\ product[p] \in Doc
      BY SearchAssumption DEF TypeInv, TypeOK, Versions, AppliedBehind
    <2>3. CASE task'[i] = task[i]
      BY <1>1, <2>3, BuildCoversOthers
    <2>4. CASE task'[i].todo = Products
      BY <2>4 DEF Covers
    <2>5. ASSUME task[i].op \in Filled, task'[i].index = x, building' = building
          PROVE  Covers(i, p) /\ x \in Indices
      BY <1>1, <2>1, <2>5 DEF Kept, BuildCovers, TypeInv, TypeOK
    <2>6. ASSUME NEW S \in SUBSET Products, Export(i, S), task'[i].index = x,
                 task'[i].todo = task[i].todo \ S,
                 task'[i].page = {[product |-> q, doc |-> product[q]] : q \in {r \in S : ~product[r].deleted}}
          PROVE  Covers(i, p)'
      <3>1. task[i].op = "export" /\ docs' = docs /\ applied' = applied /\ building' = building
        BY <2>6 DEF Export, At, elastic
      <3>2. Covers(i, p) /\ task[i].page = {}
        BY <2>5, <2>6, <3>1 DEF Filled, TypeInv, Tasks
      <3>3. CASE p \in S
        <4>1. [product |-> p, doc |-> product[p]] \in task'[i].page
          BY <2>1, <2>6, <3>3
        <4>2. product[p].version >= applied'[p]
          BY <2>2, <3>1, SearchAssumption DEF Doc
        <4>3. QED
          BY <2>2, <4>1, <4>2 DEF Covers
      <3>4. CASE p \notin S
        BY <2>6, <3>1, <3>2, <3>4 DEF Covers
      <3>5. QED
        BY <3>3, <3>4
    <2>7. ASSUME Bulk(i), task'[i].index = x, task'[i].todo = task[i].todo
          PROVE  Covers(i, p)'
      <3>1. task[i].op = "bulk" /\ applied' = applied /\ building' = building
        BY <2>7 DEF Bulk, At
      <3>2. Covers(i, p) /\ x \in Indices
        BY <2>5, <2>7, <3>1 DEF Filled
      <3>3. \A e \in task[i].page : e \in Event
        BY DEF TypeInv, Tasks
      <3>4. CASE p \in task[i].todo
        BY <2>7, <3>4 DEF Covers
      <3>5. ASSUME NEW doc \in Doc, [product |-> p, doc |-> doc] \in task[i].page, doc.version >= applied[p]
            PROVE  Covers(i, p)'
        <4>1. docs'[x][p] = doc
          BY <2>7, <3>5, PageWritten
        <4>2. QED
          BY <2>7, <3>1, <3>5, <4>1 DEF Covers
      <3>6. CASE docs[x][p].version >= applied[p]
        <4>1. ASSUME NEW e \in task[i].page, e.product = p, docs'[x][p] = e.doc
              PROVE  docs'[x][p].version >= applied[p]
          <5>1. e.doc \in Doc /\ e = [product |-> p, doc |-> e.doc]
            BY <3>3, <4>1, EventParts
          <5>2. docs[x][p].version <= e.doc.version
            BY <2>1, <5>1 DEF Kept, PageIsNewer
          <5>3. docs[x][p].version \in Int /\ e.doc.version \in Int
            BY <3>2, <5>1, SearchAssumption DEF TypeInv, TypeOK, Doc
          <5>4. QED
            BY <2>2, <3>6, <4>1, <5>2, <5>3
        <4>2. docs'[x][p].version >= applied[p]
          BY <2>7, <3>2, <3>6, <4>1, PageWritten
        <4>3. QED
          BY <2>7, <3>1, <4>2 DEF Covers
      <3>7. QED
        BY <3>2, <3>4, <3>5, <3>6 DEF Covers
    <2>8. ASSUME Renew(i) \/ SwapRead(i), task'[i].op \in {"export", "read", "swap"},
                 task'[i].index = x, task'[i].todo = task[i].todo
          PROVE  Covers(i, p)'
      <3>1. /\ task[i].op \in {"renew", "read"} /\ applied' = applied /\ docs' = docs
            /\ building' = building
        BY <2>8 DEF Renew, KeepLease, SwapRead, At, elastic
      <3>2. Covers(i, p) /\ task[i].page = {}
        BY <2>5, <2>8, <3>1 DEF Filled, TypeInv, Tasks
      <3>3. QED
        BY <2>8, <3>1, <3>2 DEF Covers
    <2>9. QED
      BY <1>1, <2>3, <2>4, <2>6, <2>7, <2>8, TaskMoves DEF Filled
  <1>2. QED
    BY <1>1 DEF BuildCovers

(* What holds of versions, in every state.                                 *)
SearchInv == TypeInv /\ OwnIndex /\ Versions /\ Kept

(* As above.                                                               *)
LEMMA SearchInvHolds == Spec => []SearchInv
  <1>1. Init => SearchInv
    <2>1. ASSUME Init
          PROVE  SearchInv
      <3>1. TypeInv /\ OwnIndex
        <4>1. \A i \in Instances : task[i] = Idle /\ Idle.op = "idle" /\ Idle.index = None
          BY <2>1 DEF Init, Idle
        <4>2. OwnIndex
          BY <4>1 DEF OwnIndex, Unshared, NotSearched, NotDropped, HolderBuilds, DoneBuilds, Filling
        <4>3. QED
          BY <2>1, <4>2, TypesInit
      <3>2. \A i \in Instances : task[i].op = "idle" /\ task[i].page = {}
        BY <2>1 DEF Init, Idle
      <3>3. DocsBehind /\ AppliedBehind
        BY <2>1 DEF Init, DocsBehind, AppliedBehind, NotAhead, NoDoc
      <3>4. EventsBehind /\ PagesBehind
        BY <3>2 DEF EventsBehind, PagesBehind
      <3>5. Kept
        BY <2>1, <3>2 DEF Init, Kept, PageIsNewer, AppliedIsKept, BuildCovers, LiveCovers, Filled
      <3>6. QED
        BY <3>1, <3>3, <3>4, <3>5 DEF SearchInv, Versions
    <2>2. QED
      BY <2>1
  <1>2. SearchInv /\ [Next]_vars => SearchInv'
    <2>1. ASSUME SearchInv, [Next]_vars
          PROVE  SearchInv'
      <3>1. TypeInv' /\ OwnIndex'
        BY <2>1, TypesStep, OwnIndexStep DEF SearchInv
      <3>2. Versions'
        BY <2>1, <3>1, VersionsStep DEF SearchInv
      <3>3. PageIsNewer' /\ AppliedIsKept' /\ BuildCovers' /\ LiveCovers'
        BY <2>1, <3>1, PageIsNewerStep, AppliedIsKeptStep, BuildCoversStep, LiveCoversStep
           DEF SearchInv, Kept
      <3>4. QED
        BY <3>1, <3>2, <3>3 DEF SearchInv, Kept
    <2>2. QED
      BY <2>1
  <1>3. QED
    BY <1>1, <1>2, PTL DEF Spec

(* What a handler returned for is not lost by rebuilds, whatever fails,    *)
(* expires or is taken over: the live index holds it or something newer,   *)
(* for every product that was not caught in one of the two windows.        *)
THEOREM AppliedStays == Spec => []AppliedIsKept
  <1>1. SearchInv => AppliedIsKept
    BY DEF SearchInv, Kept
  <1>2. QED
    BY <1>1, SearchInvHolds, PTL

(* As long as an index exists no write takes a document of it back to an   *)
(* older version, and a tombstone stays.                                   *)
THEOREM IndexMovesForward == Spec => IndexNeverGoesBack
  <1>1. ASSUME SearchInv, SearchInv', [Next]_vars,
               NEW x \in exists \cap exists', NEW p \in Products \ raced'
        PROVE  /\ docs'[x][p].version >= docs[x][p].version
               /\ docs[x][p].deleted => docs'[x][p].deleted
    <2>1. x \in Indices /\ docs[x][p] \in Doc /\ docs'[x][p] \in Doc /\ p \notin raced /\ product[p] \in Doc
      BY <1>1, RacedGrows DEF SearchInv, TypeInv, TypeOK
    <2>2. docs[x][p].version \in Int /\ product[p].version \in Int
      BY <2>1, SearchAssumption DEF Doc
    <2>3. CASE docs'[x][p] = docs[x][p]
      BY <2>2, <2>3
    <2>4. ASSUME NEW doc \in Doc, docs'[x][p] = doc, docs[x][p].version < doc.version, NotAhead(p, doc)
          PROVE  /\ docs'[x][p].version >= docs[x][p].version
                 /\ docs[x][p].deleted => docs'[x][p].deleted
      <3>1. NotAhead(p, docs[x][p]) /\ doc.version \in Int
        BY <1>1, <2>1, SearchAssumption DEF SearchInv, Versions, DocsBehind, Doc
      <3>2. ~docs[x][p].deleted
        BY <2>2, <2>4, <3>1 DEF NotAhead
      <3>3. QED
        BY <2>2, <2>4, <3>1, <3>2
    <2>5. ASSUME NEW i \in Instances, x = task[i].index, NEW e \in task[i].page,
                 e.product = p, docs'[x][p] = e.doc
          PROVE  /\ docs'[x][p].version >= docs[x][p].version
                 /\ docs[x][p].deleted => docs'[x][p].deleted
      <3>1. e.doc \in Doc /\ e = [product |-> p, doc |-> e.doc]
        BY <1>1, <2>5, EventParts DEF SearchInv, TypeInv, Tasks
      <3>2. docs[x][p].version <= e.doc.version /\ ~docs[x][p].deleted
        BY <1>1, <2>1, <2>5, <3>1 DEF SearchInv, Kept, PageIsNewer
      <3>3. e.doc.version \in Int
        BY <3>1, SearchAssumption DEF Doc
      <3>4. QED
        BY <2>2, <2>5, <3>2, <3>3
    <2>6. QED
      BY <1>1, <2>1, <2>3, <2>4, <2>5, DocsMove DEF SearchInv
  <1>2. SearchInv /\ SearchInv' /\ [Next]_vars =>
          [\A x \in exists \cap exists', p \in Products \ raced' :
             /\ docs'[x][p].version >= docs[x][p].version
             /\ docs[x][p].deleted => docs'[x][p].deleted]_vars
    BY <1>1
  <1>3. QED
    BY <1>2, SearchInvHolds, PTL DEF Spec, IndexNeverGoesBack

-----------------------------------------------------------------------------
(* One rebuild at a time, unless a lease expires early or an index that is *)
(* not wanted could not be deleted                                         *)

Calm == mishaps \cap {"slow", "outage"} = {}

(* Whoever rebuilds holds the lease.                                       *)
HolderOnly ==
  \A i \in Instances : task[i].op \notin Free => lease # None /\ lease.holder = i

(* The index the building alias points at is the one the lease tells, or   *)
(* the one its new holder is about to drop.                                *)
LeaseTells ==
  /\ lease = None => building = {}
  /\ \A h \in Instances : lease # None /\ lease.holder = h =>
       /\ lease.expired => task[h].op \in Free
       /\ task[h].op = "drop" => building \subseteq {task[h].old}
       /\ task[h].op # "drop" => building \subseteq {lease.index}
       /\ task[h].op \in {"record", "create", "cleanup", "release"} => building = {}
       /\ task[h].op \in Filling \cup {"cleanup", "undo"} => task[h].index = lease.index

Alone == Calm => HolderOnly /\ LeaseTells

(* Failures are never forgotten.                                           *)
LEMMA MishapsGrow ==
  ASSUME [Next]_vars
  PROVE  mishaps \subseteq mishaps'
  <1>1. ASSUME NEW j \in Instances,
               Handler(j) \/ BootCheck(j) \/ Reindex(j) \/ RebuildStep(j)
        PROVE  mishaps \subseteq mishaps'
    BY <1>1 DEF Handler, ApplyLive, ApplyBuilding, ApplyFails, BootCheck, Reindex, Acquire,
       RebuildStep, AcquireAtBoot, BootConflict, DropAbandoned, Record, KeepLease, CreateIndex,
       Export, Bulk, Renew, SwapRead, SwapAlias, Mishap, DropReplaced, Undo, Release, luck
  <1>2. ASSUME NEW j \in Instances, Failure(j)
        PROVE  mishaps \subseteq mishaps'
    BY <1>2 DEF Failure, StepFails, Outage, CleanupFails, Crash, Mishap
  <1>3. CASE (\E p \in Products : ChangeProduct(p)) \/ Expire \/ ExpireEarly \/ UNCHANGED vars
    BY <1>3 DEF ChangeProduct, Expire, ExpireEarly, vars, luck, Mishap
  <1>4. QED
    BY <1>1, <1>2, <1>3 DEF Next

(* The fields of tasks on the way.                                         *)
LEMMA MoreFields ==
  ASSUME TypeInv, NEW k \in Instances, NEW x
  PROVE  /\ [To(k, "drop") EXCEPT !.old = x].op = "drop"
         /\ [To(k, "drop") EXCEPT !.old = x].old = x
         /\ [To(k, "record") EXCEPT !.old = x].op = "record"
         /\ [To(k, "create") EXCEPT !.index = x].op = "create"
         /\ [To(k, "create") EXCEPT !.index = x].index = x
         /\ [To(k, "undo") EXCEPT !.page = x].op = "undo"
         /\ [To(k, "undo") EXCEPT !.page = x].index = task[k].index
         /\ [Idle EXCEPT !.op = "acquire", !.boot = x].op = "acquire"
         /\ [Idle EXCEPT !.op = "apply", !.event = x].op = "apply"
         /\ Idle.op = "idle"
  <1>1. task[k] \in Tasks
    BY DEF TypeInv
  <1>2. QED
    BY <1>1 DEF To, Tasks, Idle

(* Who rebuilds alone leaves the others alone.                             *)
LEMMA AloneAfter ==
  ASSUME NEW k \in Instances,
         \A j \in Instances : j # k => task[j].op \in Free /\ task'[j] = task[j],
         \/ lease' = None /\ building' = {} /\ task'[k].op \in Free
         \/ /\ lease' # None /\ lease'.holder = k
            /\ lease'.expired => task'[k].op \in Free
            /\ task'[k].op = "drop" => building' \subseteq {task'[k].old}
            /\ task'[k].op # "drop" => building' \subseteq {lease'.index}
            /\ task'[k].op \in {"record", "create", "cleanup", "release"} => building' = {}
            /\ task'[k].op \in Filling \cup {"cleanup", "undo"} => task'[k].index = lease'.index
  PROVE  HolderOnly' /\ LeaseTells'
  BY DEF HolderOnly, LeaseTells

(* Handlers, and instances that wait for their turn, need no lease.        *)
LEMMA AloneQuiet ==
  ASSUME HolderOnly, LeaseTells, NEW k \in Instances,
         task[k].op \in Free, task'[k].op \in Free,
         \A j \in Instances : j # k => task'[j] = task[j],
         UNCHANGED <<lease, building>>
  PROVE  HolderOnly' /\ LeaseTells'
  <1>1. HolderOnly'
    BY DEF HolderOnly
  <1>2. \A h \in Instances : lease # None /\ lease.holder = h =>
       /\ lease.expired => task'[h].op \in Free
       /\ task'[h].op = "drop" => building \subseteq {task'[h].old}
       /\ task'[h].op # "drop" => building \subseteq {lease.index}
       /\ task'[h].op \in {"record", "create", "cleanup", "release"} => building = {}
       /\ task'[h].op \in Filling \cup {"cleanup", "undo"} => task'[h].index = lease.index
    <2>1. ASSUME NEW h \in Instances, lease # None, lease.holder = h, h = k
          PROVE  building \subseteq {lease.index}
      BY <2>1 DEF LeaseTells, Free
    <2>2. QED
      BY <2>1 DEF LeaseTells, Free, Filling
  <1>3. QED
    BY <1>1, <1>2 DEF LeaseTells

(* The steps that no rebuild takes.                                        *)
LEMMA AloneHandler ==
  ASSUME TypeInv, HolderOnly, LeaseTells, NEW k \in Instances,
         Handler(k) \/ BootCheck(k) \/ BootConflict(k) \/ (Crash(k) /\ task[k].op \in Free)
  PROVE  HolderOnly' /\ LeaseTells'
  <1>1. task[k].op \in Free \/ UNCHANGED task
    BY DEF Handler, ApplyLive, ApplyBuilding, ApplyFails, BootCheck, BootConflict, At, Free
  <1>2. UNCHANGED <<lease, building>>
    BY DEF Handler, ApplyLive, ApplyBuilding, ApplyFails, BootCheck, BootConflict, Crash, elastic
  <1>3. CASE UNCHANGED task
    BY <1>2, <1>3 DEF HolderOnly, LeaseTells
  <1>4. ASSUME NEW next, Go(k, next), next.op \in Free, task[k].op \in Free
        PROVE  HolderOnly' /\ LeaseTells'
    BY <1>2, <1>4, AloneQuiet, Moved
  <1>5. \/ UNCHANGED task
        \/ Go(k, Idle)
        \/ Go(k, [Idle EXCEPT !.op = "acquire", !.boot = TRUE])
        \/ \E e : Go(k, [Idle EXCEPT !.op = "apply", !.event = e])
    BY DEF Handler, ApplyLive, ApplyBuilding, ApplyFails, BootCheck, BootConflict, Crash
  <1>6. \A x : /\ [Idle EXCEPT !.op = "acquire", !.boot = x].op = "acquire"
               /\ [Idle EXCEPT !.op = "apply", !.event = x].op = "apply"
               /\ Idle.op = "idle"
    BY MoreFields
  <1>7. QED
    BY <1>1, <1>3, <1>4, <1>5, <1>6 DEF Free

(* The lease is taken: nothing is being built, or what the last holder     *)
(* left, which the lease tells.                                            *)
LEMMA AloneAcquire ==
  ASSUME TypeInv, HolderOnly, LeaseTells, NEW k \in Instances,
         task[k].op \in {"idle", "acquire"}, Acquire(k)
  PROVE  HolderOnly' /\ LeaseTells'
  <1>1. \A j \in Instances : task[j].op \in Free
    BY DEF HolderOnly, LeaseTells, Acquire, Takeable
  <1>2. \A j \in Instances : j # k => task'[j] = task[j]
    BY Moved DEF Acquire
  <1>3. lease' # None /\ lease'.holder = k /\ lease'.index = None /\ lease'.expired = FALSE
    BY LeaseWritten DEF Acquire
  <1>4. building' = building
    BY DEF Acquire, elastic
  <1>5. CASE lease # None /\ lease.index # None
    <2>1. lease.holder \in Instances
      BY <1>5 DEF TypeInv, TypeOK, Lease
    <2>2. building \subseteq {lease.index}
      BY <1>1, <1>5, <2>1 DEF LeaseTells, Free
    <2>3. task'[k] = [To(k, "drop") EXCEPT !.old = lease.index]
      BY <1>5, Moved DEF Acquire
    <2>4. task'[k].op = "drop" /\ task'[k].old = lease.index
      BY <2>3, MoreFields
    <2>5. QED
      BY <1>1, <1>2, <1>3, <1>4, <2>2, <2>4, AloneAfter DEF Filling
  <1>6. CASE ~(lease # None /\ lease.index # None)
    <2>1. building = {}
      <3>1. CASE lease = None
        BY <3>1 DEF LeaseTells
      <3>2. CASE lease # None
        <4>1. lease.holder \in Instances
          BY <3>2 DEF TypeInv, TypeOK, Lease
        <4>2. building \subseteq {None}
          BY <1>1, <1>6, <3>2, <4>1 DEF LeaseTells, Free
        <4>3. QED
          BY <4>2, SearchAssumption DEF TypeInv, TypeOK
      <3>3. QED
        BY <3>1, <3>2
    <2>2. task'[k] = To(k, "record")
      BY <1>6, Moved DEF Acquire
    <2>3. task'[k].op = "record"
      BY <2>2, ToFields
    <2>4. QED
      BY <1>1, <1>2, <1>3, <1>4, <2>1, <2>3, AloneAfter DEF Filling
  <1>7. QED
    BY <1>5, <1>6

(* What is known of the one rebuild that runs.                             *)
LEMMA AloneBefore ==
  ASSUME TypeInv, HolderOnly, LeaseTells, NEW k \in Instances, task[k].op \notin Free
  PROVE  /\ lease # None /\ lease.holder = k /\ lease \in Lease
         /\ lease.expired = FALSE
         /\ \A j \in Instances : j # k => task[j].op \in Free
         /\ task[k].op = "drop" => building \subseteq {task[k].old}
         /\ task[k].op # "drop" => building \subseteq {lease.index}
         /\ task[k].op \in {"record", "create", "cleanup", "release"} => building = {}
         /\ task[k].op \in Filling \cup {"cleanup", "undo"} => task[k].index = lease.index
  BY DEF HolderOnly, LeaseTells, TypeInv, TypeOK, Lease

(* Steps of it that leave lease and building alias alone.                  *)
LEMMA AloneOn ==
  ASSUME TypeInv, HolderOnly, LeaseTells, NEW k \in Instances, task[k].op \notin Free,
         NEW next, Go(k, next), UNCHANGED lease,
         \/ next.op \in Free /\ task[k].op # "drop" /\ building' = building
         \/ next.op = "release" /\ building' = {}
         \/ next.op = "record" /\ building' = {}
         \/ next.op \in {"cleanup", "create"} /\ building' = {} /\ next.index = lease.index
         \/ /\ next.op \in Filled \cup {"undo"} /\ building' \subseteq {lease.index}
            /\ next.index = lease.index
  PROVE  HolderOnly' /\ LeaseTells'
  <1>1. \A j \in Instances : j # k => task[j].op \in Free /\ task'[j] = task[j]
    BY AloneBefore, Moved, ZenonT(60)
  <1>2. task'[k] = next
    BY Moved
  <1>3. lease' # None /\ lease'.holder = k /\ ~lease'.expired
    BY AloneBefore
  <1>4. building' \subseteq {lease'.index}
    BY AloneBefore
  <1>5. QED
    BY <1>1, <1>2, <1>3, <1>4, AloneAfter DEF Free, Filling, Filled

(* The lease is kept, with the index that is being built.                  *)
LEMMA AloneKeepsLease ==
  ASSUME TypeInv, HolderOnly, LeaseTells, NEW k \in Instances, Record(k) \/ Renew(k)
  PROVE  HolderOnly' /\ LeaseTells'
  <1> DEFINE op == IF task[k].todo = {} THEN "read" ELSE "export"
             next == IF Record(k) THEN [To(k, "create") EXCEPT !.index = NewName] ELSE To(k, op)
             x == IF Record(k) THEN NewName ELSE task[k].index
  <1>1. task[k].op \in {"record", "renew"} /\ task[k].op \notin Free
    BY DEF Record, Renew, At, Free
  <1>2. lease # None /\ lease.holder = k
    BY <1>1, AloneBefore
  <1>3. KeepLease(k, x, next)
    BY DEF Record, Renew
  <1>4. x \in Indices \cup {None}
    BY NameIsFresh DEF Record, FreshNames, TypeInv, Tasks
  <1>5. /\ next.index = x
        /\ \/ next.op = "create" /\ task[k].op = "record"
           \/ next.op \in {"read", "export"} /\ task[k].op = "renew" /\ x = task[k].index
    <2>1. CASE Record(k)
      BY <2>1, MoreFields DEF Record, At
    <2>2. CASE ~Record(k)
      BY <2>2, ToFields DEF Renew, At
    <2>3. QED
      BY <2>1, <2>2
  <1> HIDE DEF x, next
  <1>6. /\ lease' = [holder |-> k, index |-> x, expired |-> FALSE] /\ Go(k, next)
        /\ building' = building
    BY <1>2, <1>3 DEF KeepLease, elastic
  <1>7. lease' # None /\ lease'.holder = k /\ lease'.index = x /\ lease'.expired = FALSE
    BY <1>4, <1>6, LeaseWritten
  <1>8. task'[k] = next /\ \A j \in Instances : j # k => task[j].op \in Free /\ task'[j] = task[j]
    BY <1>1, <1>6, AloneBefore, Moved, ZenonT(60)
  <1>9. CASE next.op = "create" /\ task[k].op = "record"
    <2>1. building' = {}
      BY <1>1, <1>6, <1>9, AloneBefore
    <2>2. QED
      BY <1>5, <1>7, <1>8, <1>9, <2>1, AloneAfter DEF Filling
  <1>10. CASE next.op \in {"read", "export"} /\ task[k].op = "renew" /\ x = task[k].index
    <2>1. building' \subseteq {x}
      BY <1>1, <1>6, <1>10, AloneBefore DEF Filling
    <2>2. QED
      BY <1>5, <1>7, <1>8, <1>10, <2>1, AloneAfter DEF Filling
  <1>11. QED
    BY <1>5, <1>9, <1>10

(* The pages, the swap, the ends.                                          *)
LEMMA AloneRebuild ==
  ASSUME TypeInv, HolderOnly, LeaseTells, NEW k \in Instances,
         \/ DropAbandoned(k) \/ CreateIndex(k) \/ (\E S \in SUBSET Products : Export(k, S))
         \/ Bulk(k) \/ SwapRead(k) \/ SwapAlias(k) \/ DropReplaced(k) \/ Undo(k)
         \/ StepFails(k) \/ CleanupFails(k) \/ (Crash(k) /\ task[k].op \notin Free \cup {"drop"})
  PROVE  HolderOnly' /\ LeaseTells'
  <1> DEFINE t == task[k]
  <1>1. t \in Tasks /\ t.op \notin Free
    BY DEF TypeInv, DropAbandoned, CreateIndex, Export, Bulk, SwapRead, SwapAlias, DropReplaced,
       Undo, StepFails, CleanupFails, Steps, At, Free
  <1>2. /\ t.op = "drop" => building \subseteq {t.old}
        /\ t.op # "drop" => building \subseteq {lease.index}
        /\ t.op \in {"record", "create", "cleanup", "release"} => building = {}
        /\ t.op \in Filling \cup {"cleanup", "undo"} => t.index = lease.index
    BY <1>1, AloneBefore
  <1>3. CASE DropAbandoned(k)
    <2>1. building' = {}
      BY <1>2, <1>3 DEF DropAbandoned, Drop, Abandoned, At
    <2>2. [To(k, "record") EXCEPT !.old = None].op = "record"
      BY MoreFields
    <2>3. QED
      BY <1>1, <1>3, <2>1, <2>2, AloneOn DEF DropAbandoned
  <1>4. CASE CreateIndex(k)
    <2> DEFINE next == [To(k, "export") EXCEPT !.todo = Products]
    <2>1. next.op = "export" /\ next.index = t.index
      BY <1>1 DEF To, Tasks
    <2>2. building' = {lease.index} /\ t.index = lease.index
      BY <1>2, <1>4 DEF CreateIndex, At, Filling
    <2>3. Go(k, next) /\ UNCHANGED lease
      BY <1>4 DEF CreateIndex
    <2> HIDE DEF next
    <2>4. QED
      BY <1>1, <2>1, <2>2, <2>3, AloneOn DEF Filled
  <1>5. ASSUME NEW S \in SUBSET Products, Export(k, S)
        PROVE  HolderOnly' /\ LeaseTells'
    <2> DEFINE page == {[product |-> p, doc |-> product[p]] : p \in {q \in S : ~product[q].deleted}}
               next == [To(k, "bulk") EXCEPT !.todo = @ \ S, !.page = page]
    <2>1. Go(k, next) /\ UNCHANGED <<lease, building>> /\ t.op = "export"
      BY <1>5 DEF Export, At, elastic
    <2> HIDE DEF page
    <2>2. next.op = "bulk" /\ next.index = t.index
      BY <1>1 DEF To, Tasks
    <2> HIDE DEF next
    <2>3. QED
      BY <1>1, <1>2, <2>1, <2>2, AloneOn DEF Filled, Filling
  <1>6. CASE Bulk(k)
    <2> DEFINE next == [To(k, "renew") EXCEPT !.page = {}]
    <2>1. next.op = "renew" /\ next.index = t.index
      BY <1>1 DEF To, Tasks
    <2>2. Go(k, next) /\ UNCHANGED <<lease, building>> /\ t.op = "bulk"
      BY <1>6 DEF Bulk, At
    <2> HIDE DEF next
    <2>3. QED
      BY <1>1, <1>2, <2>1, <2>2, AloneOn DEF Filled, Filling
  <1>7. CASE SwapRead(k)
    <2> DEFINE next == [To(k, "swap") EXCEPT !.old = live]
    <2>1. next.op = "swap" /\ next.index = t.index
      BY <1>1 DEF To, Tasks
    <2>2. Go(k, next) /\ UNCHANGED <<lease, building>> /\ t.op = "read"
      BY <1>7 DEF SwapRead, At, elastic
    <2> HIDE DEF next
    <2>3. QED
      BY <1>1, <1>2, <2>1, <2>2, AloneOn DEF Filled, Filling
  <1>8. CASE SwapAlias(k)
    <2>1. t.op = "swap" /\ t.index = lease.index /\ UNCHANGED lease
      BY <1>2, <1>8 DEF SwapAlias, At, Filling
    <2>2. \/ /\ Go(k, Leave(t.boot)) \/ Go(k, To(k, "cleanup"))
             /\ building' = {}
          \/ Go(k, To(k, "undo")) /\ building' \subseteq building
      BY <1>2, <1>8, <2>1 DEF SwapAlias, MoveAlias, Built
    <2>3. CASE Go(k, Leave(t.boot)) /\ building' = {}
      BY <1>1, <2>1, <2>3, LeaveFields, AloneOn
    <2>4. CASE Go(k, To(k, "cleanup")) /\ building' = {}
      BY <1>1, <2>1, <2>4, ToFields, AloneOn
    <2>5. CASE Go(k, To(k, "undo")) /\ building' \subseteq building
      BY <1>1, <1>2, <2>1, <2>5, ToFields, AloneOn
    <2>6. QED
      BY <2>2, <2>3, <2>4, <2>5
  <1>9. CASE DropReplaced(k) \/ Undo(k)
    <2>1. building' = {} /\ UNCHANGED lease
      BY <1>2, <1>9 DEF DropReplaced, Undo, Drop, At
    <2>2. \E boot : Go(k, Leave(boot))
      BY <1>9 DEF DropReplaced, Undo
    <2>3. QED
      BY <1>1, <2>1, <2>2, LeaveFields, AloneOn
  <1>10. CASE StepFails(k)
    <2>1. t.op \in Steps /\ UNCHANGED <<lease, building>>
      BY <1>10 DEF StepFails, elastic
    <2>2. CASE t.index = None
      <3>1. t.op = "record"
        BY <1>1, <2>1, <2>2 DEF Tasks, Steps, Filling
      <3>2. Go(k, Leave(FALSE)) /\ building' = {}
        BY <1>2, <1>10, <2>1, <2>2, <3>1 DEF StepFails
      <3>3. QED
        BY <1>1, <2>1, <3>2, LeaveFields, AloneOn
    <2>3. CASE t.index # None
      <3>1. t.op \in Filling
        BY <1>1, <2>1, <2>3 DEF Tasks, Steps, Filling
      <3> DEFINE next == [To(k, "undo") EXCEPT !.page = {}]
      <3>2. Go(k, next) /\ next.op = "undo" /\ next.index = t.index
        BY <1>10, <2>3, MoreFields DEF StepFails
      <3> HIDE DEF next
      <3>3. t.op # "drop" /\ t.index = lease.index /\ building' \subseteq {lease.index}
        BY <1>2, <2>1, <3>1 DEF Filling
      <3>4. QED
        BY <1>1, <2>1, <3>2, <3>3, AloneOn
    <2>4. QED
      BY <2>2, <2>3
  <1>11. CASE CleanupFails(k)
    <2>1. /\ t.op = "cleanup" /\ UNCHANGED <<lease, building>> /\ Go(k, To(k, "undo"))
          /\ t.index = lease.index
      BY <1>2, <1>11 DEF CleanupFails, At, elastic
    <2>2. QED
      BY <1>1, <1>2, <2>1, ToFields, AloneOn
  <1>12. CASE Crash(k) /\ t.op \notin Free \cup {"drop"}
    <2>1. Idle.op \in Free
      BY DEF Idle, Free
    <2>2. Go(k, Idle) /\ UNCHANGED <<lease, building>>
      BY <1>12 DEF Crash, elastic
    <2>3. QED
      BY <1>12, <2>1, <2>2, AloneOn
  <1>13. QED
    BY <1>3, <1>4, <1>5, <1>6, <1>7, <1>8, <1>9, <1>10, <1>11, <1>12

(* The lease is given back.                                                *)
LEMMA AloneRelease ==
  ASSUME TypeInv, HolderOnly, LeaseTells, NEW k \in Instances, Release(k)
  PROVE  HolderOnly' /\ LeaseTells'
  <1>1. task[k].op = "release" /\ task[k].op \notin Free
    BY DEF Release, At, Free
  <1>2. lease # None /\ lease.holder = k /\ building = {}
    BY <1>1, AloneBefore
  <1>3. lease' = None /\ building' = {} /\ task'[k] = Idle
    BY <1>2, Moved DEF Release, elastic
  <1>4. \A j \in Instances : j # k => task[j].op \in Free /\ task'[j] = task[j]
    BY <1>1, AloneBefore, Moved, ZenonT(60) DEF Release
  <1>5. Idle.op \in Free
    BY DEF Idle, Free
  <1>6. QED
    BY <1>3, <1>4, <1>5, AloneAfter

(* One step.                                                               *)
LEMMA AloneStep ==
  ASSUME TypeInv, Alone, [Next]_vars
  PROVE  Alone'
  <1> SUFFICES ASSUME Calm' PROVE HolderOnly' /\ LeaseTells'
    BY DEF Alone
  <1>1. Calm /\ HolderOnly /\ LeaseTells
    BY MishapsGrow DEF Alone, Calm
  <1>2. CASE (\E p \in Products : ChangeProduct(p)) \/ UNCHANGED vars
    BY <1>1, <1>2 DEF ChangeProduct, vars, elastic, HolderOnly, LeaseTells
  <1>3. CASE Expire
    <2>1. PICK h \in Instances : lease # None /\ lease.holder = h /\ task[h].op \in Free
      BY <1>3 DEF Expire, Holding, Free, TypeInv, TypeOK, Lease
    <2>2. lease' \in Lease /\ lease'.holder = h /\ lease'.index = lease.index
      BY <1>3, <2>1 DEF Expire, TypeInv, TypeOK, Lease
    <2>3. task' = task /\ building' = building
      BY <1>3 DEF Expire, elastic
    <2>4. lease' # None
      BY <2>2, SearchAssumption
    <2>5. HolderOnly'
      BY <1>1, <2>1, <2>2, <2>3, <2>4 DEF HolderOnly
    <2>6. LeaseTells'
      BY <1>1, <2>1, <2>2, <2>3, <2>4 DEF LeaseTells
    <2>7. QED
      BY <2>5, <2>6
  <1>4. CASE ExpireEarly
    BY <1>4 DEF ExpireEarly, Mishap, Calm
  <1>5. ASSUME NEW k \in Instances, Reindex(k) \/ AcquireAtBoot(k)
        PROVE  HolderOnly' /\ LeaseTells'
    BY <1>1, <1>5, AloneAcquire DEF Reindex, AcquireAtBoot, At
  <1>6. ASSUME NEW k \in Instances, Failure(k)
        PROVE  HolderOnly' /\ LeaseTells'
    <2>1. ~Outage(k) /\ (Crash(k) => task[k].op # "drop")
      BY DEF Outage, Crash, Mishap, Calm, At
    <2>2. QED
      BY <1>1, <1>6, <2>1, AloneHandler, AloneRebuild DEF Failure
  <1>7. QED
    BY <1>1, <1>2, <1>3, <1>4, <1>5, <1>6, AloneHandler, AloneKeepsLease, AloneRebuild, AloneRelease
       DEF Next, RebuildStep

(* Handlers can tell which index a rebuild fills: the building alias is    *)
(* never on two, through errors, crashes and takeovers of the lease, as    *)
(* long as no lease expires under its holder and no deletion of an index   *)
(* that is not wanted fails.                                               *)
THEOREM OneIsBuilt == Spec => []OneBuilding
  <1>1. Init => Alone
    <2>1. ASSUME Init
          PROVE  HolderOnly /\ LeaseTells
      BY <2>1 DEF Init, Idle, HolderOnly, LeaseTells, Free
    <2>2. QED
      BY <2>1 DEF Alone
  <1>2. TypeInv /\ Alone /\ [Next]_vars => Alone'
    BY AloneStep
  <1>3. TypeInv /\ Alone => OneBuilding
    <2>1. ASSUME TypeInv, Calm, HolderOnly, LeaseTells
          PROVE  Cardinality(building) <= 1
      <3>1. \E x : building \subseteq {x}
        <4>1. CASE lease = None
          BY <2>1, <4>1 DEF LeaseTells
        <4>2. CASE lease # None
          <5>1. lease.holder \in Instances
            BY <2>1, <4>2 DEF TypeInv, TypeOK, Lease
          <5>2. QED
            BY <2>1, <4>2, <5>1 DEF LeaseTells
        <4>3. QED
          BY <4>1, <4>2
      <3>2. PICK x : building \subseteq {x}
        BY <3>1
      <3>3. building = {} \/ building = {x}
        BY <3>2
      <3>4. QED
        BY <3>3, FS_EmptySet, FS_Singleton
    <2>2. QED
      BY <2>1 DEF Alone, OneBuilding, Calm
  <1>4. QED
    BY <1>1, <1>2, <1>3, IndicesAreOwned, PTL DEF Spec

-----------------------------------------------------------------------------
(* The live alias is not lost to a rebuild that fails                      *)

Steady == mishaps \subseteq {"error", "outage"}

(* No lease is left behind, so none is taken over; and what a rebuild      *)
(* still has to drop is not the live index.                                *)
LiveIsSafe ==
  /\ \A h \in Instances : lease # None /\ lease.holder = h => task[h].op \notin Free
  /\ lease # None => ~lease.expired
  /\ \A i \in Instances :
       /\ task[i].op # "drop"
       /\ task[i].op = "undo" => task[i].index # live
       /\ task[i].op = "cleanup" => task[i].old # live

NeverAbandoned == Steady => HolderOnly /\ LiveIsSafe

(* Who holds the lease goes on, or gives it back.                          *)
LEMMA SafeAfter ==
  ASSUME LiveIsSafe, NEW k \in Instances,
         \A j \in Instances : j # k => task[j].op \in Free /\ task'[j] = task[j],
         \/ /\ lease' # None /\ lease'.holder = k /\ ~lease'.expired
            /\ task'[k].op \notin Free \cup {"drop"}
            /\ task'[k].op = "undo" => task'[k].index # live'
            /\ task'[k].op = "cleanup" => task'[k].old # live'
         \/ lease' = None /\ task'[k].op \in Free
  PROVE  HolderOnly' /\ LiveIsSafe'
  BY DEF HolderOnly, LiveIsSafe, Free

(* Who does not hold it only handles events or waits.                      *)
LEMMA SafeQuiet ==
  ASSUME TypeInv, HolderOnly, LiveIsSafe, NEW k \in Instances,
         Handler(k) \/ BootCheck(k) \/ BootConflict(k)
  PROVE  HolderOnly' /\ LiveIsSafe'
  <1>1. task[k].op \in Free \/ UNCHANGED task
    BY DEF Handler, ApplyLive, ApplyBuilding, ApplyFails, BootCheck, BootConflict, At, Free
  <1>2. UNCHANGED <<lease, live>>
    BY DEF Handler, ApplyLive, ApplyBuilding, ApplyFails, BootCheck, BootConflict, elastic
  <1>3. CASE UNCHANGED task
    BY <1>2, <1>3 DEF HolderOnly, LiveIsSafe
  <1>4. ASSUME NEW next, Go(k, next), next.op \in Free, task[k].op \in Free
        PROVE  HolderOnly' /\ LiveIsSafe'
    <2>1. task'[k] = next /\ \A j \in Instances : j # k => task'[j] = task[j]
      BY <1>4, Moved
    <2>2. HolderOnly'
      BY <1>2, <1>4, <2>1 DEF HolderOnly
    <2>3. LiveIsSafe'
      BY <1>2, <1>4, <2>1 DEF LiveIsSafe, Free
    <2>4. QED
      BY <2>2, <2>3
  <1>5. \/ UNCHANGED task
        \/ Go(k, Idle)
        \/ Go(k, [Idle EXCEPT !.op = "acquire", !.boot = TRUE])
        \/ \E e : Go(k, [Idle EXCEPT !.op = "apply", !.event = e])
    BY DEF Handler, ApplyLive, ApplyBuilding, ApplyFails, BootCheck, BootConflict
  <1>6. \A x : /\ [Idle EXCEPT !.op = "acquire", !.boot = x].op = "acquire"
               /\ [Idle EXCEPT !.op = "apply", !.event = x].op = "apply"
               /\ Idle.op = "idle"
    BY MoreFields
  <1>7. QED
    BY <1>1, <1>3, <1>4, <1>5, <1>6 DEF Free

(* The lease is free when it is taken.                                     *)
LEMMA SafeAcquire ==
  ASSUME TypeInv, HolderOnly, LiveIsSafe, NEW k \in Instances,
         task[k].op \in {"idle", "acquire"}, Acquire(k)
  PROVE  HolderOnly' /\ LiveIsSafe'
  <1>1. lease = None
    BY DEF LiveIsSafe, Acquire, Takeable
  <1>2. \A j \in Instances : j # k => task[j].op \in Free /\ task'[j] = task[j]
    BY <1>1, Moved DEF HolderOnly, Acquire
  <1>3. lease' # None /\ lease'.holder = k /\ lease'.expired = FALSE
    BY LeaseWritten DEF Acquire
  <1>4. task'[k] = To(k, "record")
    BY <1>1, Moved DEF Acquire
  <1>5. task'[k].op = "record"
    BY <1>4, ToFields
  <1>6. QED
    BY <1>2, <1>3, <1>5, SafeAfter DEF Free

(* The rebuild goes on.                                                    *)
LEMMA SafeRebuild ==
  ASSUME TypeInv, OwnIndex, HolderOnly, LiveIsSafe, NEW k \in Instances,
         \/ Record(k) \/ CreateIndex(k) \/ (\E S \in SUBSET Products : Export(k, S))
         \/ Bulk(k) \/ Renew(k) \/ SwapRead(k)
  PROVE  HolderOnly' /\ LiveIsSafe'
  <1> DEFINE t == task[k]
  <1>1. t \in Tasks /\ t.op \in {"record", "create", "export", "bulk", "renew", "read"}
    BY DEF TypeInv, Record, CreateIndex, Export, Bulk, Renew, SwapRead, At
  <1>2. lease # None /\ lease.holder = k /\ ~lease.expired
    BY <1>1 DEF HolderOnly, LiveIsSafe, Free
  <1>3. \A j \in Instances : j # k => task[j].op \in Free
    BY <1>2 DEF HolderOnly
  <1>4. ASSUME NEW next, Go(k, next), next.op \in Filling,
               lease' # None, lease'.holder = k, ~lease'.expired
        PROVE  HolderOnly' /\ LiveIsSafe'
    <2>1. task'[k] = next /\ \A j \in Instances : j # k => task'[j] = task[j]
      BY <1>4, Moved
    <2>2. QED
      BY <1>3, <1>4, <2>1, SafeAfter DEF Free, Filling
  <1>5. ASSUME NEW x \in Indices \cup {None}, NEW next, KeepLease(k, x, next), next.op \in Filling
        PROVE  HolderOnly' /\ LiveIsSafe'
    <2>1. lease' = [holder |-> k, index |-> x, expired |-> FALSE] /\ Go(k, next)
      BY <1>2, <1>5 DEF KeepLease
    <2>2. lease' # None /\ lease'.holder = k /\ lease'.expired = FALSE
      BY <2>1, LeaseWritten
    <2>3. QED
      BY <1>4, <1>5, <2>1, <2>2
  <1>6. CASE Record(k)
    <2> DEFINE next == [To(k, "create") EXCEPT !.index = NewName]
    <2>1. next.op = "create" /\ NewName \in Indices /\ KeepLease(k, NewName, next)
      BY <1>6, MoreFields, NameIsFresh DEF Record, FreshNames
    <2> HIDE DEF next
    <2>2. QED
      BY <1>5, <2>1 DEF Filling
  <1>7. CASE Renew(k)
    <2> DEFINE op == IF t.todo = {} THEN "read" ELSE "export"
               next == To(k, op)
    <2>1. /\ next.op \in {"read", "export"} /\ t.index \in Indices \cup {None}
          /\ KeepLease(k, t.index, next)
      BY <1>1, <1>7, ToFields DEF Renew, Tasks
    <2> HIDE DEF next
    <2>2. QED
      BY <1>5, <2>1 DEF Filling
  <1>8. CASE CreateIndex(k)
    <2> DEFINE next == [To(k, "export") EXCEPT !.todo = Products]
    <2>1. next.op = "export" /\ Go(k, next) /\ UNCHANGED lease
      BY <1>1, <1>8 DEF CreateIndex, To, Tasks
    <2> HIDE DEF next
    <2>2. QED
      BY <1>2, <1>4, <2>1 DEF Filling
  <1>9. ASSUME NEW S \in SUBSET Products, Export(k, S)
        PROVE  HolderOnly' /\ LiveIsSafe'
    <2> DEFINE page == {[product |-> p, doc |-> product[p]] : p \in {q \in S : ~product[q].deleted}}
               next == [To(k, "bulk") EXCEPT !.todo = @ \ S, !.page = page]
    <2>1. Go(k, next) /\ UNCHANGED lease
      BY <1>9 DEF Export
    <2> HIDE DEF page
    <2>2. next.op = "bulk"
      BY <1>1 DEF To, Tasks
    <2> HIDE DEF next
    <2>3. QED
      BY <1>2, <1>4, <2>1, <2>2 DEF Filling
  <1>10. CASE Bulk(k) \/ SwapRead(k)
    <2>1. /\ [To(k, "renew") EXCEPT !.page = {}].op = "renew"
          /\ [To(k, "swap") EXCEPT !.old = live].op = "swap"
      BY <1>1 DEF To, Tasks
    <2>2. PICK next : Go(k, next) /\ next.op \in {"renew", "swap"} /\ UNCHANGED lease
      BY <1>10, <2>1 DEF Bulk, SwapRead
    <2>3. QED
      BY <1>2, <1>4, <2>2 DEF Filling
  <1>11. QED
    BY <1>6, <1>7, <1>8, <1>9, <1>10

(* The swap and the ends: what has to be dropped is an index of its own,   *)
(* or the one that was live before.                                        *)
LEMMA SafeEnds ==
  ASSUME TypeInv, OwnIndex, HolderOnly, LiveIsSafe, NEW k \in Instances,
         \/ SwapAlias(k) /\ "cleanup" \notin mishaps'
         \/ DropReplaced(k) \/ Undo(k) \/ Release(k)
         \/ StepFails(k) \/ (Outage(k) /\ task[k].op # "drop")
  PROVE  HolderOnly' /\ LiveIsSafe'
  <1> DEFINE t == task[k]
  <1>1. t \in Tasks /\ t.op \notin Free
    BY DEF TypeInv, SwapAlias, DropReplaced, Undo, Release, StepFails, Outage, Steps, At, Free
  <1>2. lease # None /\ lease.holder = k /\ ~lease.expired
    BY <1>1 DEF HolderOnly, LiveIsSafe
  <1>3. \A j \in Instances : j # k => task[j].op \in Free
    BY <1>2 DEF HolderOnly
  <1>4. ASSUME NEW next, Go(k, next), UNCHANGED lease,
               \/ next.op = "release"
               \/ next.op = "undo" /\ next.index # live'
               \/ next.op = "cleanup" /\ next.old # live'
        PROVE  HolderOnly' /\ LiveIsSafe'
    <2>1. task'[k] = next /\ \A j \in Instances : j # k => task'[j] = task[j]
      BY <1>4, Moved
    <2>2. QED
      BY <1>2, <1>3, <1>4, <2>1, SafeAfter DEF Free
  <1>5. CASE SwapAlias(k) /\ "cleanup" \notin mishaps'
    <2>1. t.op = "swap" /\ t.index # None /\ t.index # live /\ UNCHANGED lease
      BY <1>1, <1>5 DEF SwapAlias, At, Tasks, Filling, OwnIndex, NotSearched
    <2>2. t.old # t.index
      BY <2>1 DEF OwnIndex, NotDropped, Filling
    <2>3. \/ Go(k, Leave(t.boot))
          \/ Go(k, To(k, "cleanup")) /\ live' = t.index
          \/ Go(k, To(k, "undo")) /\ live' = live
      BY <1>5 DEF SwapAlias, MoveAlias, Mishap
    <2>4. QED
      BY <1>4, <2>1, <2>2, <2>3, ToFields, LeaveFields
  <1>6. CASE DropReplaced(k) \/ Undo(k)
    <2>1. UNCHANGED lease /\ \E boot : Go(k, Leave(boot))
      BY <1>6 DEF DropReplaced, Undo
    <2>2. QED
      BY <1>4, <2>1, LeaveFields
  <1>7. CASE Release(k)
    <2>1. lease' = None /\ task'[k] = Idle /\ \A j \in Instances : j # k => task'[j] = task[j]
      BY <1>2, <1>7, Moved DEF Release
    <2>2. Idle.op \in Free
      BY DEF Idle, Free
    <2>3. QED
      BY <1>3, <2>1, <2>2, SafeAfter
  <1>8. CASE StepFails(k)
    <2>1. UNCHANGED <<lease, live>> /\ t.op \in Steps
      BY <1>8 DEF StepFails, elastic
    <2>2. CASE t.index = None
      <3>1. Go(k, Leave(FALSE))
        BY <1>8, <2>2 DEF StepFails
      <3>2. QED
        BY <1>4, <2>1, <3>1, LeaveFields
    <2>3. CASE t.index # None
      <3> DEFINE next == [To(k, "undo") EXCEPT !.page = {}]
      <3>1. Go(k, next) /\ next.op = "undo" /\ next.index = t.index
        BY <1>8, <2>3, MoreFields DEF StepFails
      <3>2. t.index # live
        BY <1>1, <2>1, <2>3 DEF Tasks, Steps, Filling, OwnIndex, NotSearched
      <3> HIDE DEF next
      <3>3. QED
        BY <1>4, <2>1, <3>1, <3>2
    <2>4. QED
      BY <2>2, <2>3
  <1>9. CASE Outage(k) /\ t.op # "drop"
    <2>1. UNCHANGED lease /\ Go(k, Leave(FALSE))
      BY <1>9 DEF Outage, At
    <2>2. QED
      BY <1>4, <2>1, LeaveFields
  <1>10. QED
    BY <1>5, <1>6, <1>7, <1>8, <1>9

(* One step.                                                               *)
LEMMA SafeStep ==
  ASSUME TypeInv, OwnIndex, NeverAbandoned, [Next]_vars
  PROVE  NeverAbandoned'
  <1> SUFFICES ASSUME Steady' PROVE HolderOnly' /\ LiveIsSafe'
    BY DEF NeverAbandoned
  <1>1. Steady /\ HolderOnly /\ LiveIsSafe
    BY MishapsGrow DEF NeverAbandoned, Steady
  <1>2. CASE (\E p \in Products : ChangeProduct(p)) \/ UNCHANGED vars
    BY <1>1, <1>2 DEF ChangeProduct, vars, elastic, HolderOnly, LiveIsSafe
  <1>3. ~Expire
    BY <1>1 DEF Expire, Holding, Free, LiveIsSafe, TypeInv, TypeOK, Lease
  <1>4. ~ExpireEarly
    BY DEF ExpireEarly, Mishap, Steady
  <1>5. ASSUME NEW k \in Instances, Reindex(k) \/ AcquireAtBoot(k)
        PROVE  HolderOnly' /\ LiveIsSafe'
    BY <1>1, <1>5, SafeAcquire DEF Reindex, AcquireAtBoot, At
  <1>6. ASSUME NEW k \in Instances
        PROVE  ~DropAbandoned(k) /\ task[k].op # "drop"
    BY <1>1 DEF DropAbandoned, At, LiveIsSafe
  <1>7. ASSUME NEW k \in Instances
        PROVE  ~CleanupFails(k) /\ ~Crash(k)
    BY <1>6 DEF CleanupFails, Crash, Mishap, Steady, At
  <1>8. "cleanup" \notin mishaps'
    BY DEF Steady
  <1>9. QED
    BY <1>1, <1>2, <1>3, <1>4, <1>5, <1>6, <1>7, <1>8, SafeQuiet, SafeRebuild, SafeEnds
       DEF Next, RebuildStep, Failure

(* The live index goes only with a deletion.                               *)
LEMMA AliasLost ==
  ASSUME TypeInv, [Next]_vars, live # None, live' = None
  PROVE  \E i \in Instances :
           \/ task[i].op = "drop"
           \/ task[i].op = "cleanup" /\ task[i].old = live
           \/ task[i].op = "undo" /\ task[i].index = live
  <1>1. ASSUME NEW i \in Instances, SwapAlias(i)
        PROVE  FALSE
    <2>1. task[i].index # None
      BY <1>1 DEF SwapAlias, At, TypeInv, Tasks, Filling
    <2>2. QED
      BY <1>1, <2>1 DEF SwapAlias, MoveAlias
  <1>2. ASSUME NEW i \in Instances, DropAbandoned(i) \/ DropReplaced(i) \/ Undo(i)
        PROVE  \/ task[i].op = "drop"
               \/ task[i].op = "cleanup" /\ task[i].old = live
               \/ task[i].op = "undo" /\ task[i].index = live
    BY <1>2 DEF DropAbandoned, DropReplaced, Undo, Drop, At
  <1>3. ASSUME NEW i \in Instances,
               Handler(i) \/ BootCheck(i) \/ Reindex(i) \/ RebuildStep(i) \/ Failure(i)
        PROVE  DropAbandoned(i) \/ DropReplaced(i) \/ Undo(i) \/ SwapAlias(i)
    BY <1>3 DEF Handler, ApplyLive, ApplyBuilding, ApplyFails, BootCheck, Reindex, Acquire,
       RebuildStep, AcquireAtBoot, BootConflict, Record, KeepLease, CreateIndex, Export, Bulk,
       Renew, SwapRead, Release, Failure, StepFails, Outage, CleanupFails, Crash, elastic
  <1>4. ~((\E p \in Products : ChangeProduct(p)) \/ Expire \/ ExpireEarly \/ UNCHANGED vars)
    BY DEF ChangeProduct, Expire, ExpireEarly, vars, elastic
  <1>5. QED
    BY <1>1, <1>2, <1>3, <1>4 DEF Next

(* Once there is something to search there always is, however often        *)
(* rebuilds fail, unless one crashes, loses its lease while it runs, is    *)
(* not answered when it moves the alias, or cannot delete the index it     *)
(* replaced.                                                               *)
THEOREM SearchStaysUp == Spec => AliasStays
  <1>1. Init => NeverAbandoned
    <2>1. ASSUME Init
          PROVE  HolderOnly /\ LiveIsSafe
      BY <2>1 DEF Init, Idle, HolderOnly, LiveIsSafe, Free
    <2>2. QED
      BY <2>1 DEF NeverAbandoned
  <1>2. TypeInv /\ OwnIndex /\ NeverAbandoned /\ [Next]_vars => NeverAbandoned'
    BY SafeStep
  <1>3. TypeInv /\ NeverAbandoned /\ [Next]_vars =>
          [mishaps' \subseteq {"error", "outage"} /\ live # None => live' # None]_vars
    <2>1. ASSUME TypeInv, NeverAbandoned, [Next]_vars,
                 mishaps' \subseteq {"error", "outage"}, live # None, live' = None
          PROVE  FALSE
      <3>1. LiveIsSafe
        BY <2>1, MishapsGrow DEF NeverAbandoned, Steady
      <3>2. QED
        BY <2>1, <3>1, AliasLost DEF LiveIsSafe
    <2>2. QED
      BY <2>1
  <1>4. QED
    BY <1>1, <1>2, <1>3, IndicesAreOwned, PTL DEF Spec, AliasStays
=============================================================================
