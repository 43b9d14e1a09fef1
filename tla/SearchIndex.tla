----------------------------- MODULE SearchIndex -----------------------------
(***************************************************************************)
(* The search service: an Elasticsearch index of catalog's products, kept  *)
(* current by events and rebuilt from catalog's export.                    *)
(*                                                                         *)
(* Several instances share one Elasticsearch.  A search goes to the index  *)
(* the live alias points at; a rebuild fills a new index behind the        *)
(* building alias and then moves the live alias.  A lease document lets    *)
(* one instance rebuild at a time.  Inside an instance, handlers and       *)
(* rebuilds run one after the other (exclusive): task[i] is the one that   *)
(* runs.  Between instances every call to Elasticsearch interleaves.       *)
(*                                                                         *)
(* Events arrive as module EventDelivery lets them: committed with the     *)
(* change in catalog, in any order, any number of times.  A handler that   *)
(* fails leaves its event to be delivered again.                           *)
(***************************************************************************)
EXTENDS Integers, FiniteSets

CONSTANTS
  Products,
  Instances,   \* processes of the search service
  Indices,     \* names newIndexName may return; one is used again once forgotten
  MaxVersion,  \* bound: versions of a product
  Mishaps,     \* kinds of failure that may happen
  MaxMishaps,  \* bound: how many failures happen
  None

Lease == [holder : Instances, index : Indices \cup {None}, expired : BOOLEAN]

ASSUME SearchAssumption ==
  /\ MaxVersion \in Nat \ {0}
  /\ MaxMishaps \in Nat
  /\ None \notin Instances \cup Indices \cup Products \cup Lease
  /\ Mishaps \subseteq {"error", "outage", "cleanup", "crash", "slow"}

VARIABLES
  product,   \* catalog: version and deletion of a product
  exists,    \* indices of products that exist
  docs,      \* the document of a product in an index, version 0 without one
  live,      \* the index the live alias points at
  building,  \* the indices the building alias points at
  lease,     \* the lease document: holder, the index it recorded, expired
  ready,     \* instances whose indexReady has resolved
  task,      \* the handler or rebuild each instance is in
  applied,   \* the newest version of a product a handler has returned for
  mishaps,   \* kinds of failure so far
  failures,  \* how many failures so far
  raced      \* products an event and a rebuild wrote at the same time

elastic == <<exists, docs, live, building>>
luck    == <<mishaps, failures>>
vars    == <<product, elastic, lease, ready, task, applied, luck, raced>>

Doc   == [version : 0..MaxVersion, deleted : BOOLEAN]
NoDoc == [version |-> 0, deleted |-> FALSE]
Event == [product : Products, doc : Doc]

Idle == [op |-> "idle", event |-> None, index |-> None, todo |-> {}, page |-> {},
         old |-> None, boot |-> FALSE]

Ops == {"idle", "apply", "acquire", "drop", "record", "create", "export", "bulk",
        "renew", "read", "swap", "cleanup", "undo", "release"}

TypeOK ==
  /\ product \in [Products -> Doc]
  /\ exists \in SUBSET Indices
  /\ docs \in [Indices -> [Products -> Doc]]
  /\ live \in exists \cup {None}
  /\ building \in SUBSET (exists \ {live})
  /\ lease \in Lease \cup {None}
  /\ ready \in SUBSET Instances
  /\ \A i \in Instances :
       /\ DOMAIN task[i] = DOMAIN Idle /\ task[i].op \in Ops
       /\ task[i].event \in Event \cup {None}
       /\ {task[i].index, task[i].old} \subseteq Indices \cup {None}
       /\ task[i].todo \subseteq Products /\ task[i].page \subseteq Event
  /\ applied \in [Products -> 0..MaxVersion]
  /\ mishaps \in SUBSET Mishaps /\ failures \in 0..MaxMishaps
  /\ raced \in SUBSET Products

(* Catalog has its products before the first instance boots. *)
Init ==
  /\ product = [p \in Products |-> [version |-> 1, deleted |-> FALSE]]
  /\ exists = {} /\ live = None /\ building = {}
  /\ docs = [x \in Indices |-> [p \in Products |-> NoDoc]]
  /\ lease = None
  /\ ready = {}
  /\ task = [i \in Instances |-> Idle]
  /\ applied = [p \in Products |-> 0]
  /\ mishaps = {} /\ failures = 0 /\ raced = {}

-----------------------------------------------------------------------------
(* Catalog: every change is a version and an event. *)

ChangeProduct(p) ==
  /\ product[p].version < MaxVersion /\ ~product[p].deleted
  /\ \E gone \in BOOLEAN :
       product' = [product EXCEPT ![p] = [version |-> @.version + 1, deleted |-> gone]]
  /\ UNCHANGED <<elastic, lease, ready, task, applied, luck, raced>>

(* The events of p that were put in the outbox so far. *)
Sent(p) ==
  {[product |-> p, doc |-> [version |-> v,
                            deleted |-> product[p].deleted /\ v = product[p].version]] :
     v \in 1..product[p].version}

-----------------------------------------------------------------------------
(* Moves of a task *)

Go(i, next)  == task' = [task EXCEPT ![i] = next]
At(i, op)    == task[i].op = op
To(i, op)    == [task[i] EXCEPT !.op = op]
Leave(boot)  == [Idle EXCEPT !.op = "release", !.boot = boot]   \* finally

Mishap(kind) ==
  /\ kind \in Mishaps /\ failures < MaxMishaps
  /\ mishaps' = mishaps \cup {kind}
  /\ failures' = failures + 1

(* VERSION_GUARD, run by Elasticsearch on one document. *)
\* Mutant: the incoming document always wins.
GuardedUnchecked(old, new) == new

Guarded(old, new) == IF old.version < new.version THEN new ELSE old

Write(x, e) == docs' = [docs EXCEPT ![x][e.product] = Guarded(@, e.doc)]

(* A deleted index loses its documents and its aliases. *)
Drop(S) ==
  /\ exists' = exists \ S
  /\ docs' = [x \in Indices |-> IF x \in S THEN [p \in Products |-> NoDoc] ELSE docs[x]]
  /\ live' = IF live \in S THEN None ELSE live
  /\ building' = building \ S

-----------------------------------------------------------------------------
(* Handlers: upsertProduct and deleteProduct write the live index, then    *)
(* the one a rebuild is filling, if there is one.                          *)

ApplyLive(i, e) ==
  /\ At(i, "idle") /\ i \in ready
  /\ live # None                      \* require_alias
  /\ Write(live, e)
  /\ Go(i, [Idle EXCEPT !.op = "apply", !.event = e])
  /\ UNCHANGED <<product, exists, live, building, lease, ready, applied, luck, raced>>

(* The products whose page some rebuild has exported and not written. *)
Exported == {e.product : e \in UNION {task[j].page : j \in Instances}}

\* Mutant: only the live index is written.
BuildingIndicesNone == {}

BuildingIndices == building

ApplyBuilding(i) ==
  LET e == task[i].event
  IN /\ At(i, "apply")
     /\ \/ BuildingIndices = {} /\ UNCHANGED docs
        \/ \E x \in BuildingIndices : BuildingIndices = {x} /\ Write(x, e)
     /\ applied' = [applied EXCEPT ![e.product] = IF @ < e.doc.version THEN e.doc.version ELSE @]
     /\ raced' = IF building = {} THEN raced ELSE raced \cup ({e.product} \cap Exported)
     /\ Go(i, Idle)
     /\ UNCHANGED <<product, exists, live, building, lease, ready, luck>>

(* A call failed, or the building alias is ambiguous: retried later. *)
ApplyFails(i) ==
  /\ At(i, "apply")
  /\ Go(i, Idle)
  /\ UNCHANGED <<product, elastic, lease, ready, applied, luck, raced>>

-----------------------------------------------------------------------------
(* Boot and reindex *)

(* ensureIndex: with an alias the instance is ready, else it rebuilds when *)
(* it gets its turn.                                                       *)
BootCheck(i) ==
  /\ i \notin ready /\ ~task[i].boot
  /\ \/ live # None /\ ready' = ready \cup {i} /\ UNCHANGED task
     \/ /\ live = None /\ At(i, "idle")
        /\ Go(i, [Idle EXCEPT !.op = "acquire", !.boot = TRUE])
        /\ UNCHANGED ready
  /\ UNCHANGED <<product, elastic, lease, applied, luck, raced>>

\* Mutant: a lease is taken over whether it has expired or not.
TakeableUnexpired == lease # None

TakeableNever == FALSE  \* Mutant: nobody takes an abandoned lease over.

Takeable == lease # None /\ lease.expired

(* acquireRebuildLease: create the document, or take an expired one over   *)
(* and drop the index it recorded.  Else the answer is 409.                *)
Acquire(i) ==
  /\ lease = None \/ Takeable
  /\ lease' = [holder |-> i, index |-> None, expired |-> FALSE]
  /\ Go(i, IF lease # None /\ lease.index # None
           THEN [To(i, "drop") EXCEPT !.old = lease.index] ELSE To(i, "record"))
  /\ UNCHANGED <<product, elastic, ready, applied, luck, raced>>

AcquireAtBoot(i) == At(i, "acquire") /\ Acquire(i)

BootConflict(i) ==
  /\ At(i, "acquire") /\ lease # None /\ ~Takeable
  /\ Go(i, Idle)
  /\ UNCHANGED <<product, elastic, lease, ready, applied, luck, raced>>

(* POST /search/reindex *)
Reindex(i) == At(i, "idle") /\ Acquire(i)

\* Mutant: the index of a crashed rebuild is left behind.
AbandonedKept(i) == {}

Abandoned(i) == {task[i].old}

DropAbandoned(i) ==
  /\ At(i, "drop")
  /\ Drop(Abandoned(i))
  /\ Go(i, [To(i, "record") EXCEPT !.old = None])
  /\ UNCHANGED <<product, lease, ready, applied, luck, raced>>

(* renewRebuildLease is conditional on the document last written; whoever  *)
(* lost the lease stops.                                                   *)
KeepLease(i, x, next) ==
  /\ IF lease # None /\ lease.holder = i
     THEN /\ lease' = [holder |-> i, index |-> x, expired |-> FALSE]
          /\ Go(i, next)
     ELSE Go(i, [next EXCEPT !.op = "undo"]) /\ UNCHANGED lease
  /\ UNCHANGED <<product, elastic, ready, applied, luck, raced>>

(* newIndexName: the time, so a name nobody uses.  Bound: a rebuild waits  *)
(* while all of Indices are in use.                                        *)
FreshNames ==
  {x \in Indices : /\ x \notin exists
                   /\ lease # None => lease.index # x
                   /\ \A j \in Instances : x \notin {task[j].index, task[j].old}}

NewName == CHOOSE x \in FreshNames : TRUE

(* The name is recorded in the lease before the index is created. *)
Record(i) ==
  /\ At(i, "record") /\ FreshNames # {}
  /\ KeepLease(i, NewName, [To(i, "create") EXCEPT !.index = NewName])

CreateIndex(i) ==
  /\ At(i, "create")
  /\ exists' = exists \cup {task[i].index}
  /\ building' = building \cup {task[i].index}
  /\ Go(i, [To(i, "export") EXCEPT !.todo = Products])
  /\ UNCHANGED <<product, docs, live, lease, ready, applied, luck, raced>>

(* A page of catalog's products, as they are now; deleted ones are gone.   *)
Export(i, S) ==
  /\ At(i, "export") /\ S # {} /\ S \subseteq task[i].todo
  /\ Go(i, [To(i, "bulk") EXCEPT
              !.todo = @ \ S,
              !.page = {[product |-> p, doc |-> product[p]] :
                          p \in {q \in S : ~product[q].deleted}}])
  /\ UNCHANGED <<product, elastic, lease, ready, applied, luck, raced>>

(* The page overwrites what the index holds.  Elasticsearch creates an     *)
(* index of that name if another instance dropped it meanwhile.            *)
Bulk(i) ==
  LET page == task[i].page
      x    == task[i].index
  IN /\ At(i, "bulk")
     /\ docs' = [docs EXCEPT ![x] = [p \in Products |->
                   IF \E e \in page : e.product = p
                   THEN (CHOOSE e \in page : e.product = p).doc ELSE @[p]]]
     /\ exists' = IF page = {} THEN exists ELSE exists \cup {x}
     /\ Go(i, [To(i, "renew") EXCEPT !.page = {}])
     /\ UNCHANGED <<product, live, building, lease, ready, applied, luck, raced>>

(* After the last page the index is refreshed and the lease renewed again: *)
(* the same step.                                                          *)
Renew(i) ==
  /\ At(i, "renew")
  /\ KeepLease(i, task[i].index, To(i, IF task[i].todo = {} THEN "read" ELSE "export"))

(* swapAlias: what the alias points at, the update, then the old index.    *)
SwapRead(i) ==
  /\ At(i, "read")
  /\ Go(i, [To(i, "swap") EXCEPT !.old = live])
  /\ UNCHANGED <<product, elastic, lease, ready, applied, luck, raced>>

\* Mutant: the new index keeps the building alias.
BuiltKept(x) == building

Built(x) == building \ {x}

(* Products whose handler has written the live index only. *)
HalfApplied == {task[j].event.product : j \in {k \in Instances : task[k].op = "apply"}}

(* Refused if an index of it is gone or the alias had two write indices.   *)
Swappable(i) ==
  /\ task[i].index \in exists
  /\ task[i].old \in exists \cup {None}
  /\ live \in {task[i].old, None}

MoveAlias(i) ==
  /\ live' = task[i].index
  /\ building' = Built(task[i].index)
  /\ raced' = raced \cup HalfApplied

(* If the answer is lost, the catch deletes the index that is live by now. *)
SwapAlias(i) ==
  /\ At(i, "swap")
  /\ \/ /\ Swappable(i) /\ MoveAlias(i)
        /\ Go(i, IF task[i].old = None THEN Leave(task[i].boot) ELSE To(i, "cleanup"))
        /\ UNCHANGED luck
     \/ /\ Swappable(i) /\ MoveAlias(i)
        /\ Mishap("cleanup")
        /\ Go(i, To(i, "undo"))
     \/ /\ ~Swappable(i)
        /\ Go(i, To(i, "undo"))
        /\ UNCHANGED <<live, building, raced, luck>>
  /\ UNCHANGED <<product, exists, docs, lease, ready, applied>>

DropReplaced(i) ==
  /\ At(i, "cleanup")
  /\ Drop({task[i].old})
  /\ Go(i, Leave(task[i].boot))
  /\ UNCHANGED <<product, lease, ready, applied, luck, raced>>

(* The catch of reindex. *)
Undo(i) ==
  /\ At(i, "undo")
  /\ Drop({task[i].index})
  /\ Go(i, Leave(FALSE))
  /\ UNCHANGED <<product, lease, ready, applied, luck, raced>>

(* releaseRebuildLease, conditional as well; then markReady at boot.       *)
Release(i) ==
  /\ At(i, "release")
  /\ lease' = IF lease # None /\ lease.holder = i THEN None ELSE lease
  /\ ready' = IF task[i].boot THEN ready \cup {i} ELSE ready
  /\ Go(i, Idle)
  /\ UNCHANGED <<product, elastic, applied, luck, raced>>

-----------------------------------------------------------------------------
(* Failures *)

Steps == {"record", "create", "export", "bulk", "renew", "read", "swap"}

(* A call of a rebuild fails without effect.  One that had its effect and  *)
(* lost its answer is that step, followed by the failure of the next call. *)
(* SwapAlias says it of the move of the alias; a lease whose write was not *)
(* answered cannot be released either, which is a Crash at Release.        *)
StepFails(i) ==
  /\ task[i].op \in Steps
  /\ Mishap("error")
  /\ Go(i, IF task[i].index = None THEN Leave(FALSE) ELSE [To(i, "undo") EXCEPT !.page = {}])
  /\ UNCHANGED <<product, elastic, lease, ready, applied, raced>>

(* ... and so does the deletion of the index in the catch; the deletion    *)
(* after a takeover is outside the try, so that the lease stays as well.   *)
Outage(i) ==
  /\ task[i].op \in Steps \cup {"drop"}
  /\ Mishap("outage")
  /\ Go(i, IF At(i, "drop") THEN Idle ELSE Leave(FALSE))
  /\ UNCHANGED <<product, elastic, lease, ready, applied, raced>>

(* The alias has moved and the deletion of the replaced index fails.       *)
CleanupFails(i) ==
  /\ At(i, "cleanup")
  /\ Mishap("cleanup")
  /\ Go(i, To(i, "undo"))
  /\ UNCHANGED <<product, elastic, lease, ready, applied, raced>>

(* Also what a failing release comes to: the lease stays behind.  Before   *)
(* the deletion after a takeover the abandoned index stays too, as in an   *)
(* outage.                                                                 *)
Crash(i) ==
  /\ Mishap(IF At(i, "drop") THEN "outage" ELSE "crash")
  /\ Go(i, Idle)
  /\ ready' = ready \ {i}
  /\ UNCHANGED <<product, elastic, lease, applied, raced>>

(* Whether the instance that wrote the lease still relies on it. *)
Holding == task[lease.holder].op \notin {"idle", "apply", "acquire"}

(* Ten minutes pass without a renewal. *)
Expire ==
  /\ lease # None /\ ~lease.expired /\ ~Holding
  /\ lease' = [lease EXCEPT !.expired = TRUE]
  /\ UNCHANGED <<product, elastic, ready, task, applied, luck, raced>>

(* ... while the rebuild is still running. *)
ExpireEarly ==
  /\ lease # None /\ ~lease.expired /\ Holding
  /\ Mishap("slow")
  /\ lease' = [lease EXCEPT !.expired = TRUE]
  /\ UNCHANGED <<product, elastic, ready, task, applied, raced>>

-----------------------------------------------------------------------------

Handler(i) ==
  \/ \E p \in Products : \E e \in Sent(p) : ApplyLive(i, e)
  \/ ApplyBuilding(i)
  \/ ApplyFails(i)

RebuildStep(i) ==
  \/ AcquireAtBoot(i)
  \/ BootConflict(i)
  \/ DropAbandoned(i)
  \/ Record(i)
  \/ CreateIndex(i)
  \/ \E S \in SUBSET Products : Export(i, S)
  \/ Bulk(i)
  \/ Renew(i)
  \/ SwapRead(i)
  \/ SwapAlias(i)
  \/ DropReplaced(i)
  \/ Undo(i)
  \/ Release(i)

Failure(i) ==
  \/ StepFails(i)
  \/ Outage(i)
  \/ CleanupFails(i)
  \/ Crash(i)

Next ==
  \/ \E p \in Products : ChangeProduct(p)
  \/ \E i \in Instances : Handler(i)
  \/ \E i \in Instances : BootCheck(i)
  \/ \E i \in Instances : Reindex(i)
  \/ \E i \in Instances : RebuildStep(i)
  \/ \E i \in Instances : Failure(i)
  \/ Expire
  \/ ExpireEarly

Spec == Init /\ [][Next]_vars

(* A process goes on with what it does, a booting one tries again every    *)
(* five seconds, and time passes.  Nobody has to ask for a reindex.        *)
Fairness ==
  /\ \A i \in Instances : /\ WF_vars(ApplyBuilding(i) \/ ApplyFails(i) \/ RebuildStep(i))
                          /\ WF_vars(BootCheck(i))
  /\ WF_vars(Expire)

FairSpec == Spec /\ Fairness

=============================================================================
