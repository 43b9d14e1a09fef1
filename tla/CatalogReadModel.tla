-------------------------- MODULE CatalogReadModel --------------------------
(***************************************************************************)
(* What catalog keeps beside the products it owns: the stock and the names *)
(* other services tell it, the units sold, and the reviews buyers write.   *)
(*                                                                         *)
(* The events of commerce and identity arrive as module EventDelivery lets *)
(* them: in any order, any number of times, several handlers at once.  A   *)
(* handler that fails is one that has not run yet.  A MongoDB transaction  *)
(* reads a snapshot and is retried when another one wrote what it writes:  *)
(* it is one step.  What is read outside of one is a step of its own.      *)
(***************************************************************************)
EXTENDS Integers, FiniteSets

CONSTANTS
  Products, Stores,
  StoreOf,      \* products.storeId
  Buyers,
  Users,        \* users whose name is replicated
  Orders,       \* orders that were completed
  Buyer,        \* who placed an order
  Quantity,     \* units of a product in an order
  Requests,     \* createReview requests in flight at the same time
  Stars,        \* ratings buyers give
  MaxStock,     \* bound: versions of an inventory row
  MaxName,      \* bound: versions of a user
  Nil

ASSUME CatalogAssumption ==
  /\ StoreOf \in [Products -> Stores]
  /\ Products \cap Stores = {}
  /\ Buyer \in [Orders -> Buyers]
  /\ Quantity \in [Orders -> [Products -> Nat]]
  /\ Stars \subseteq 1..5
  /\ MaxStock \in Nat /\ MaxName \in Nat
  /\ Nil \notin [buyer : Buyers, product : Products, stars : Stars]

VARIABLES
  live,       \* products that are not deleted
  shown,      \* stockVersion of a product
  sold,       \* soldCount of a product
  inbox,      \* orders whose order.completed is in the inbox
  purchases,  \* rows of purchases: who bought what
  reviews,    \* rows of product_reviews
  score,      \* rating (in hundredths) and reviewCount of products and stores
  names,      \* version of a user's row, 0 without one
  inserting,  \* upserts that matched no row and have not inserted one yet
  request,    \* what each createReview request passed the checks with
  newest,     \* newest stock and name event a handler has returned for
  collided    \* users for whom a newer row lost against an older one

stock   == <<live, shown, sold, inbox, purchases>>
social  == <<reviews, score, request>>
people  == <<names, inserting, collided>>
vars    == <<stock, social, people, newest>>

Review == [buyer : Buyers, product : Products, stars : Stars]
Score  == [rating : 0..500, count : Nat]

TypeOK ==
  /\ live \in SUBSET Products
  /\ shown \in [Products -> 0..MaxStock]
  /\ sold \in [Products -> Nat]
  /\ inbox \in SUBSET Orders
  /\ purchases \in SUBSET (Buyers \X Products)
  /\ reviews \in SUBSET Review
  /\ score \in [Products \cup Stores -> Score]
  /\ names \in [Users -> 0..MaxName]
  /\ inserting \in SUBSET (Users \X (1..MaxName))
  /\ request \in [Requests -> Review \cup {Nil}]
  /\ newest \in [stock : [Products -> 0..MaxStock], name : [Users -> 0..MaxName]]
  /\ collided \in SUBSET Users

Init ==
  /\ live = Products
  /\ shown = [p \in Products |-> 0]
  /\ sold = [p \in Products |-> 0]
  /\ inbox = {} /\ purchases = {}
  /\ reviews = {}
  /\ score = [x \in Products \cup Stores |-> [rating |-> 0, count |-> 0]]
  /\ names = [u \in Users |-> 0]
  /\ inserting = {} /\ collided = {}
  /\ request = [r \in Requests |-> Nil]
  /\ newest = [stock |-> [p \in Products |-> 0], name |-> [u \in Users |-> 0]]

Later(a, b) == IF a < b THEN b ELSE a

-----------------------------------------------------------------------------
(* commerce.inventory.changed *)

\* Mutant: the update is not conditional on the version.
NewerUnchecked(old, new) == TRUE

Newer(old, new) == old < new

HandleStock(p, v) ==
  /\ shown' = IF p \in live /\ Newer(shown[p], v) THEN [shown EXCEPT ![p] = v] ELSE shown
  /\ newest' = [newest EXCEPT !.stock[p] = Later(@, v)]
  /\ UNCHANGED <<live, sold, inbox, purchases, social, people>>

-----------------------------------------------------------------------------
(* commerce.order.completed: one transaction with its row of the inbox.    *)

\* Mutant: the inbox is written and not read.
FirstDeliveryUnchecked(o) == TRUE

FirstDelivery(o) == o \notin inbox

HandleOrder(o) ==
  /\ FirstDelivery(o)
  /\ inbox' = inbox \cup {o}
  /\ purchases' = purchases \cup
       {<<Buyer[o], p>> : p \in {q \in Products : Quantity[o][q] > 0}}
  /\ sold' = [p \in Products |-> IF p \in live THEN sold[p] + Quantity[o][p] ELSE sold[p]]
  /\ UNCHANGED <<live, shown, social, people, newest>>

-----------------------------------------------------------------------------
(* identity.user.*: an upsert whose filter also asks for an older version. *)

(* It matched the row, or the row there is newer and the insert collides.  *)
\* Mutant: the filter is the id only.
RenameAlways(old, v) == v

Rename(old, v) == Later(old, v)

HandleUser(u, v) ==
  /\ names[u] > 0
  /\ names' = [names EXCEPT ![u] = Rename(@, v)]
  /\ newest' = [newest EXCEPT !.name[u] = Later(@, v)]
  /\ UNCHANGED <<stock, social, inserting, collided>>

(* It matched nothing: MongoDB goes on to insert. *)
UserMissing(u, v) ==
  /\ names[u] = 0
  /\ inserting' = inserting \cup {<<u, v>>}
  /\ UNCHANGED <<stock, social, names, collided, newest>>

(* If a concurrent handler inserted the row first, the duplicate key is    *)
(* taken for a newer row.                                                  *)
InsertUser(u, v) ==
  /\ <<u, v>> \in inserting
  /\ inserting' = inserting \ {<<u, v>>}
  /\ names' = [names EXCEPT ![u] = IF @ = 0 THEN v ELSE @]
  /\ collided' = IF names[u] \in 1..(v - 1) THEN collided \cup {u} ELSE collided
  /\ newest' = [newest EXCEPT !.name[u] = Later(@, v)]
  /\ UNCHANGED <<stock, social>>

InsertFails(u, v) ==
  /\ <<u, v>> \in inserting
  /\ inserting' = inserting \ {<<u, v>>}
  /\ UNCHANGED <<stock, social, names, collided, newest>>

-----------------------------------------------------------------------------
(* createReview *)

Reviewed(b, p) == \E v \in reviews : v.buyer = b /\ v.product = p

ReviewCheck(r, b, p, s) ==
  /\ request[r] = Nil
  /\ <<b, p>> \in purchases /\ ~Reviewed(b, p)
  /\ request' = [request EXCEPT ![r] = [buyer |-> b, product |-> p, stars |-> s]]
  /\ UNCHANGED <<stock, people, reviews, score, newest>>

(* addToAverage, in hundredths: the nearest, and either one on a tie, as   *)
(* the binary fraction before toFixed may be on either side of it.         *)
\* Mutant: the new rating weighs as much as all the others.
AddToAverageUnweighted(average, count, s) == {(average + 100 * s) \div 2}

\* Mutant: the sum is divided by the number of reviews before this one.
AddToAverageOldCount(average, count, s) ==
  {(average * count + 100 * s) \div (IF count = 0 THEN 1 ELSE count)}

AddToAverage(average, count, s) ==
  {c \in 0..500 : LET error == c * (count + 1) - (average * count + 100 * s)
                  IN 2 * error <= count + 1 /\ -2 * error <= count + 1}

(* The unique index on (product, buyer). *)
\* Mutant: only the check before the transaction.
UniqueUnchecked(b, p) == TRUE

Unique(b, p) == ~Reviewed(b, p)

ReviewCommit(r) ==
  LET v == request[r]
      p == v.product
      s == StoreOf[p]
  IN /\ v # Nil
     /\ p \in live /\ Unique(v.buyer, p)
     /\ reviews' = reviews \cup {v}
     /\ \E a \in AddToAverage(score[p].rating, score[p].count, v.stars),
           b \in AddToAverage(score[s].rating, score[s].count, v.stars) :
          score' = [score EXCEPT ![p] = [rating |-> a, count |-> @.count + 1],
                                 ![s] = [rating |-> b, count |-> @.count + 1]]
     /\ request' = [request EXCEPT ![r] = Nil]
     /\ UNCHANGED <<stock, people, newest>>

(* 400 or 404, or any other end without a commit. *)
ReviewFails(r) ==
  /\ request[r] # Nil
  /\ request' = [request EXCEPT ![r] = Nil]
  /\ UNCHANGED <<stock, people, reviews, score, newest>>

-----------------------------------------------------------------------------
(* deleteSellerProduct: purchases, reviews and the store's score stay. *)
DeleteProduct(p) ==
  /\ p \in live
  /\ live' = live \ {p}
  /\ UNCHANGED <<shown, sold, inbox, purchases, social, people, newest>>

-----------------------------------------------------------------------------

Consume ==
  \/ \E p \in Products, v \in 1..MaxStock : HandleStock(p, v)
  \/ \E o \in Orders : HandleOrder(o)
  \/ \E u \in Users, v \in 1..MaxName : HandleUser(u, v)
  \/ \E u \in Users, v \in 1..MaxName : UserMissing(u, v)
  \/ \E u \in Users, v \in 1..MaxName : InsertUser(u, v)
  \/ \E u \in Users, v \in 1..MaxName : InsertFails(u, v)

Write ==
  \/ \E r \in Requests, b \in Buyers, p \in Products, s \in Stars : ReviewCheck(r, b, p, s)
  \/ \E r \in Requests : ReviewCommit(r)
  \/ \E r \in Requests : ReviewFails(r)

Next ==
  \/ Consume
  \/ Write
  \/ \E p \in Products : DeleteProduct(p)

Spec == Init /\ [][Next]_vars

=============================================================================
