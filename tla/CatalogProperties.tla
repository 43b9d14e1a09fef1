-------------------------- MODULE CatalogProperties --------------------------
(***************************************************************************)
(* What module CatalogReadModel is checked against.                        *)
(***************************************************************************)
EXTENDS CatalogReadModel, Functions

(* A unit sold is counted once, however often order.completed is delivered *)
(* and to however many handlers: soldCount is what the orders in the inbox *)
(* contain, as long as the product exists.                                 *)
SoldOnce ==
  \A p \in live : sold[p] = SumFunction([o \in inbox |-> Quantity[o][p]])

(* The stock catalog shows is that of the newest event it handled, in      *)
(* whatever order they came.                                               *)
StockShownIsNewest == \A p \in live : shown[p] = newest.stock[p]

ReviewsOf(x) == {v \in reviews : x \in {v.product, StoreOf[v.product]}}

(* One review per buyer and product, only of products the buyer received,  *)
(* and every one counted once in the score of the product and of its store *)
(* (a request submitted twice passes the checks twice).                    *)
ReviewsCounted ==
  /\ \A v, w \in reviews : v.buyer = w.buyer /\ v.product = w.product => v = w
  /\ \A v \in reviews : <<v.buyer, v.product>> \in purchases
  /\ \A x \in live \cup Stores : score[x].count = Cardinality(ReviewsOf(x))

(* rating is the mean of the reviews up to the rounding of every step: off *)
(* by a quarter of a hundredth for each review and one more, no further.   *)
RatingDriftBounded ==
  \A x \in live \cup Stores :
    LET n == score[x].count
        error == n * score[x].rating - 100 * SumFunction([v \in ReviewsOf(x) |-> v.stars])
    IN 4 * error <= n * (n + 1) /\ -4 * error <= n * (n + 1)

(* A user's name is that of the newest event handled, unless the first two *)
(* events of the user were inserted at the same time, the older one first. *)
NamesConverge == \A u \in Users \ collided : names[u] = newest.name[u]

=============================================================================
