----------------------------- MODULE CatalogProofs -----------------------------
(***************************************************************************)
(* Theorems about CatalogReadModel, for any number of orders, users,       *)
(* requests and reviews.                                                   *)
(***************************************************************************)
EXTENDS CatalogProperties, SumProofs

-----------------------------------------------------------------------------
(* The running average *)

(* A product of naturals grows with its factor. *)
LEMMA TimesMonotone ==
  ASSUME NEW x \in Nat, NEW y \in Nat, NEW z \in Nat, x <= y
  PROVE  x * z <= y * z
  OBVIOUS

(* With 800 reviews the nearest hundredth of the new mean is the old one,  *)
(* whatever the new rating is.                                             *)
LEMMA AverageFreezes ==
  ASSUME NEW average \in 100..500, NEW count \in Nat, count >= 800, NEW s \in 1..5
  PROVE  AddToAverage(average, count, s) = {average}
  <1> DEFINE n == count + 1
             error(c) == c * n - (average * count + 100 * s)
  <1>1. error(average) = average - 100 * s
    OBVIOUS
  <1>2. 2 * error(average) <= n /\ -2 * error(average) <= n
    BY <1>1
  <1>3. ASSUME NEW c \in 0..500, c > average
        PROVE  2 * error(c) > n
    <2>1. (average + 1) * n <= c * n
      <3>1. average + 1 \in Nat /\ c \in Nat /\ n \in Nat /\ average + 1 <= c
        BY <1>3
      <3>2. QED
        BY ONLY <3>1, TimesMonotone
    <2>2. (average + 1) * n = average * n + n
      OBVIOUS
    <2>3. average * n <= c * n - n
      BY <2>1, <2>2
    <2>4. error(c) >= error(average) + n
      BY <2>3
    <2>5. QED
      BY <1>1, <2>4
  <1>4. ASSUME NEW c \in 0..500, c < average
        PROVE  -2 * error(c) > n
    <2>1. (c + 1) * n <= average * n
      <3>1. c + 1 \in Nat /\ average \in Nat /\ n \in Nat /\ c + 1 <= average
        BY <1>4
      <3>2. QED
        BY ONLY <3>1, TimesMonotone
    <2>2. (c + 1) * n = c * n + n
      OBVIOUS
    <2>3. error(c) <= error(average) - n
      BY <2>1, <2>2
    <2>4. QED
      BY <1>1, <2>3
  <1>5. ASSUME NEW c \in AddToAverage(average, count, s) PROVE c = average
    <2>1. c \in 0..500 /\ 2 * error(c) <= n /\ -2 * error(c) <= n
      BY <1>5 DEF AddToAverage
    <2>2. error(c) \in Int
      BY <2>1
    <2> HIDE DEF error
    <2>3. QED
      BY <1>3, <1>4, <2>1, <2>2, SMTT(30)
  <1>6. average \in AddToAverage(average, count, s)
    BY <1>2 DEF AddToAverage
  <1>7. QED
    BY <1>5, <1>6

(* A mean of ratings of one to five stars is between one and five.         *)
LEMMA AverageInRange ==
  ASSUME NEW average \in 100..500, NEW count \in Nat, NEW s \in 1..5,
         NEW c \in AddToAverage(average, count, s)
  PROVE  c \in 100..500
  <1> DEFINE n == count + 1
  <1>1. c \in 0..500 /\ -2 * (c * n - (average * count + 100 * s)) <= n
    BY DEF AddToAverage
  <1>2. 100 * count <= average * count
    BY TimesMonotone
  <1>3. SUFFICES ASSUME c < 100 PROVE FALSE
    BY <1>1
  <1>4. c * n <= 99 * n
    BY <1>1, <1>3, TimesMonotone
  <1>5. QED
    BY <1>1, <1>2, <1>4

(* The first rating is the mean. *)
LEMMA FirstAverage ==
  ASSUME NEW s \in 1..5, NEW c \in AddToAverage(0, 0, s)
  PROVE  c = 100 * s
  BY DEF AddToAverage

-----------------------------------------------------------------------------
(* What a score is made of, a name is never newer than what was handled,   *)
(* and a review is of a known buyer and product.                           *)
ScoreInv ==
  \A x \in Products \cup Stores :
    IF score[x].count = 0 THEN score[x].rating = 0 ELSE score[x].rating \in 100..500

NameInv == \A u \in Users : names[u] = 0 => newest.name[u] = 0

RequestInv ==
  \A r \in Requests : request[r] # Nil => <<request[r].buyer, request[r].product>> \in purchases

CountInv ==
  /\ IsFiniteSet(reviews)
  /\ \A v, w \in reviews : v.buyer = w.buyer /\ v.product = w.product => v = w
  /\ \A v \in reviews : <<v.buyer, v.product>> \in purchases
  /\ \A x \in Products \cup Stores : score[x].count = Cardinality(ReviewsOf(x))

CatalogInv ==
  TypeOK /\ ScoreInv /\ NameInv /\ RequestInv /\ CountInv /\ StockShownIsNewest /\ NamesConverge

(* The set CatalogInv is about at the start. *)
LEMMA CatalogInit == Init => CatalogInv
  <1> SUFFICES ASSUME Init PROVE CatalogInv
    OBVIOUS
  <1> USE CatalogAssumption DEF Init
  <1>1. TypeOK
    BY DEF TypeOK, Score
  <1>2. ScoreInv /\ NameInv /\ RequestInv /\ StockShownIsNewest /\ NamesConverge
    BY DEF ScoreInv, NameInv, RequestInv, StockShownIsNewest, NamesConverge
  <1>3. CountInv
    <2>1. \A x : ReviewsOf(x) = {}
      BY DEF ReviewsOf
    <2>2. QED
      BY <2>1, FS_EmptySet DEF CountInv
  <1>4. QED
    BY <1>1, <1>2, <1>3 DEF CatalogInv

(* An event about stock, an order or a user. *)
LEMMA ConsumeKeeps ==
  ASSUME CatalogInv, Consume
  PROVE  CatalogInv'
  <1> USE CatalogAssumption
  <1>1. CASE \E p \in Products, v \in 1..MaxStock : HandleStock(p, v)
    <2>1. PICK p \in Products, v \in 1..MaxStock : HandleStock(p, v)
      BY <1>1
    <2>2. TypeOK'
      <3>1. newest' \in [stock : [Products -> 0..MaxStock], name : [Users -> 0..MaxName]]
        BY <2>1 DEF CatalogInv, TypeOK, HandleStock, Later
      <3>2. shown' \in [Products -> 0..MaxStock]
        BY <2>1 DEF CatalogInv, TypeOK, HandleStock
      <3>3. QED
        BY <2>1, <3>1, <3>2 DEF CatalogInv, TypeOK, HandleStock, social, people
    <2>3. StockShownIsNewest'
      BY <2>1 DEF CatalogInv, TypeOK, StockShownIsNewest, HandleStock, Newer, Later
    <2>4. NameInv' /\ NamesConverge'
      BY <2>1 DEF CatalogInv, TypeOK, NameInv, NamesConverge, HandleStock, people
    <2>5. UNCHANGED <<purchases, reviews, score, request>>
      BY <2>1 DEF HandleStock, social, people
    <2>6. ScoreInv' /\ RequestInv'
      BY <2>5 DEF CatalogInv, ScoreInv, RequestInv
    <2>7. CountInv'
      BY <2>5 DEF CatalogInv, CountInv, ReviewsOf
    <2>8. QED
      BY <2>2, <2>3, <2>4, <2>6, <2>7 DEF CatalogInv
  <1>2. CASE \E o \in Orders : HandleOrder(o)
    <2>1. PICK o \in Orders : HandleOrder(o)
      BY <1>2
    <2>2. TypeOK'
      <3>1. purchases' \in SUBSET (Buyers \X Products)
        BY <2>1 DEF CatalogInv, TypeOK, HandleOrder
      <3>2. sold' \in [Products -> Nat]
        BY <2>1 DEF CatalogInv, TypeOK, HandleOrder
      <3>3. QED
        BY <2>1, <3>1, <3>2 DEF CatalogInv, TypeOK, HandleOrder, social, people
    <2>3. StockShownIsNewest' /\ NameInv' /\ NamesConverge' /\ ScoreInv'
      BY <2>1 DEF CatalogInv, StockShownIsNewest, NameInv, NamesConverge, ScoreInv,
         HandleOrder, people, social
    <2>4. purchases \subseteq purchases' /\ UNCHANGED social
      BY <2>1 DEF HandleOrder
    <2>5. RequestInv' /\ CountInv'
      BY <2>4 DEF CatalogInv, RequestInv, CountInv, ReviewsOf, social
    <2>6. QED
      BY <2>2, <2>3, <2>5 DEF CatalogInv
  <1>3. ASSUME NEW u \in Users, NEW v \in 1..MaxName,
               \/ HandleUser(u, v)
               \/ UserMissing(u, v)
               \/ InsertUser(u, v)
               \/ InsertFails(u, v)
        PROVE  CatalogInv'
    <2>1. UNCHANGED <<stock, social>>
      BY <1>3 DEF HandleUser, UserMissing, InsertUser, InsertFails
    <2>2. /\ newest'.stock = newest.stock
          /\ newest' \in [stock : [Products -> 0..MaxStock], name : [Users -> 0..MaxName]]
      BY <1>3 DEF HandleUser, UserMissing, InsertUser, InsertFails, CatalogInv, TypeOK, Later
    <2>3. /\ names' \in [Users -> 0..MaxName]
          /\ inserting' \in SUBSET (Users \X (1..MaxName))
          /\ collided' \in SUBSET Users
      BY <1>3 DEF HandleUser, UserMissing, InsertUser, InsertFails, CatalogInv, TypeOK,
         Rename, Later
    <2>4. TypeOK'
      BY <2>1, <2>2, <2>3 DEF CatalogInv, TypeOK, stock, social
    <2>5. StockShownIsNewest' /\ ScoreInv' /\ RequestInv' /\ CountInv'
      BY <2>1, <2>2, ZenonT(60) DEF CatalogInv, StockShownIsNewest, ScoreInv, RequestInv, CountInv,
         ReviewsOf, stock, social
    <2>6. NameInv' /\ NamesConverge'
      <3>1. CASE HandleUser(u, v)
        BY <3>1 DEF HandleUser, CatalogInv, TypeOK, NameInv, NamesConverge, Rename, Later
      <3>2. CASE UserMissing(u, v) \/ InsertFails(u, v)
        BY <3>2 DEF UserMissing, InsertFails, CatalogInv, NameInv, NamesConverge
      <3>3. CASE InsertUser(u, v)
        BY <3>3 DEF InsertUser, CatalogInv, TypeOK, NameInv, NamesConverge, Later
      <3>4. QED
        BY <1>3, <3>1, <3>2, <3>3
    <2>7. QED
      BY <2>4, <2>5, <2>6 DEF CatalogInv
  <1>4. QED
    BY <1>1, <1>2, <1>3 DEF Consume

-----------------------------------------------------------------------------
(* createReview *)

(* Whatever the average was, one more rating leaves it in range. *)
LEMMA RatingInRange ==
  ASSUME TypeOK, ScoreInv, NEW x \in Products \cup Stores, NEW n \in 1..5,
         NEW a \in AddToAverage(score[x].rating, score[x].count, n)
  PROVE  a \in 100..500
  <1>1. score[x].count \in Nat /\ score[x].rating \in 0..500
    BY DEF TypeOK, Score
  <1>2. CASE score[x].count = 0
    <2>1. score[x].rating = 0
      BY <1>2 DEF ScoreInv
    <2>2. a = 100 * n
      BY <1>2, <2>1, FirstAverage
    <2>3. QED
      BY <2>2
  <1>3. CASE score[x].count # 0
    <2>1. score[x].rating \in 100..500
      BY <1>3 DEF ScoreInv
    <2>2. QED
      BY <1>1, <2>1, AverageInRange, ZenonT(60)
  <1>4. QED
    BY <1>2, <1>3

(* A new review is one more of its product and of its store, and of nothing *)
(* else.                                                                    *)
LEMMA OneMoreReview ==
  ASSUME CountInv, TypeOK, NEW v \in Review, ~Reviewed(v.buyer, v.product),
         reviews' = reviews \cup {v}, NEW x \in Products \cup Stores
  PROVE  Cardinality(ReviewsOf(x)') =
           IF x \in {v.product, StoreOf[v.product]}
           THEN Cardinality(ReviewsOf(x)) + 1 ELSE Cardinality(ReviewsOf(x))
  <1>1. v \notin reviews
    BY DEF Reviewed
  <1>2. IsFiniteSet(ReviewsOf(x)) /\ v \notin ReviewsOf(x)
    <2>1. ReviewsOf(x) \subseteq reviews
      BY DEF ReviewsOf
    <2>2. QED
      BY <1>1, <2>1, FS_Subset DEF CountInv
  <1>3. ReviewsOf(x)' = IF x \in {v.product, StoreOf[v.product]}
                        THEN ReviewsOf(x) \cup {v} ELSE ReviewsOf(x)
    BY DEF ReviewsOf
  <1>4. QED
    BY <1>2, <1>3, FS_AddElement

(* A review that is written is new, of a purchase, and one more of its      *)
(* product and of its store.                                                *)
LEMMA CommitKeeps ==
  ASSUME CatalogInv, NEW r \in Requests, ReviewCommit(r)
  PROVE  CatalogInv'
  <1> DEFINE v == request[r]
             p == v.product
             s == StoreOf[p]
  <1> USE CatalogAssumption
  <1>1. /\ v \in Review /\ p \in Products /\ s \in Stores /\ p # s
        /\ v.stars \in 1..5
        /\ <<v.buyer, p>> \in purchases
    BY DEF CatalogInv, TypeOK, RequestInv, ReviewCommit, Review
  <1>2. PICK a \in AddToAverage(score[p].rating, score[p].count, v.stars),
             b \in AddToAverage(score[s].rating, score[s].count, v.stars) :
          score' = [score EXCEPT ![p] = [rating |-> a, count |-> @.count + 1],
                                 ![s] = [rating |-> b, count |-> @.count + 1]]
    BY DEF ReviewCommit
  <1>3. a \in 100..500 /\ b \in 100..500
    <2> HIDE DEF v, p, s
    <2>1. TypeOK /\ ScoreInv
      BY DEF CatalogInv
    <2>2. a \in 100..500
      BY <1>1, <2>1, RatingInRange, ZenonT(60)
    <2>3. b \in 100..500
      BY <1>1, <2>1, RatingInRange, ZenonT(60)
    <2>4. QED
      BY <2>2, <2>3
  <1>4. /\ reviews' = reviews \cup {v} /\ ~Reviewed(v.buyer, p)
        /\ request' = [request EXCEPT ![r] = Nil]
        /\ UNCHANGED <<stock, people, newest>>
    BY DEF ReviewCommit, Unique
  <1>5. ASSUME NEW x \in Products \cup Stores
        PROVE  /\ score'[x] \in Score
               /\ score'[x] = score[x] \/ score'[x].rating \in 100..500
               /\ score'[x].count =
                    IF x \in {p, s} THEN score[x].count + 1 ELSE score[x].count
    <2>1. score[x] \in Score /\ score \in [Products \cup Stores -> Score]
      BY DEF CatalogInv, TypeOK
    <2>2. CASE x = p
      <3>1. score'[x] = [rating |-> a, count |-> score[x].count + 1]
        BY <1>1, <1>2, <2>1, <2>2
      <3>2. score'[x].rating = a /\ score'[x].count = score[x].count + 1
        BY <3>1
      <3>3. score'[x] \in Score
        BY <1>3, <2>1, <3>1 DEF Score
      <3>4. x \in {p, s}
        BY <2>2
      <3>5. QED
        BY <1>3, <3>2, <3>3, <3>4
    <2>3. CASE x = s
      <3>1. score'[x] = [rating |-> b, count |-> score[x].count + 1]
        BY <1>1, <1>2, <2>1, <2>3
      <3>2. score'[x].rating = b /\ score'[x].count = score[x].count + 1
        BY <3>1
      <3>3. score'[x] \in Score
        BY <1>3, <2>1, <3>1 DEF Score
      <3>4. x \in {p, s}
        BY <2>3
      <3>5. QED
        BY <1>3, <3>2, <3>3, <3>4
    <2>4. CASE x \notin {p, s}
      BY <1>1, <1>2, <2>1, <2>4, ZenonT(60)
    <2>5. QED
      BY <2>2, <2>3, <2>4
  <1>6. TypeOK'
    <2>1. score' \in [Products \cup Stores -> Score]
      <3>1. score' = [x \in Products \cup Stores |-> score'[x]]
        BY <1>2 DEF CatalogInv, TypeOK
      <3>2. QED
        BY <1>5, <3>1
    <2>2. request' \in [Requests -> Review \cup {Nil}]
      BY <1>4 DEF CatalogInv, TypeOK
    <2>3. reviews' \in SUBSET Review
      BY <1>1, <1>4 DEF CatalogInv, TypeOK
    <2>4. QED
      BY <1>4, <2>1, <2>2, <2>3 DEF CatalogInv, TypeOK, stock, people
  <1>7. ScoreInv'
    <2> SUFFICES ASSUME NEW x \in Products \cup Stores
                 PROVE  IF score'[x].count = 0 THEN score'[x].rating = 0
                        ELSE score'[x].rating \in 100..500
      BY DEF ScoreInv
    <2>1. score[x].count \in Nat
      BY DEF CatalogInv, TypeOK, Score
    <2>2. CASE x \in {p, s}
      <3>1. score'[x].count # 0 /\ score'[x] # score[x]
        BY <1>5, <2>1, <2>2
      <3>2. QED
        BY <1>5, <3>1
    <2>3. CASE x \notin {p, s}
      <3>1. score'[x] = score[x]
        BY <1>1, <1>2, <2>3 DEF CatalogInv, TypeOK
      <3>2. QED
        BY <3>1 DEF CatalogInv, ScoreInv
    <2>4. QED
      BY <2>2, <2>3
  <1>8. RequestInv' /\ StockShownIsNewest' /\ NameInv' /\ NamesConverge'
    BY <1>4 DEF CatalogInv, TypeOK, RequestInv, StockShownIsNewest, NameInv, NamesConverge,
       stock, people
  <1>9. CountInv'
    <2>1. IsFiniteSet(reviews')
      BY <1>4, FS_AddElement DEF CatalogInv, CountInv
    <2>2. \A w, y \in reviews' : w.buyer = y.buyer /\ w.product = y.product => w = y
      BY <1>4 DEF CatalogInv, CountInv, Reviewed
    <2>3. \A w \in reviews' : <<w.buyer, w.product>> \in purchases'
      BY <1>1, <1>4 DEF CatalogInv, CountInv, stock
    <2>4. ASSUME NEW x \in Products \cup Stores
          PROVE  score'[x].count = Cardinality(ReviewsOf(x)')
      <3>1. Cardinality(ReviewsOf(x)') = IF x \in {p, s} THEN Cardinality(ReviewsOf(x)) + 1
                                         ELSE Cardinality(ReviewsOf(x))
        BY <1>1, <1>4, OneMoreReview DEF CatalogInv
      <3>2. score[x].count = Cardinality(ReviewsOf(x))
        BY DEF CatalogInv, CountInv
      <3>3. QED
        BY <1>5, <3>1, <3>2
    <2>5. QED
      BY <2>1, <2>2, <2>3, <2>4 DEF CountInv
  <1>10. QED
    BY <1>6, <1>7, <1>8, <1>9 DEF CatalogInv

(* The checks of a request, its end without a commit, a deletion.          *)
LEMMA WriteKeeps ==
  ASSUME CatalogInv,
         \/ Write
         \/ \E p \in Products : DeleteProduct(p)
  PROVE  CatalogInv'
  <1> USE CatalogAssumption
  <1>1. CASE \E r \in Requests, b \in Buyers, p \in Products, s \in Stars : ReviewCheck(r, b, p, s)
    <2>1. PICK r \in Requests, b \in Buyers, p \in Products, s \in Stars : ReviewCheck(r, b, p, s)
      BY <1>1
    <2>2. request' \in [Requests -> Review \cup {Nil}]
      BY <2>1 DEF ReviewCheck, CatalogInv, TypeOK, Review
    <2>3. RequestInv'
      BY <2>1 DEF ReviewCheck, CatalogInv, TypeOK, RequestInv, stock
    <2>4. UNCHANGED <<stock, people, reviews, score, newest>>
      BY <2>1 DEF ReviewCheck
    <2>5. QED
      BY <2>2, <2>3, <2>4, SMTT(30) DEF CatalogInv, TypeOK, ScoreInv, NameInv, CountInv, ReviewsOf,
         StockShownIsNewest, NamesConverge, stock, people
  <1>2. CASE \E r \in Requests : ReviewCommit(r)
    BY <1>2, CommitKeeps
  <1>3. CASE \E r \in Requests : ReviewFails(r)
    <2>1. PICK r \in Requests : ReviewFails(r)
      BY <1>3
    <2>2. request' \in [Requests -> Review \cup {Nil}]
      BY <2>1 DEF ReviewFails, CatalogInv, TypeOK
    <2>3. RequestInv'
      BY <2>1 DEF ReviewFails, CatalogInv, TypeOK, RequestInv, stock
    <2>4. UNCHANGED <<stock, people, reviews, score, newest>>
      BY <2>1 DEF ReviewFails
    <2>5. QED
      BY <2>2, <2>3, <2>4, SMTT(30) DEF CatalogInv, TypeOK, ScoreInv, NameInv, CountInv, ReviewsOf,
         StockShownIsNewest, NamesConverge, stock, people
  <1>4. CASE \E p \in Products : DeleteProduct(p)
    <2>1. PICK p \in Products : DeleteProduct(p)
      BY <1>4
    <2>2. live' \subseteq live /\ UNCHANGED <<shown, sold, inbox, purchases, social, people, newest>>
      BY <2>1 DEF DeleteProduct
    <2>3. QED
      BY <2>2, SMTT(30) DEF CatalogInv, TypeOK, ScoreInv, NameInv, RequestInv, CountInv, ReviewsOf,
         StockShownIsNewest, NamesConverge, social, people
  <1>5. QED
    BY <1>1, <1>2, <1>3, <1>4 DEF Write

(* Every step keeps the invariant. *)
LEMMA CatalogStep == CatalogInv /\ [Next]_vars => CatalogInv'
  <1> SUFFICES ASSUME CatalogInv, [Next]_vars PROVE CatalogInv'
    OBVIOUS
  <1>1. CASE UNCHANGED vars
    BY <1>1, ZenonT(60) DEF vars, stock, social, people, CatalogInv, TypeOK, ScoreInv, NameInv, RequestInv,
       CountInv, ReviewsOf, StockShownIsNewest, NamesConverge
  <1>2. QED
    BY <1>1, ConsumeKeeps, WriteKeeps DEF Next

(* So it always holds. *)
LEMMA CatalogHolds == Spec => []CatalogInv
  BY CatalogInit, CatalogStep, PTL DEF Spec

-----------------------------------------------------------------------------

(* Ratings stay between one and five stars and every table keeps its type. *)
THEOREM TypeCorrect == Spec => []TypeOK
  BY CatalogHolds, PTL DEF CatalogInv

(* The stock shown is that of the newest event, in whatever order and      *)
(* however often they come.                                                *)
THEOREM StockConverges == Spec => []StockShownIsNewest
  BY CatalogHolds, PTL DEF CatalogInv

(* A name is the newest one unless its first two events were inserted at   *)
(* the same time.                                                          *)
THEOREM NamesAreNewest == Spec => []NamesConverge
  BY CatalogHolds, PTL DEF CatalogInv

(* One review per buyer and product, only of what was bought, each counted *)
(* once, with any number of requests.                                      *)
THEOREM ReviewsAreCounted == Spec => []ReviewsCounted
  <1>1. CatalogInv => ReviewsCounted
    BY DEF CatalogInv, CountInv, ReviewsCounted, TypeOK
  <1>2. QED
    BY <1>1, CatalogHolds, PTL

(* The running average stops moving: nothing a buyer gives changes the     *)
(* rating of a product or a store with 800 reviews (addToAverage rounds to *)
(* a hundredth and goes on from the rounded value).                        *)
KeepsOldRatings ==
  \A x \in Products \cup Stores : score[x].count >= 800 => score'[x].rating = score[x].rating

THEOREM RatingsFreeze == Spec => [][KeepsOldRatings]_vars
  <1>1. ASSUME CatalogInv, [Next]_vars PROVE KeepsOldRatings \/ UNCHANGED vars
    <2> SUFFICES ASSUME NEW x \in Products \cup Stores, score[x].count >= 800
                 PROVE  score'[x].rating = score[x].rating
      BY DEF KeepsOldRatings
    <2> USE CatalogAssumption
    <2>1. CASE UNCHANGED score
      BY <2>1
    <2>2. CASE \E r \in Requests : ReviewCommit(r)
      <3>1. PICK r \in Requests : ReviewCommit(r)
        BY <2>2
      <3> DEFINE v == request[r]
                 p == v.product
                 s == StoreOf[p]
      <3>2. p \in Products /\ s \in Stores /\ p # s /\ v.stars \in 1..5
        BY <1>1, <3>1 DEF CatalogInv, TypeOK, ReviewCommit, Review
      <3>3. PICK a \in AddToAverage(score[p].rating, score[p].count, v.stars),
                 b \in AddToAverage(score[s].rating, score[s].count, v.stars) :
              score' = [score EXCEPT ![p] = [rating |-> a, count |-> @.count + 1],
                                     ![s] = [rating |-> b, count |-> @.count + 1]]
        BY <3>1 DEF ReviewCommit
      <3>4. score \in [Products \cup Stores -> Score]
        BY <1>1 DEF CatalogInv, TypeOK
      <3>5. score[x].count \in Nat /\ score[x].rating \in 100..500
        BY <1>1, <3>4 DEF CatalogInv, ScoreInv, Score
      <3>6. AddToAverage(score[x].rating, score[x].count, v.stars) = {score[x].rating}
        BY <3>2, <3>5, AverageFreezes
      <3>7. CASE x = p
        BY <3>2, <3>3, <3>4, <3>6, <3>7
      <3>8. CASE x = s
        BY <3>2, <3>3, <3>4, <3>6, <3>8
      <3>9. CASE x \notin {p, s}
        BY <3>2, <3>3, <3>4, <3>9
      <3>10. QED
        BY <3>7, <3>8, <3>9
    <2>3. UNCHANGED score \/ \E r \in Requests : ReviewCommit(r)
      BY <1>1 DEF Next, Consume, Write, HandleStock, HandleOrder, HandleUser, UserMissing,
         InsertUser, InsertFails, ReviewCheck, ReviewFails, DeleteProduct, social, vars
    <2>4. QED
      BY <2>1, <2>2, <2>3
  <1>2. QED
    BY <1>1, CatalogHolds, PTL DEF Spec

-----------------------------------------------------------------------------
(* Units sold *)

UnitsOf(p) == [o \in inbox |-> Quantity[o][p]]

(* The inductive invariant: a sum only adds up over finitely many orders.   *)
SoldInv ==
  /\ IsFiniteSet(inbox)
  /\ \A p \in live : sold[p] = SumFunctionOnSet(UnitsOf(p), inbox)

(* The first delivery of an order counts it, for every product that is      *)
(* still there; nothing else counts anything.                               *)
LEMMA SoldStep ==
  ASSUME CatalogInv, SoldInv, [Next]_vars
  PROVE  SoldInv'
  <1> USE CatalogAssumption
  <1>1. CASE \E o \in Orders : HandleOrder(o)
    <2>1. PICK o \in Orders : HandleOrder(o)
      BY <1>1
    <2>2. o \notin inbox /\ inbox' = inbox \cup {o} /\ live' = live
      BY <2>1 DEF HandleOrder, FirstDelivery
    <2>3. IsFiniteSet(inbox')
      BY <2>2, FS_AddElement DEF SoldInv
    <2>4. ASSUME NEW p \in live
          PROVE  sold'[p] = SumFunctionOnSet(UnitsOf(p)', inbox')
      <3>1. p \in Products /\ inbox \subseteq Orders
        BY DEF CatalogInv, TypeOK
      <3>2. sold'[p] = sold[p] + Quantity[o][p]
        BY <2>1, <3>1 DEF HandleOrder
      <3>3. \A q \in Orders : Quantity[q][p] \in Int
        BY <3>1
      <3>4. \A q \in inbox : UnitsOf(p)[q] = UnitsOf(p)'[q]
        BY <2>2 DEF UnitsOf
      <3>5. UnitsOf(p)'[o] = Quantity[o][p]
        BY <2>2 DEF UnitsOf
      <3>6. \A q \in inbox \cup {o} : UnitsOf(p)'[q] \in Int
        BY <2>2, <3>1, <3>3 DEF UnitsOf
      <3>7. SumFunctionOnSet(UnitsOf(p)', inbox \cup {o})
              = SumFunctionOnSet(UnitsOf(p), inbox) + UnitsOf(p)'[o]
        BY <2>2, <3>4, <3>6, SumAddRow DEF SoldInv
      <3>8. QED
        BY <2>2, <3>2, <3>5, <3>7 DEF SoldInv
    <2>5. QED
      BY <2>2, <2>3, <2>4 DEF SoldInv
  <1>2. CASE inbox' = inbox /\ sold' = sold /\ live' \subseteq live
    BY <1>2 DEF SoldInv, UnitsOf
  <1>3. \/ \E o \in Orders : HandleOrder(o)
        \/ inbox' = inbox /\ sold' = sold /\ live' \subseteq live
    BY DEF Next, Consume, Write, HandleStock, HandleUser, UserMissing, InsertUser, InsertFails,
       ReviewCheck, ReviewCommit, ReviewFails, DeleteProduct, stock, vars
  <1>4. QED
    BY <1>1, <1>2, <1>3

(* Nothing is sold and nothing counted at first.                            *)
LEMMA SoldInit == Init => SoldInv
  <1> SUFFICES ASSUME Init PROVE SoldInv
    OBVIOUS
  <1>1. inbox = {} /\ \A p \in live : p \in Products /\ sold[p] = 0
    BY DEF Init
  <1>2. IsFiniteSet({}) /\ \A p \in live : SumFunctionOnSet(UnitsOf(p), {}) = 0
    BY FS_EmptySet, SumEmpty
  <1>3. QED
    BY <1>1, <1>2 DEF SoldInv

(* soldCount is the units of the orders in the inbox, each counted once,   *)
(* however often and by however many handlers order.completed is taken.    *)
THEOREM SalesCountedOnce == Spec => []SoldOnce
  <1>1. SoldInv => SoldOnce
    BY DEF SoldInv, SoldOnce, UnitsOf, SumFunction
  <1>2. QED
    BY <1>1, CatalogHolds, SoldInit, SoldStep, PTL DEF Spec

-----------------------------------------------------------------------------
(* The error of a rating *)

StarsOf(x) == [v \in ReviewsOf(x) |-> v.stars]

DriftOf(n, rating, sum) == n * rating - 100 * sum

\* The error of a rating after n roundings, in quarters of a hundredth.
Within(n, error) == 4 * error <= n * (n + 1) /\ -4 * error <= n * (n + 1)

DriftInv ==
  \A x \in Products \cup Stores :
    Within(score[x].count,
           DriftOf(score[x].count, score[x].rating, SumFunctionOnSet(StarsOf(x), ReviewsOf(x))))

(* One rounding adds half a hundredth for each review there is by then.     *)
LEMMA DriftGrows ==
  ASSUME NEW n \in Nat, NEW r \in Nat, NEW sum \in Int, NEW s \in 1..5,
         NEW a \in AddToAverage(r, n, s), Within(n, DriftOf(n, r, sum))
  PROVE  Within(n + 1, DriftOf(n + 1, a, sum + s))
  <1> DEFINE step == a * (n + 1) - (r * n + 100 * s)
             old  == DriftOf(n, r, sum)
             new  == DriftOf(n + 1, a, sum + s)
             k    == n * (n + 1)
  <1>1. a \in Nat /\ 2 * step <= n + 1 /\ -2 * step <= n + 1
    BY DEF AddToAverage
  <1>2. 4 * old <= k /\ -4 * old <= k
    BY DEF Within
  <1>3. new = old + step
    <2>1. a * (n + 1) = (n + 1) * a /\ r * n = n * r
      BY <1>1
    <2>2. (n + 1) * a \in Int /\ n * r \in Int
      BY <1>1
    <2>3. QED
      BY <2>1, <2>2 DEF DriftOf
  <1>4. (n + 1) * ((n + 1) + 1) = k + 2 * (n + 1)
    OBVIOUS
  <1>5. old \in Int /\ step \in Int /\ k \in Int
    BY <1>1 DEF DriftOf
  <1> HIDE DEF old, new, step, k
  <1>6. 4 * new <= k + 2 * (n + 1) /\ -4 * new <= k + 2 * (n + 1)
    BY <1>1, <1>2, <1>3, <1>5
  <1>7. QED
    BY <1>4, <1>6 DEF Within, new

(* A review that is written adds its stars to its product and its store,    *)
(* and one rounding to the rating of each.                                  *)
LEMMA DriftCommit ==
  ASSUME CatalogInv, CatalogInv', DriftInv, NEW r \in Requests, ReviewCommit(r)
  PROVE  DriftInv'
  <1> DEFINE v == request[r]
             p == v.product
             s == StoreOf[p]
  <1> USE CatalogAssumption
  <1>1. /\ v \in Review /\ p \in Products /\ s \in Stores /\ p # s
        /\ v.stars \in 1..5
    BY ZenonT(60) DEF CatalogInv, TypeOK, ReviewCommit, Review
  <1>2. PICK a \in AddToAverage(score[p].rating, score[p].count, v.stars),
             b \in AddToAverage(score[s].rating, score[s].count, v.stars) :
          score' = [score EXCEPT ![p] = [rating |-> a, count |-> @.count + 1],
                                 ![s] = [rating |-> b, count |-> @.count + 1]]
    BY DEF ReviewCommit
  <1>3. reviews' = reviews \cup {v} /\ v \notin reviews
    BY DEF ReviewCommit, Unique, Reviewed
  <1> SUFFICES ASSUME NEW x \in Products \cup Stores
               PROVE  Within(score'[x].count,
                             DriftOf(score'[x].count, score'[x].rating,
                                     SumFunctionOnSet(StarsOf(x)', ReviewsOf(x)')))
    BY DEF DriftInv
  <1> DEFINE n   == score[x].count
             sum == SumFunctionOnSet(StarsOf(x), ReviewsOf(x))
  <1>4. /\ score \in [Products \cup Stores -> Score]
        /\ n \in Nat /\ score[x].rating \in Nat
    <2>1. score \in [Products \cup Stores -> Score]
      BY DEF CatalogInv, TypeOK
    <2>2. score[x] \in Score
      BY <2>1
    <2>3. QED
      BY <2>1, <2>2, SMTT(30) DEF Score
  <1>5. /\ IsFiniteSet(ReviewsOf(x)) /\ v \notin ReviewsOf(x)
        /\ \A w \in ReviewsOf(x) : w.stars \in Int
    <2>1. ReviewsOf(x) \subseteq reviews
      BY DEF ReviewsOf
    <2>2. ASSUME NEW w \in reviews PROVE w.stars \in Int
      <3>1. w \in Review
        BY DEF CatalogInv, TypeOK
      <3>2. w.stars \in 1..5
        BY <3>1 DEF Review
      <3>3. QED
        BY <3>2
    <2>3. QED
      BY <1>3, <2>1, <2>2, FS_Subset DEF CatalogInv, CountInv
  <1>6. sum \in Int
    BY <1>5, SumType DEF StarsOf
  <1>7. Within(n, DriftOf(n, score[x].rating, sum))
    BY DEF DriftInv
  <1>8. CASE x \in {p, s}
    <2>1. PICK c \in AddToAverage(score[x].rating, n, v.stars) :
            score'[x] = [rating |-> c, count |-> n + 1]
      <3>1. CASE x = p
        BY <1>1, <1>2, <1>4, <3>1
      <3>2. CASE x = s
        BY <1>1, <1>2, <1>4, <3>2
      <3>3. QED
        BY <1>8, <3>1, <3>2
    <2>2. ReviewsOf(x)' = ReviewsOf(x) \cup {v}
      BY <1>3, <1>8 DEF ReviewsOf
    <2>3. SumFunctionOnSet(StarsOf(x)', ReviewsOf(x)') = sum + v.stars
      <3>1. \A w \in ReviewsOf(x) : StarsOf(x)[w] = StarsOf(x)'[w]
        BY <2>2 DEF StarsOf
      <3>2. StarsOf(x)'[v] = v.stars
        BY <2>2 DEF StarsOf
      <3>3. \A w \in ReviewsOf(x) \cup {v} : StarsOf(x)'[w] \in Int
        BY <1>1, <1>5, <2>2 DEF StarsOf
      <3>4. SumFunctionOnSet(StarsOf(x)', ReviewsOf(x) \cup {v}) = sum + StarsOf(x)'[v]
        BY <1>5, <3>1, <3>3, SumAddRow
      <3>5. QED
        BY <2>2, <3>2, <3>4
    <2>4. score'[x].count = n + 1 /\ score'[x].rating = c
      BY <2>1
    <2> HIDE DEF n, sum, v
    <2>5. Within(n + 1, DriftOf(n + 1, c, sum + v.stars))
      BY <1>1, <1>4, <1>6, <1>7, <2>1, DriftGrows
    <2>6. QED
      BY <2>3, <2>4, <2>5
  <1>9. CASE x \notin {p, s}
    <2>1. score'[x] = score[x]
      BY <1>1, <1>2, <1>4, <1>9
    <2>2. ReviewsOf(x)' = ReviewsOf(x)
      BY <1>3, <1>9 DEF ReviewsOf
    <2>3. StarsOf(x)' = StarsOf(x)
      BY <2>2 DEF StarsOf
    <2>4. QED
      BY <1>7, <2>1, <2>2, <2>3
  <1>10. QED
    BY <1>8, <1>9

(* No other step touches reviews or ratings.                                *)
LEMMA DriftStep ==
  ASSUME CatalogInv, CatalogInv', DriftInv, [Next]_vars
  PROVE  DriftInv'
  <1>1. CASE \E r \in Requests : ReviewCommit(r)
    BY <1>1, DriftCommit
  <1>2. CASE UNCHANGED <<reviews, score>>
    BY <1>2 DEF DriftInv, StarsOf, ReviewsOf
  <1>3. UNCHANGED <<reviews, score>> \/ \E r \in Requests : ReviewCommit(r)
    BY DEF Next, Consume, Write, HandleStock, HandleOrder, HandleUser, UserMissing,
       InsertUser, InsertFails, ReviewCheck, ReviewFails, DeleteProduct, social, vars
  <1>4. QED
    BY <1>1, <1>2, <1>3

(* Without reviews a rating is 0, and off by nothing.                       *)
LEMMA DriftInit == Init => DriftInv
  <1> SUFFICES ASSUME Init, NEW x \in Products \cup Stores
               PROVE  Within(score[x].count,
                             DriftOf(score[x].count, score[x].rating,
                                     SumFunctionOnSet(StarsOf(x), ReviewsOf(x))))
    BY DEF DriftInv
  <1>1. ReviewsOf(x) = {} /\ score[x] = [rating |-> 0, count |-> 0]
    BY DEF Init, ReviewsOf
  <1>2. SumFunctionOnSet(StarsOf(x), ReviewsOf(x)) = 0
    BY <1>1, SumEmpty
  <1>3. QED
    BY <1>1, <1>2 DEF Within, DriftOf

(* A rating is the mean of its reviews up to a quarter of a hundredth for  *)
(* each review and one more: the roundings of addToAverage add up to no    *)
(* more, in whatever order buyers review.                                  *)
THEOREM RatingsDriftSlowly == Spec => []RatingDriftBounded
  <1>1. CatalogInv /\ DriftInv => RatingDriftBounded
    <2> SUFFICES ASSUME CatalogInv, DriftInv, NEW x \in live \cup Stores
                 PROVE  LET n == score[x].count
                            error == n * score[x].rating - 100 * SumFunction(StarsOf(x))
                        IN 4 * error <= n * (n + 1) /\ -4 * error <= n * (n + 1)
      BY DEF RatingDriftBounded, StarsOf
    <2>1. x \in Products \cup Stores
      BY DEF CatalogInv, TypeOK
    <2>2. SumFunction(StarsOf(x)) = SumFunctionOnSet(StarsOf(x), ReviewsOf(x))
      BY DEF SumFunction, StarsOf
    <2>3. QED
      BY <2>1, <2>2 DEF DriftInv, Within, DriftOf
  <1>2. CatalogInv /\ DriftInv /\ [Next]_vars => (CatalogInv /\ DriftInv)'
    BY CatalogStep, DriftStep
  <1>3. QED
    BY <1>1, <1>2, CatalogInit, DriftInit, PTL DEF Spec

=============================================================================
