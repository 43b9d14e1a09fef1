\* Three reviews of a store, two of them of one product; two versions of stock and of a name.
CONSTANTS
  s1 = s1  p1 = p1  p2 = p2  b1 = b1  b2 = b2  u1 = u1
  o1 = o1  o2 = o2  r1 = r1  r2 = r2
  Products = {p1, p2}
  Stores = {s1}
  StoreOf <- InStore1
  Buyers = {b1, b2}
  Users = {u1}
  Orders = {o1, o2}
  Buyer <- PlacedBy
  Quantity <- Bought
  Requests = {r1, r2}
  Stars = {4, 5}
  MaxStock = 2
  MaxName = 2
  Nil = Nil
SPECIFICATION Spec
SYMMETRY Symmetry
INVARIANTS
  TypeOK
  SoldOnce
  StockShownIsNewest
  ReviewsCounted
  RatingDriftBounded
  NamesConverge
CHECK_DEADLOCK FALSE
