\* One product that is created and changed or deleted; two sellers set the stock of one product before and while it arrives.
CONSTANTS
  s1 = s1  p1 = p1  seller = seller  other = other  x1 = x1  x2 = x2
  relay1 = relay1  relay2 = relay2
  Events <- ReplicaEvents
  Stores = {s1}
  Products = {p1}
  StoreOf <- InStore1
  SellerOf <- SoldBySeller
  None = None
  Sellers = {seller, other}
  Setters = {x1}
  Levels = {1, 2}
  MaxVersion = 2
  MaxStoreVersion = 3
  MaxSets = 2
  Relays = {relay1}
  MaxAttempts = 1
SPECIFICATION Spec
INVARIANTS
  TypeOK
  QuietMeansReplicated
  PendingStockNotStranded
PROPERTIES
  ReplicaNeverGoesBack
CHECK_DEADLOCK FALSE
