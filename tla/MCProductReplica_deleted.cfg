\* A deletion overtakes the creation of the product.
CONSTANTS
  s1 = s1  p1 = p1  seller = seller  other = other  x1 = x1  x2 = x2
  relay1 = relay1  relay2 = relay2
  Events <- ReplicaEvents
  Stores = {s1}
  Products = {p1}
  StoreOf <- InStore1
  SellerOf <- SoldBySeller
  None = None
  Sellers = {seller}
  Setters = {x1}
  Levels = {2}
  MaxVersion = 3
  MaxStoreVersion = 3
  MaxSets = 1
  Relays = {relay1}
  MaxAttempts = 1
SPECIFICATION Spec
INVARIANT DeletedStaysDeleted
CHECK_DEADLOCK FALSE
