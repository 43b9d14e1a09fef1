\* Two requests of one buyer at the same time; two stores.
CONSTANTS
  o1 = o1  o2 = o2  b1 = b1  b2 = b2  s1 = s1  s2 = s2  p1 = p1  p2 = p2
  v1 = v1  c1 = c1  r1 = r1  r2 = r2
  Buyers = {b1}
  Stores = {s1, s2}
  Products = {p1, p2}
  Orders = {o1}
  Drivers = {}
  Vouchers = {}
  Quota <- OneUseEach
  NoCode = NoCode
  NoDriver = NoDriver
  NoBill = NoBill
  Requests = {r1, r2}
  StoreOf <- TwoStores
  Nil = Nil
  NoCap = NoCap
  Promos = {}
  VoucherRow <- Vouchers5
  PromoRow <- Promos20
  Prices = {10}
  Quantities = {1}
  Fee = 2
  StockLevels = {1}
  TopUps = {30}
  MaxBalance = 0
  MaxVersion = 1
SPECIFICATION Spec
SYMMETRY Symmetry
INVARIANTS
  OneStorePerCheckout
CHECK_DEADLOCK FALSE
