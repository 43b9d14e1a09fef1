\* Two requests of one buyer at the same time, which both see the same units, voucher
\* use and balance; prices that round both ways, a voucher larger than some carts, a
\* capped promo, codes that expire and a product that disappears.
CONSTANTS
  o1 = o1  o2 = o2  b1 = b1  b2 = b2  s1 = s1  s2 = s2  p1 = p1  p2 = p2
  v1 = v1  c1 = c1  r1 = r1  r2 = r2
  Buyers = {b1}
  Stores = {s1}
  Products = {p1}
  Orders = {o1, o2}
  Drivers = {}
  Vouchers = {v1}
  Quota <- OneUseEach
  NoCode = NoCode
  NoDriver = NoDriver
  NoBill = NoBill
  Requests = {r1, r2}
  StoreOf <- OneStore
  Nil = Nil
  NoCap = NoCap
  Promos = {c1}
  VoucherRow <- Vouchers30
  PromoRow <- Promos33
  Prices = {7, 25}
  Quantities = {1}
  Fee = 2
  StockLevels = {2}
  TopUps = {60}
  MaxBalance = 0
  MaxVersion = 1
SPECIFICATION Spec
SYMMETRY Symmetry
INVARIANTS
  TypeOK
  QuoteIsExact
  DiscountWithinOffer
PROPERTY ImplementsLifecycle
CHECK_DEADLOCK FALSE
