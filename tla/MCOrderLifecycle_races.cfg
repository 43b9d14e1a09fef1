\* Two orders that share a wallet, a product and the last voucher use; two
\* processOrder requests, two overdue runs and two drivers.
CONSTANTS
  o1 = o1  o2 = o2  b1 = b1  s1 = s1  p1 = p1
  d1 = d1  d2 = d2  v1 = v1  r1 = r1  r2 = r2  a1 = a1  a2 = a2
  Buyers = {b1}
  Stores = {s1}
  Products = {p1}
  Orders = {o1, o2}
  Drivers = {d1, d2}
  Vouchers = {v1}
  Quota <- OneUseEach
  NoCode = NoCode
  NoDriver = NoDriver
  NoBill = NoBill
  SellerRequests = {r1, r2}
  AdminRuns = {a1, a2}
  Carts <- OneOfEach
  Totals = {3}
  TopUps = {4}
  StockLevels = {1}
  MaxBalance = 1
  MaxVersion = 1
  NoOrder = NoOrder
SPECIFICATION Spec
SYMMETRY Symmetry
INVARIANTS
  TypeOK
  MoneyConserved
  OutboxMirrorsStock
  VoucherAccounting
  JobTracksOrder
  RefundsBounded
  AnnouncedOnce
  HistoryMatchesRecords
PROPERTIES
  CompletedIsFinal
  StrandedJobIsInert
  ImplementsDiagram
CHECK_DEADLOCK FALSE
