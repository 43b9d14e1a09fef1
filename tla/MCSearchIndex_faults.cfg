\* Two instances, two versions, one failure of any kind.
CONSTANTS
  p1 = p1  i1 = i1  i2 = i2  x1 = x1  x2 = x2  x3 = x3  x4 = x4
  Products = {p1}
  Instances = {i1, i2}
  Indices = {x1, x2, x3, x4}
  MaxVersion = 2
  Mishaps = {"error", "outage", "cleanup", "crash", "slow"}
  MaxMishaps = 1
  None = None
SPECIFICATION FairSpec
INVARIANTS
  TypeOK
  AppliedIsKept
  OneBuilding
PROPERTIES
  IndexNeverGoesBack
  AliasStays
  BootSettles
CHECK_DEADLOCK FALSE
