\* Two instances, no failures: an event handled by one while the other rebuilds.
CONSTANTS
  p1 = p1  i1 = i1  i2 = i2  x1 = x1  x2 = x2  x3 = x3  x4 = x4
  Products = {p1}
  Instances = {i1, i2}
  Indices = {x1, x2, x3, x4}
  MaxVersion = 2
  Mishaps = {}
  MaxMishaps = 0
  None = None
SPECIFICATION Spec
INVARIANT SwapMissesNothing
CHECK_DEADLOCK FALSE
