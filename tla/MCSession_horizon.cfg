\* Tokens may live as long as the configuration allows: up to the cap.
CONSTANTS
  u1 = u1  s1 = s1  s2 = s2  t1 = t1  t2 = t2  t3 = t3
  i1 = i1  i2 = i2  r1 = r1  r2 = r2
  Users = {u1}
  Sessions = {s1}
  UserOf <- OneUser
  RefreshTokens = {t1, t2, t3}
  Instances = {i1}
  Identity = {i1}
  Requests = {r1}
  Nil = Nil
  Ttls = {1, 2, 3}
  MaxTtl = 3
  Horizon = 3
  Retention = 3
  Delay = 1
  MaxTime = 5
SPECIFICATION Spec
INVARIANT HorizonCoversTokens
CHECK_DEADLOCK FALSE
