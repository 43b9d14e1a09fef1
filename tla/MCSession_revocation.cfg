\* One user; identity and another service; time up to past every expiry.
CONSTANTS
  u1 = u1  s1 = s1  s2 = s2  t1 = t1  t2 = t2  t3 = t3
  i1 = i1  i2 = i2  r1 = r1  r2 = r2
  Users = {u1}
  Sessions = {s1}
  UserOf <- OneUser
  RefreshTokens = {t1, t2, t3}
  Instances = {i1, i2}
  Identity = {i1}
  Requests = {r1, r2}
  Nil = Nil
  Ttls = {1}
  MaxTtl = 1
  Horizon = 3
  Retention = 3
  Delay = 1
  MaxTime = 5
SPECIFICATION FairSpec
INVARIANTS
  TypeOK
  OneRefreshToken
  CaughtUpDenies
PROPERTIES
  RevocationIsFinal
  RevocationIsHeard
CHECK_DEADLOCK FALSE
