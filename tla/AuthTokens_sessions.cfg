SPECIFICATION Spec
CONSTANTS
  u1 = u1
  u2 = u2
  k1 = k1
  k2 = k2
  b1 = b1
  b2 = b2
  Users = {u1, u2}
  Browsers = {b1, b2}
  Registered = {u1}
  TokenLife = 2
  CookieLife = 1
  RequestTime = 1
  Slots = {k1, k2}
  MaxRequests = 4
  MaxTime = 3
INVARIANTS SessionKept FailsOnlyTogether NoFormerSession
SYMMETRY MC_Symmetry
CHECK_DEADLOCK FALSE
