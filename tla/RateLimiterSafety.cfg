SPECIFICATION FairSpec
CONSTANTS
  Keys = {k1}
  Buckets = {b1, b2, b3}
  Mutexes = {m1, m2, m3}
  Requests = {r1, r2}
  None = None
  Token = 2
  Limit = 5
  Rate = 3
  Ttl = 2
  MaxTime = 4
INVARIANTS TypeOK Serialized WithinLimit
PROPERTIES RefusedWhenSpent AllowReturns
CHECK_DEADLOCK FALSE
