SPECIFICATION Spec
CONSTANTS
  Slot = {s1, s2}
  Query = {q}
  Options <- MCOptions
  Stopper = {p1, p2}
  Provider = {p}
  Search = {f1, f2}
  Threshold = 2
  Cooldown = 1
  RetryAfter = 1
  CacheLife = 1
  MaxRetries = 1
  MaxConcurrency = 1
  WebQuery = {"q1"}
  MaxRequests = 3
  WebRetryAfter = 2
  PageUrl = {u1, u2, u3}
  PublicUrl = {u1, u2}
  Malformed = m
  MaxRedirects = 2
  MaxFetchRetries = 2
  Origin = {o1}
  Asker = {a1, a2}
  PolicyLife = 1
  Sitemap = {m1, m2, m3, m4}
  Listed = {l1, l2}
  Disallowed = {l2}
  MaxIndexDepth = 1
  MaxSitemaps = 3
  RpcClient = {c1, c2}
  RpcSlot = {1}
  RpcId = {1, 2}
  CacheKey = {"k1", "k2", "k3"}
  Capacity = 2
  Lifetime = 1
  MaxMinute = 3
  PoolWorker = {w1, w2}
  JobCount = 4
  MaxPerWindow = 2
  PoolWindow = 3
  MinDelay = 1
  MaxClock = 5
  MaxLines = 4
  MaxPattern = 2
CHECK_DEADLOCK FALSE
INVARIANTS
  RequestsTypeOK
  RequestsStayWhereAllowed
  OutwardWorkIsBounded
  HandlesNameWhatIsUnderWay
  NothingStaleIsUsed
  LimitsAreKept
PROPERTIES
  StopIsOrderly
  EverythingEnds
  RecentlyUsedStay
