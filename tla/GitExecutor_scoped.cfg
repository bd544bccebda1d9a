\* Every call is made once, so the behaviour ends.
SPECIFICATION ExecSpec
CONSTANTS
  c1 = c1
  c2 = c2
  s1 = s1
  w1 = w1
  p1 = p1
  p2 = p2
  shared = shared
  own = own
  linked = linked
  Call = {c1, c2}
  Window = {w1}
  Path = {p1, p2}
  Root = {r1, r2}
  None = None
  Executor = {shared, own, linked}
  Home <- MCHome
  MaxConcurrent = 1
  Jobs <- ScopedJobs
INVARIANTS WritesHoldTheLock
CHECK_DEADLOCK FALSE
