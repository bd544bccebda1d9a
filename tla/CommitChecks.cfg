\* Every call is made once, so the behaviour ends.
SPECIFICATION ChecksFairSpec
CONSTANTS
  Call = {"c1", "c2", "c3"}
  Key = {k1, k2}
  None = None
  MaxEntries = 1
  MaxClears = 1
  Repo = {"r1", "r2"}
  Row = {"h1", "h2"}
  Hosted = {"r1"}
  Unpushed = {"h2"}
  Request = {"q1", "q2"}
  NoMatch = NoMatch
  Fanout = 1
  LateReplyClears = FALSE
  MaxEvents = 2
  Task = {"t1", "t2", "t3"}
  Absent = Absent
  Provider = {"github", "gitlab", "bitbucket-cloud"}
  Response <- Responses
  Limit = 2
  Window = 2
  Pause = 1
  Horizon = 3
  Fallback = 1
  Ceiling = 2
  Reserve = 0
  MaxTime = 2
  MaxResets = 1
INVARIANTS OneFetchPerKey InflightIsCurrent   GateIsCurrent
PROPERTIES StartsAreAllowed EveryCallSettles
CHECK_DEADLOCK FALSE
