\* Every call is made once, and every window may have died, so the behaviour ends.
SPECIFICATION MutationsFairSpec
CONSTANTS
  c1 = c1
  c2 = c2
  s1 = s1
  w1 = w1
  p1 = p1
  p2 = p2
  shared = shared
  own = own
  linked = linked
  Call = {c1, c2, s1}
  Window = {w1}
  Path = {p1, p2}
  Root = {r1, r2}
  None = None
  Executor = {shared, own, linked}
  Home <- MCHome
  MaxConcurrent = 1
  Jobs <- AnyJobs
  Proc = {q1, q2}
  Nonce = {n1, n2}
  Beat = {b1, b2}
  FirstBeat = b1
  NoFile = NoFile
  Stalls = TRUE
  Crashes = TRUE
  Faults = TRUE
INVARIANTS SamePathOrder OnePerWorktree LockHeldWhileOperating CommandsAreAccounted LockIsExclusive TakeoverDisplacesNoHolder UnreadableIsNotHeld
PROPERTIES NobodyWaitsForEver
CHECK_DEADLOCK FALSE
