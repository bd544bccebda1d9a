\* Every message may have been handled, and the panel closed for good.
SPECIFICATION Spec
CONSTANTS
  Root = {r1, r2}
  None = None
  MaxSwitches = 1
  MaxFailures = 0
CHECK_DEADLOCK FALSE
INVARIANT WritesStayAtHome
