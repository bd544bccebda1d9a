SPECIFICATION Spec
CONSTANTS
  Call = {c1, c2}
  Key = {k1}
  None = None
  MaxEntries = 1
  MaxClears = 1
INVARIANTS ServedIsCurrent
CHECK_DEADLOCK FALSE
