\* The rebase ends.
SPECIFICATION Spec
CONSTANTS
  Count = 3
  None = None
  MaxSteps = 3
  MaxTroubles = 0
CHECK_DEADLOCK FALSE
INVARIANT MessagesArrive
