\* A rebase ends, and the behaviour with it.
SPECIFICATION Spec
CONSTANTS
  Window = {w1, w2}
  Session = {s1, s2}
  Nothing = Nothing
  Torn = Torn
  Other = Other
  Overlap = TRUE
  MaxTroubles = 0
CHECK_DEADLOCK FALSE
INVARIANT ReservationKept
