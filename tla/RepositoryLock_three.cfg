\* Every process may have died, so a behaviour may stop.
SPECIFICATION Spec
CONSTANTS
  Proc = {p1, p2, p3}
  Nonce = {n1, n2}
  Beat = {b1, b2}
  FirstBeat = b1
  NoFile = NoFile
  Stalls = TRUE
  Crashes = TRUE
  Faults = FALSE
SYMMETRY Symmetry
INVARIANTS MutualExclusion
CHECK_DEADLOCK FALSE
