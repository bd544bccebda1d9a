\* A transaction is made once, shelves and generations are bounded, and texts are only chosen.
SPECIFICATION ShelvingFairSpec
CONSTANTS
  Window = {w1, w2}
  Second = c2
  Later = w2
  Change = {c1, c2}
  MaxShelves = 2
  MaxGen = 2
  Token = {t1}
  None = None
  MaxTroubles = 2
  MaxFiles = 2
  MaxEdits = 1
  MaxCrashes = 2
  Conflicting = {"e1", "e2"}
  MaxVersions = 2
  MaxGenerations = 3
  MaxSquashOutside = 2
  MaxCommitOutside = 1
INVARIANTS  StoreReadable CommitsKeepChanges 
PROPERTIES NothingLost  ResolutionsAreFenced EveryShelvingSettles
CHECK_DEADLOCK FALSE
