SPECIFICATION FairSpec
CONSTANTS
  Repo = {r1, r2}
  None = None
  Garbled = Garbled
  Filters = {"all", "f1"}
  Everything = "all"
  LogLength = 2
  Loads = {"l1", "l2"}
  Stashes = {"s0"}
  FirstStash = "s0"
  Slots = {"a", "b"}
  Hashes = {"h1"}
  Texts = {"t0", "t1"}
  FirstText = "t0"
  Hosts = {"p1", "p2"}
  Messages = {"", "m1"}
  NoMessage = ""
  GraphEvents = 4
  PanelEvents = 2
  DetailEvents = 4
  EditorEvents = 4
  DraftEvents = 5
  SwitchEvents = 2
INVARIANTS ActiveRepositoryIsShown GraphIsCurrent PaneShowsTheSelection EditsLandWhereMeasured
PROPERTIES NothingOldIsPosted LatestIsShown DraftIsNotStranded NoMessageIsLost EveryWaitEnds
CHECK_DEADLOCK FALSE
