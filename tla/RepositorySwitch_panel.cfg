\* Loads end and clicks are bounded, so a behaviour may stop.
SPECIFICATION FairSpec
CONSTANTS
  Repo = {r1, r2}
  None = None
  Load = {l1, l2}
  MaxEvents = 3
PROPERTIES PanelActionsStayHome
CHECK_DEADLOCK FALSE
