SPECIFICATION Spec
CONSTANTS
  Calcs = {"d1", "d2"}
  Policies = {"stays"}
  MaxEdits = 3
  MaxBuilds = 3
  None = None
INVARIANT FiguresFollowSources
CHECK_DEADLOCK FALSE
