SPECIFICATION Spec
CONSTANTS
  Calcs = {"d1", "d2"}
  Policies = {"copy", "inplace"}
  MaxEdits = 3
  MaxBuilds = 3
  None = None
CHECK_DEADLOCK FALSE
INVARIANTS
  FiguresFollowSources
  HostIsTold
  BuildIsSettled
PROPERTY
  AuthorKept
