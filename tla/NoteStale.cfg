SPECIFICATION Spec
CONSTANTS
  Calcs = {"d1", "d2"}
  Policies = {"copy"}
  MaxEdits = 3
  MaxBuilds = 2
  None = None
INVARIANT ReturnedNotesAreCurrent
CHECK_DEADLOCK FALSE
