SPECIFICATION Spec
CONSTANTS
  Spine <- MCSpine
  Names = {"m", "x"}
  Local <- MCLocal
  Required <- MCRequired
  FirstBind <- MCFirstBind
  FirstDepends <- MCFirstDepends
  Refs <- MCRefs
  MaxEdits = 2
  MaxRuns = 2
  None = None
CHECK_DEADLOCK FALSE
INVARIANTS
  ValuesFollowOwner
  NumbersAreConsistent
  ReportsAreTrue
PROPERTY
  RefreshKeepsMeaning
