SPECIFICATION Spec
CONSTANTS
  BaseOrder <- MCOrder
  Bound <- MCBound
  Added <- MCAdded
  AuthorText <- MCAuthorText
  CurrentText <- MCCurrentText
  Spots <- MCSpots
  MaxAuthor = 2
  MaxCurrent = 1
  None = None
CHECK_DEADLOCK FALSE
INVARIANTS
  AuthorProseSurvives
  NumbersFollowSource
  OrderIsIntended
