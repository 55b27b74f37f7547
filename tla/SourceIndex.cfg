SPECIFICATION Spec
CONSTANTS
  i1 = i1
  i2 = i2
  c1 = c1
  c2 = c2
  None = None
  Inspectors <- MCTwo
  Content <- MCContent
  MaxSaves = 2
  MaxStarts = 4
  MaxLost = 1
SYMMETRY Symmetry
CHECK_DEADLOCK FALSE
INVARIANTS
  RowIsLastVersion
  InspectionDelivers
  FastPathSound
