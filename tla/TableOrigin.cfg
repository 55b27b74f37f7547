SPECIFICATION SectionSpec
CONSTANTS
  SectionInputs <- MCKindless
  Versions <- MCKindlessVersions
  MaxTableEdits = 0
INVARIANT OriginIndependent
CHECK_DEADLOCK FALSE
