SPECIFICATION SectionSpec
CONSTANTS
  SectionInputs <- MCInputs
  Versions <- MCVersions
  MaxTableEdits = 1
INVARIANTS
  SectionAgrees
  CitedRecordsSuffice
  PhysicallySound
CHECK_DEADLOCK FALSE
