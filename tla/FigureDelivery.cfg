SPECIFICATION FigureSpec
CHECK_DEADLOCK FALSE
CONSTANTS
  UnitOf <- MCUnitOf
  UnitNumerals <- MCUnitNumerals
  Inputs <- MCInputs
  Clipped = {"long"}
  MaxCommands = 4
  MaxDeskEdits = 2
  MaxCuts = 2
  Template = Template
  Edited = Edited
  Torn = Torn
  Absent = Absent
INVARIANTS
  SentenceIsTrue
PROPERTIES
  ScriptKept
  RenderingRepeats
