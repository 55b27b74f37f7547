SPECIFICATION FigureSpec
CHECK_DEADLOCK FALSE
CONSTANTS
  UnitOf <- MCUnitOf
  UnitNumerals <- MCUnitNumerals
  Inputs <- MCRefused
  Clipped = {"long"}
  MaxCommands = 4
  MaxDeskEdits = 2
  MaxCuts = 1
  Template = Template
  Edited = Edited
  Torn = Torn
  Absent = Absent
PROPERTIES RefusedForCause
