SPECIFICATION WordingSpec
CHECK_DEADLOCK FALSE
CONSTANTS
  Batches <- MCBatches
  Texts <- MCTexts
INVARIANTS NothingDenied
