SPECIFICATION Spec
CONSTANTS
  Records = {"r1", "r2", "bad"}
  Observations = {"o1", "o2", "o3"}
  Question = {"q1", "q2"}
  Envelope = {"v1", "v2"}
  Author = {"A", "B"}
  Evidence <- MCEvidence
  Insufficient <- MCInsufficient
  Members <- MCMembers
  Computable <- MCComputable
  MaxRuns = 10
  MaxEdits = 1
  MaxCuts = 1
  None = None
ACTION_CONSTRAINT LongOrShort
CHECK_DEADLOCK FALSE
INVARIANTS
  OnlySoundEvidence
  CheckpointsHold
PROPERTY
  DerivedIsCurrent
