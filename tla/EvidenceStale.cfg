SPECIFICATION Spec
CONSTANTS
  Records = {"r1"}
  Observations = {"o1", "o2"}
  Question = {"q1"}
  Envelope = {"v1"}
  Author = {"A"}
  Evidence <- MCEvidence
  Insufficient <- MCInsufficient
  Members <- MCMembers
  Computable <- MCComputable
  MaxRuns = 8
  MaxEdits = 1
  MaxCuts = 0
  None = None
PROPERTY ParagraphIsCurrent
CHECK_DEADLOCK FALSE
