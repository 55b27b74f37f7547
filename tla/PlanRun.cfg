SPECIFICATION Spec
CONSTANTS
  Source = {"a", "b", "generated"}
  Generated = "generated"
  Content <- MCContent
  ContentOf <- MCContentOf
  Evidence <- MCEvidence
  Topic = {"t1", "t2"}
  Author = {"author"}
  Standing <- MCStanding
  Mode = {"offline", "auto"}
  Inspection = {1, 2}
  Commands <- MCCommands
  MaxRuns = 3
  MaxRevision = 2
  MaxTamper <- MCMaxTamper
  None = None
  Invalid = Invalid
INVARIANTS
  DatabaseIsGenuine
  ApprovalsStand
  CollisionNeedsCause
  RepairsInPlace
PROPERTY
  WorkKept
