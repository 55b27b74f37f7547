SPECIFICATION Spec
CONSTANTS
  Source = {"a"}
  Generated = "generated"
  Content <- MCContent
  ContentOf <- MCContentOf
  Evidence <- MCEvidence
  Topic = {"t1", "t2"}
  Author = {"author"}
  Standing <- MCStanding
  Mode = {"offline"}
  Inspection = {1}
  Commands <- MCCommands
  MaxRuns = 3
  MaxRevision = 1
  MaxTamper <- MCMaxTamper
  None = None
  Invalid = Invalid
INVARIANT RetryRepairs
