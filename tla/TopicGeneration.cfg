SPECIFICATION GenerationSpec
CONSTANTS
  Batches <- MCBatches
  Texts <- MCTexts
  UnitOf <- MCUnitOf
  Cases <- MCCases
  QoIs <- MCQoIs
  Params = {"Re", "T"}
  Versions = {"v", "w"}
  FirstVersions <- MCFirstVersions
  Envelope <- MCEnvelope
  Number <- MCNumber
  DefinitionOf <- MCDefinitionOf
  Assessment <- MCAssessment
  ClaimSets <- MCClaimSets
  MaxSaves = 2
  NoTrend = NoTrend
CHECK_DEADLOCK FALSE
INVARIANTS
  TopicsAreEarned
  TopicsStateTheirEvidence
  ScienceSurvives
