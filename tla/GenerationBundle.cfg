SPECIFICATION Spec
CONSTANTS
  Science <- MCScience
  Opportunity <- MCOpportunity
  OppOf <- MCOppOf
  Wording = {"plain", "refined"}
  Plain = "plain"
  Mode <- MCMode
  Foreign = Foreign
  MaxRevision = 2
  MaxTouch = 1
  MaxDamage = 1
  None = None
INVARIANTS
  MarkerIsRestorable
  ConflictNeedsOutsider
  ReturnedIsCommitted
PROPERTIES
  RefinesRegister
