SPECIFICATION FairSpec
CONSTANTS
  t1 = t1
  t2 = t2
  t3 = t3
  h1 = h1
  h2 = h2
  None = None
  Threads <- MCThreads
  HostOf <- MCHostOf
  Block = {0, 1}
  Given <- MCGiven
  MaxEdits = 1
  MaxDamage = 1
CHECK_DEADLOCK FALSE
ACTION_CONSTRAINT PairOrPlain
INVARIANTS
  StoredBytesMatch
  OkMeansStored
  NoOrphanLock
  RenameOntoNothing
PROPERTY
  EveryCallEnds
