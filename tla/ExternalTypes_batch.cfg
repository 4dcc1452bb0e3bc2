SPECIFICATION FairSpec
CONSTANTS
  Lists <- MCLists
  Documented = {"own"}
  Published <- MCPublished
  Satisfying <- MCSatisfying
  Rank <- MCRank
  Tree <- MCTree
  MaxFiles = 3
  MaxBytes = 2
  LoadSlots = 2
  FileSlots = 2
  Retries = 3
  Faults = {"lost", "status", "body", "cache"}
  None = None
INVARIANTS
  LoadedIsMerged
  ResourcesBounded
PROPERTIES
  BatchEnds
CHECK_DEADLOCK FALSE
