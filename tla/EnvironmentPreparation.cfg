SPECIFICATION FairPrepSpec
CONSTANTS
  Attempts = {"a1", "a2"}
  MaxEntities = 3
  Parallel = 2
  BatchSize = 2
  MaxTries = 2
  MaxPosts = 2
  MaxCrashes = 1
  Overlap = FALSE
  AtomicCheck = TRUE
INVARIANTS
  PreparedIsWhole
  
PROPERTY PreparationSettles
CHECK_DEADLOCK FALSE
