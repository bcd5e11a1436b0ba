SPECIFICATION RunSpec
CONSTANTS
  MaxExecs = 2
  Runs = {"r1", "r2"}
  Order <- TwoPlatforms
  Lines = 1
  AtomicRead = TRUE
  Overlap = FALSE
INVARIANTS
  RowsArePrefix
  
  IngestedBeforeResult
  OneWriter
CHECK_DEADLOCK FALSE
