SPECIFICATION SyncSpec
CONSTANTS
  MaxExecs = 2
  Groups = 2
  Inputs <- Versions
  MaxAhead = 1
  Overlap = TRUE
INVARIANTS
  
  OneEvidencePerGraph
  OncePerAttempt
CHECK_DEADLOCK FALSE
