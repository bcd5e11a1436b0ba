SPECIFICATION FairReportSpec
CONSTANTS
  Reports = {"r1", "r2"}
  MaxSections = 2
  MaxTools = 2
  MaxReflect = 1
  MaxRuns = 2
  MaxCrashes = 1
  Torn = TRUE
  DeletesBusy = FALSE
INVARIANTS
  
  TaskHasReport
PROPERTY EveryReportEnds
CHECK_DEADLOCK FALSE
