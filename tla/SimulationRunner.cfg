SPECIFICATION FairRunnerSpec
CONSTANTS
  c1 = c1
  c2 = c2
  c3 = c3
  NoLock = NoLock
  Clients = {c1}
  MaxStarts = 2
  MaxLines = 2
  MaxCrashes = 1
  Faults = TRUE
  PromptCleanup = TRUE
INVARIANTS
  OneChild
  TerminalMeansDrained
  TailIngested
PROPERTIES
  StoppingEnds
CHECK_DEADLOCK FALSE
