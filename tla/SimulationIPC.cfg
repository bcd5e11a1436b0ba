SPECIFICATION FairIpcSpec
CONSTANTS
  Calls = {"ask1", "ask2", "close1"}
  Closing = {"close1"}
  MaxEnvs = 2
  Kills = TRUE
INVARIANTS
  ServesOnceThenCloses
PROPERTIES
  ServesTheWaiting
  NoCommandIsStuck
CHECK_DEADLOCK FALSE
