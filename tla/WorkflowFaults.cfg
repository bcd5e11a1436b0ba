SPECIFICATION FairWorkflowSpec
CONSTANTS
  j1 = j1
  j2 = j2
  j3 = j3
  s1 = s1
  e1 = e1
  e2 = e2
  w1 = w1
  c1 = c1
  c2 = c2
  r1 = r1
  r2 = r2
  NoJob = NoJob
  NoWorker = NoWorker
  NoRun = NoRun
  Jobs = {j1}
  Simulations = {s1}
  Executors = {e1, e2}
  Workers = {w1}
  Clients = {c1}
  Runs = {}
  SimOf <- OneSim
  WorkerOf <- OneProcess
  MaxAttempts = 2
  MaxRevision = 2
  DoneAtStart = 2
  Embedded = {}
  Faulty = TRUE
  Controls = {}
INVARIANTS
  CompletedMeansPublished
  
PROPERTIES
  EveryJobSettles
CHECK_DEADLOCK FALSE
