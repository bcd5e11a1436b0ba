SPECIFICATION QueueSpec
CONSTANTS
  j1 = j1
  j2 = j2
  s1 = s1
  s2 = s2
  e1 = e1
  e2 = e2
  e3 = e3
  w1 = w1
  w2 = w2
  NoJob = NoJob
  NoWorker = NoWorker
  Jobs = {j1, j2}
  Simulations = {s1}
  Executors = {e1, e2, e3}
  Workers = {w1, w2}
  SimOf <- OneSim
  WorkerOf <- MixedThreads
  MaxAttempts = 3
  Controls = {"paused", "queued", "cancelled"}
INVARIANTS
  OneActiveJobPerSimulation
  AtMostOneEntitled
  CompletionIsTheLastAttempt
PROPERTIES
  ImplementsContract
SYMMETRY QueueSymmetry
CHECK_DEADLOCK FALSE
