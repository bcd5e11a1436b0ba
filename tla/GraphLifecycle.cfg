SPECIFICATION GraphSpec
CONSTANTS
  s1 = s1
  s2 = s2
  r1 = r1
  Sims = {s1, s2}
  Reports = {r1}
  MaxGraphs = 2
  MaxBuilds = 2
  MaxCrashes = 1
INVARIANTS
  ReportsReadAtRest
  NoOrphanGraph
  BuildOwnsProject
PROPERTIES
  UsedGraphStays
SYMMETRY GraphSymmetry
CHECK_DEADLOCK FALSE
