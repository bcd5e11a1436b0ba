SPECIFICATION LifecycleSpec
CONSTANTS
  p1 = p1
  p2 = p2
  p3 = p3
  d1 = d1
  d2 = d2
  k1 = k1
  c1 = c1
  c2 = c2
  w1 = w1
  w2 = w2
  NoKey = NoKey
  NoProject = NoProject
  Projects = {p1, p2, p3}
  Documents = {d1, d2}
  Files <- FilesOfThree
  Keys = {k1}
  KeyOf <- SharedKey
  MaxActive = 2
  MaxBytes = 2
  Clients = {c1, c2}
  Purgers = {w1, w2}
  Faulty = TRUE
INVARIANTS
  BytesWithinQuota
  OneProjectPerKey
  NoOrphans
PROPERTIES
  DocumentsStay
SYMMETRY LifecycleSymmetry
CHECK_DEADLOCK FALSE
