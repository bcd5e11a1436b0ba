--------------------------- MODULE MCJobQueue ---------------------------
(* An instance of JobQueue for TLC: two executors under one worker id, as  *)
(* the threads of an embedded worker are, and a thread of another process. *)
EXTENDS JobQueue, TLC

CONSTANTS j1, j2, s1, s2, e1, e2, e3, w1, w2

OneSim == [j \in Jobs |-> s1]
MixedThreads == [e \in Executors |-> IF e = e3 THEN w2 ELSE w1]

QueueSymmetry == Permutations(Jobs) \cup Permutations({e1, e2})
=============================================================================
