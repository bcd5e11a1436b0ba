--------------------------- MODULE MCWorkflow ---------------------------
(* Finite instances of Workflow for TLC: one simulation, threads of one    *)
(* process.                                                                *)
EXTENDS Workflow, TLC

CONSTANTS j1, j2, j3, s1, e1, e2, w1, c1, c2, r1, r2

OneSim == [j \in Jobs |-> s1]
OneProcess == [e \in Executors |-> w1]

WorkflowSymmetry == Permutations(Executors) \cup Permutations(Jobs)
                      \cup Permutations(Clients) \cup Permutations(Runs)
=============================================================================
