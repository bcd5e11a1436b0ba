--------------------------- MODULE MCGraphLifecycle ---------------------------
(* Two simulations on one project, one report at a time.                     *)
EXTENDS GraphLifecycle, TLC

CONSTANTS s1, s2, r1

GraphSymmetry == Permutations(Sims)
=============================================================================
