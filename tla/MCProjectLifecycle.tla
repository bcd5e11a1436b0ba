------------------------- MODULE MCProjectLifecycle -------------------------
(* Three calls of create_project, two of them with one idempotency key.    *)
EXTENDS ProjectLifecycle, TLC

CONSTANTS p1, p2, p3, d1, d2, k1, c1, c2, w1, w2

FilesOfThree == (p1 :> {d1}) @@ (p2 :> {d1}) @@ (p3 :> {d1, d2})
SharedKey == (p1 :> k1) @@ (p2 :> k1) @@ (p3 :> NoKey)

LifecycleSymmetry == Permutations(Clients) \cup Permutations(Purgers)
=============================================================================
