-------------------------- MODULE MCProjectLifecycle --------------------------
(* Two calls under way and three instances. *)
EXTENDS ProjectLifecycle, TLC
CONSTANTS i1, i2, i3, k1, k2
Symmetry == Permutations({i1, i2, i3}) \cup Permutations({k1, k2})
===============================================================================
