------------------------------ MODULE MCStore ------------------------------
(* Bounds for the model checker: two callers and two URLs are enough for   *)
(* every pair of operations to meet on one lock, and, through equal bytes, *)
(* on one content file; two contents give a wrong one.                     *)
EXTENDS Store, TLC

Symmetry == Permutations(Procs) \union Permutations(URLs)
              \union Permutations(Bytes)
=============================================================================
