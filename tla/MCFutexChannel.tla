--------------------------- MODULE MCFutexChannel ---------------------------
(* Instances of FutexChannel for TLC: which tasks and items are permuted.  *)
EXTENDS FutexChannel

Symmetry == Permutations(Tasks) \union Permutations(Items)
=============================================================================
