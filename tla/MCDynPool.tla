------------------------------ MODULE MCDynPool ------------------------------
(* Symmetry for the safety runs of DynPool; the jobs are submitted in a    *)
(* fixed order and so are not interchangeable.                             *)
EXTENDS DynPool, TLC

Symmetry == Permutations(Slots) \cup Permutations(Closers)
              \cup Permutations(TryCallers) \cup Permutations(CtxCallers)
=============================================================================
