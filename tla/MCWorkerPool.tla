---------------------------- MODULE MCWorkerPool ----------------------------
(* Symmetry for the safety runs of WorkerPool: workers, closers and the    *)
(* callers of one kind are interchangeable; the jobs are not, since they   *)
(* are submitted in a fixed order.                                         *)
EXTENDS WorkerPool, TLC

Symmetry == Permutations(Workers) \cup Permutations(Closers)
              \cup Permutations(TryCallers) \cup Permutations(CtxCallers)
=============================================================================
