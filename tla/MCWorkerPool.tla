---------------------------- MODULE MCWorkerPool ----------------------------
(* Model-checking instances of the worker pool. *)
EXTENDS WorkerPool, TLC

Symmetry == Permutations(Jobs) \cup Permutations(Hosts \ Reliable)
=============================================================================
