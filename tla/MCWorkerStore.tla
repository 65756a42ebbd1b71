--------------------------- MODULE MCWorkerStore ---------------------------
(* Model-checking instance of the job store under its most general client. *)
EXTENDS WorkerStore, TLC

Symmetry == Permutations(Jobs) \cup Permutations(Hosts)
============================================================================
