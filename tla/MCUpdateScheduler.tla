------------------------- MODULE MCUpdateScheduler -------------------------
(* Instances of UpdateScheduler for TLC. *)
EXTENDS UpdateScheduler, TLC

SymmetricRepos == Permutations(Repos)

Generation1  == 1 .. 1
Generations3 == 1 .. 3

\* The clocks of repo-updater and gitserver differ: LastFetched before
\* LastChanged.
Skewed == {-1}
============================================================================
