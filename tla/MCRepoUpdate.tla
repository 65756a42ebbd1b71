---------------------------- MODULE MCRepoUpdate ----------------------------
(* Instances of RepoUpdate for TLC. *)
EXTENDS RepoUpdate

\* The limits that two fetches and a clone can tell apart; -1 is no limit.
LimitsWithNone == {-1, 0, 1}
=============================================================================
