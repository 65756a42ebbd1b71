---------------------------- MODULE MCRepoClone ----------------------------
(* Instance of RepoClone for TLC. *)
EXTENDS RepoClone
============================================================================
