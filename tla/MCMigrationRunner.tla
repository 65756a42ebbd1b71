------------------------- MODULE MCMigrationRunner -------------------------
(* Instances of MigrationRunner for TLC. *)
EXTENDS MigrationRunner
=============================================================================
