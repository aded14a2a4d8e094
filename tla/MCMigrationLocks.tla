-------------------------- MODULE MCMigrationLocks --------------------------
(***************************************************************************)
(* Instances of MigrationLocks for TLC.                                    *)
(***************************************************************************)
EXTENDS MigrationLocks
=============================================================================
