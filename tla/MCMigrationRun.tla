--------------------------- MODULE MCMigrationRun ---------------------------
(***************************************************************************)
(* Instances of MigrationRun for TLC.                                      *)
(***************************************************************************)
EXTENDS MigrationRun, TLC

PartSymmetry == Permutations(Parts)
=============================================================================
