--------------------------- MODULE MCMigrationRun ---------------------------
(* MigrationRun on every graph over three objects, one of which has no     *)
(* class in the registry.                                                  *)
EXTENDS MigrationRun

MCGraphs == [Objects -> SUBSET Objects]
=============================================================================
