----------------------------- MODULE MCMigrator -----------------------------
(***************************************************************************)
(* Two modules in one database; local time one second behind UTC, so that  *)
(* `migrate create` may stamp a script in the past of a slice.             *)
(***************************************************************************)
EXTENDS Migrator, TLC
CONSTANTS auth, todo
TwoSchemas == {auth, todo}
SchemaSymmetry == Permutations(TwoSchemas)
BehindUTC == -1
=============================================================================
