----------------------------- MODULE MCMigration -----------------------------
(* Instances of Migration for TLC: a generation of three tokens that may be *)
(* moved twice.                                                             *)
EXTENDS Migration
=============================================================================
