----------------------------- MODULE MCMigration -----------------------------
(* Migration for TLC; the instances are in the .cfg files. *)
EXTENDS Migration
=============================================================================
