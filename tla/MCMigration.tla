---------------------------- MODULE MCMigration ----------------------------
(* A small instance of Migration: a task of two files.                       *)
EXTENDS Migration
=============================================================================
