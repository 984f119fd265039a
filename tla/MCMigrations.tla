----------------------------- MODULE MCMigrations -----------------------------
(* Instances of Migrations for TLC. *)
EXTENDS Migrations

DraftOrActive == {"draft", "active"}
===============================================================================
