----------------------------- MODULE MCDatabase -----------------------------
(* The instance of Database for TLC: _SCHEMA has ten statements.           *)
EXTENDS Database
=============================================================================
