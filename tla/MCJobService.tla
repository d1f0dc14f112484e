---------------------------- MODULE MCJobService ----------------------------
(* Small instances of JobService for TLC.                                  *)
EXTENDS JobService
=============================================================================
