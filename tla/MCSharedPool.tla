---------------------------- MODULE MCSharedPool ----------------------------
(* Small instances of SharedPool for TLC.                                  *)
EXTENDS SharedPool
=============================================================================
