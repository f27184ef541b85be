----------------------------- MODULE MCTableLocks -----------------------------
(* The instance of TableLocks for TLC. *)
EXTENDS TableLocks
=============================================================================
