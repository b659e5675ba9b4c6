----------------------------- MODULE MCRowLocks -----------------------------
(* Instances of RowLocks for TLC. *)
EXTENDS RowLocks
CONSTANTS b1, b2
=============================================================================
