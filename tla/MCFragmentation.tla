--------------------------- MODULE MCFragmentation ---------------------------
(* Fragmentation for TLC; the configurations give the constants. *)
EXTENDS Fragmentation
=============================================================================
