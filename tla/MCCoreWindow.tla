---------------------------- MODULE MCCoreWindow ----------------------------
(* CoreWindow for TLC: a bitmap of two bits and enough numbers to leave it. *)
EXTENDS CoreWindow
=============================================================================
