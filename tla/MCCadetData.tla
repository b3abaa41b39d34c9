----------------------------- MODULE MCCadetData -----------------------------
(* Instances of CadetData for TLC; the constants are in the .cfg files. *)
EXTENDS CadetData
=============================================================================
