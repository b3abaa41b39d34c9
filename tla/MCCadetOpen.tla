----------------------------- MODULE MCCadetOpen -----------------------------
(* Instances of CadetOpen for TLC; the constants are in the .cfg files. *)
EXTENDS CadetOpen
=============================================================================
