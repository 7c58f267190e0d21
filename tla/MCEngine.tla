------------------------------ MODULE MCEngine ------------------------------
(* Instances of Engine for TLC; the values are in the MCEngine*.cfg files. *)
EXTENDS Engine, TLC
=============================================================================
