----------------------------- MODULE MCOverclock -----------------------------
(* Instances of Overclock for TLC; the values are in the .cfg files. *)
EXTENDS Overclock, TLC
=============================================================================
