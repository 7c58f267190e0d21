------------------------------ MODULE MCDevFee ------------------------------
(* Instances of DevFee for TLC; the values are in the MCDevFee*.cfg files. *)
EXTENDS DevFee, TLC
=============================================================================
