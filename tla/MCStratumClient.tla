--------------------------- MODULE MCStratumClient ---------------------------
(* Instances of StratumClient for TLC; the values are in the .cfg files. *)
EXTENDS StratumClient, TLC
=============================================================================
