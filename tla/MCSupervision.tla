---------------------------- MODULE MCSupervision ----------------------------
(* Instances of Supervision for TLC; the values are in the MCSupervision*.cfg files. *)
EXTENDS Supervision
=============================================================================
