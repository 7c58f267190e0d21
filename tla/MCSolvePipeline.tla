---------------------------- MODULE MCSolvePipeline ----------------------------
(* SolvePipeline for TLC; the constants are in the configurations.           *)
EXTENDS SolvePipeline
=============================================================================
