----------------------------- MODULE MCStatistics -----------------------------
(* Instances of Statistics for TLC; the values are in the MCStatistics*.cfg files. *)
EXTENDS Statistics

\* The devices are all alike.
Symmetry == Permutations(Devices)
=============================================================================
