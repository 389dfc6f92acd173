---------------------------- MODULE MCRateLimit ----------------------------
(* RateLimit for TLC: the constants come from the cfg files. *)
EXTENDS RateLimit, TLC

Symmetry == Permutations(Requests)
=============================================================================
