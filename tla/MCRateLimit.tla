---------------------------- MODULE MCRateLimit ----------------------------
(* Bounded instances of RateLimit for TLC. *)
EXTENDS RateLimit, TLC

Symmetry == Permutations(Worker)
=============================================================================
