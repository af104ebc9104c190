---------------------------- MODULE MCRateLimit ----------------------------
(* RateLimit for TLC: a limit of 1 in the shorter domain and of 2 in the longer. *)
EXTENDS RateLimit, TLC

Limits   == <<1, 2>>
Symmetry == Permutations(Threads)

=============================================================================
