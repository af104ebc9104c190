--------------------------- MODULE MCEsmeRegistry ---------------------------
(* EsmeRegistry for TLC. *)
EXTENDS EsmeRegistry, TLC

Symmetry == Permutations(Admins) \cup Permutations(Esmes) \cup Permutations(Names)
                \cup Permutations(ClusterNames) \cup Permutations(Nets)

=============================================================================
