----------------------------- MODULE MCReading -----------------------------
(* An instance of Reading for model checking.                              *)
EXTENDS Reading, TLC

CONSTANTS s1, s2

Symmetry == Permutations({s1, s2})

=============================================================================
