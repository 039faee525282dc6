----------------------------- MODULE MCAnswers -----------------------------
(* Model values and symmetry for model checking Answers.                   *)
EXTENDS Answers, TLC

CONSTANTS m1, m2, w1, w2, t1

Symmetry == Permutations({m1, m2}) \cup Permutations({w1, w2})

=============================================================================
