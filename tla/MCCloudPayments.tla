-------------------------- MODULE MCCloudPayments --------------------------
(* Products and symmetry for model checking CloudPayments.                 *)
EXTENDS CloudPayments, TLC

CONSTANTS b1, b2, h1, h2

Symmetry == Permutations({b1, b2}) \cup Permutations({h1, h2})

Product(type, listed) ==
    [type |-> type, listed |-> listed, credits |-> 1, period |-> 1]

MCProducts == {Product("subscription", TRUE), Product("one_time", TRUE),
               Product("one_time", FALSE), Product("other", TRUE)}

=============================================================================
