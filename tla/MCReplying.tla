---------------------------- MODULE MCReplying -----------------------------
(* Two sources of one topic, for the price of their summary.               *)
EXTENDS Replying

MCRaw == {<<Unfound>>}
MCShelves == {<<<<1>>, <<3, 2>>>>}

=============================================================================
