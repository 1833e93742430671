--------------------------- MODULE MCSessionHandoff ---------------------------
(* Instances of SessionHandoff for TLC *)
EXTENDS SessionHandoff, TLC

Symmetry == Permutations(Session)
=============================================================================
