----------------------------- MODULE MCHistoryLog -----------------------------
(* Instances of HistoryLog for TLC *)
EXTENDS HistoryLog, TLC

Symmetry == Permutations(Proc)
=============================================================================
