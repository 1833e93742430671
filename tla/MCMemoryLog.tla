----------------------------- MODULE MCMemoryLog -----------------------------
(* Instances of MemoryLog for TLC *)
EXTENDS MemoryLog, TLC

Symmetry == Permutations(Proc) \cup Permutations(Payload)
=============================================================================
