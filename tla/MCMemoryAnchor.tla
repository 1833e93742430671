---------------------------- MODULE MCMemoryAnchor ----------------------------
(* Instances of MemoryAnchor for TLC *)
EXTENDS MemoryAnchor, TLC

Symmetry == Permutations(Proc) \cup Permutations(Payload) \cup Permutations(Anchorer)
=============================================================================
