----------------------------- MODULE MCEvalRunner -----------------------------
(* Instances of EvalRunner for TLC *)
EXTENDS EvalRunner
=============================================================================
