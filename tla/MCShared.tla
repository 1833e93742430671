------------------------------ MODULE MCShared -------------------------------
(* What is kept under .substrate, in one run: the memory log, the cooldown's   *)
(* cache and the venv share no variable, so one is chosen and the others stay  *)
(* as they begin.                                                              *)
EXTENDS MemoryAnchor, DepCooldown, Setup, TLC

VARIABLE part

SharedVars == <<part, vars, cooldownVars, setupVars>>

SharedInit ==
    /\ part \in {"memory", "cooldown", "setup"}
    /\ AnchorInit /\ CooldownInit /\ SetupInit

SharedNext ==
    \/ part = "memory" /\ Next /\ UNCHANGED <<part, cooldownVars, setupVars>>
    \/ part = "cooldown" /\ CooldownNext /\ UNCHANGED <<part, vars, setupVars>>
    \/ part = "setup" /\ SetupNext /\ UNCHANGED <<part, vars, cooldownVars>>

SharedSpec == SharedInit /\ [][SharedNext]_SharedVars

Symmetry == Permutations(Proc) \cup Permutations(Payload)
            \cup Permutations(Versions) \cup Permutations(Checks)
=============================================================================
