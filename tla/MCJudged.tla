------------------------------- MODULE MCJudged ------------------------------
(* What the gates and the hooks judge, in one run: the parts share no variable, *)
(* so one of them is chosen and the others stay as they begin.                  *)
EXTENDS MCGates, MCCommits, MCLessons, MCRemote, HistoryLog

VARIABLE part

\* Where several initial states are possible, a part at rest has one of them.
AtRest ==
    /\ part # "gates" => config = Absent /\ pins = NoPin /\ ambient = "0" /\ backend = "ok"
                         /\ faults = {}
    /\ part # "commits" => ~inHead
    /\ part # "remote" => flag = "0" /\ ~template

JudgedInit ==
    /\ part \in {"gates", "commits", "pins", "remote", "history"}
    /\ Init /\ CommitInit /\ PinsInit /\ RemoteInit /\ HistoryInit
    /\ AtRest

JudgedVars == <<part, vars, commitVars, pinsVars, remoteVars, historyVars>>

JudgedNext ==
    \/ /\ part = "gates" /\ Next
       /\ UNCHANGED <<part, commitVars, pinsVars, remoteVars, historyVars>>
    \/ /\ part = "commits" /\ CommitNext
       /\ UNCHANGED <<part, vars, pinsVars, remoteVars, historyVars>>
    \/ /\ part = "pins" /\ PinsNext
       /\ UNCHANGED <<part, vars, commitVars, remoteVars, historyVars>>
    \/ /\ part = "remote" /\ RemoteNext
       /\ UNCHANGED <<part, vars, commitVars, pinsVars, historyVars>>
    \/ /\ part = "history" /\ HistoryNext
       /\ UNCHANGED <<part, vars, commitVars, pinsVars, remoteVars>>

JudgedSpec == JudgedInit /\ [][JudgedNext]_JudgedVars

(* The type invariant of the part that moves *)
JudgedTypeOK ==
    CASE part = "gates" -> TypeOK
      [] part = "commits" -> CommitTypeOK
      [] part = "pins" -> PinsTypeOK
      [] part = "remote" -> RemoteTypeOK
      [] part = "history" -> HistoryTypeOK

Symmetry == Permutations(Proc)
==============================================================================
