---------------------------- MODULE JudgedProofs ----------------------------
(***************************************************************************)
(* Proofs about what the gates and hooks judge: RemoteTier for every set   *)
(* of privileged files, every CODEOWNERS and any number of edits and calls *)
(* of enable, and the five parts of MCJudged side by side.                 *)
(***************************************************************************)
EXTENDS MCJudged, GatesProofs, CommitProofs, HistoryLogProofs

-----------------------------------------------------------------------------
(* RemoteTier *)

(* However enable fails or is killed, flag, pin and the files of the tier are *)
(* in one of the forms that its readers know.                                 *)
THEOREM RemoteTypeCorrect == RemoteSpec => []RemoteTypeOK
  <1>1. RemoteInit => RemoteTypeOK
    <2> SUFFICES ASSUME RemoteInit PROVE RemoteTypeOK
      OBVIOUS
    <2>1. moves \in 0..MaxMoves
      BY RemoteAssumption DEF RemoteInit, RemoteAssumption
    <2>2. owners \in [PlaceNames -> Rulings \cup {NoOwners}]
      BY DEF RemoteInit
    <2>3. workflow \in BOOLEAN /\ template \in BOOLEAN /\ suggested \in BOOLEAN
      BY DEF RemoteInit
    <2>4. flag \in {"0", "1", "absent"} /\ lock = "none" /\ switch = "off"
      BY DEF RemoteInit
    <2> QED BY <2>1, <2>2, <2>3, <2>4 DEF RemoteTypeOK
  <1>2. RemoteTypeOK /\ [RemoteNext]_remoteVars => RemoteTypeOK'
    <2> SUFFICES ASSUME RemoteTypeOK, [RemoteNext]_remoteVars PROVE RemoteTypeOK'
      OBVIOUS
    <2> USE DEF RemoteTypeOK
    <2>1. CASE Enable
      BY <2>1, RemoteAssumption DEF Enable, RemoteAssumption
    <2>2. CASE Awk
      BY <2>2 DEF Awk
    <2>3. CASE Move
      BY <2>3 DEF Move
    <2>4. CASE AppendFlag
      BY <2>4 DEF AppendFlag
    <2>5. CASE OpenLock \/ WriteLock \/ KillEnable
      BY <2>5 DEF OpenLock, WriteLock, KillEnable
    <2>6. CASE Install
      BY <2>6 DEF Install
    <2>7. CASE Revise
      <3>1. moves' \in 0..MaxMoves
        BY <2>7, RemoteAssumption DEF Revise, RemoteAssumption
      <3> QED BY <2>7, <3>1 DEF Revise
    <2>8. CASE UNCHANGED remoteVars
      BY <2>8 DEF remoteVars
    <2> QED BY <2>1, <2>2, <2>3, <2>4, <2>5, <2>6, <2>7, <2>8 DEF RemoteNext
  <1> QED BY <1>1, <1>2, PTL DEF RemoteSpec

(* Where rules name no directory without a slash, the owner that the doctor *)
(* finds for a file is one whom GitHub asks.                                *)
LEMMA OwnerIsAsked ==
    ASSUME NEW ruling, ~ruling.large, Slashed(ruling), NEW f \in Files,
           "real" \in OwnerFor(ruling.rules, f)
    PROVE  "real" \in Asked(ruling, f)
  <1> DEFINE hits == {i \in 1..Len(ruling.rules) : f \in ruling.rules[i].hits}
             covers == {i \in 1..Len(ruling.rules) :
                           f \in ruling.rules[i].hits \cup ruling.rules[i].below}
  <1>1. covers = hits
    BY DEF Slashed
  <1>2. hits # {}
    BY DEF OwnerFor
  <1>3. "real" \in ruling.rules[CHOOSE i \in hits : \A j \in hits : j <= i].owners
    BY <1>2 DEF OwnerFor
  <1>4. "real" \in ruling.rules[CHOOSE i \in covers : \A j \in covers : j <= i].owners
    BY <1>1, <1>3
  <1> QED BY <1>1, <1>2, <1>4 DEF Asked

(* While the pin of manage.sh is 1, a check that passes has found the flag,   *)
(* the workflow and for every privileged file an owner whom GitHub will ask,  *)
(* in whatever order CODEOWNERS, config and the workflow were edited, enabled *)
(* or left half-way.                                                          *)
THEOREM GovernedIsOwned == RemoteSpec => []GovernedMeansOwned
  <1>1. GovernedMeansOwned
    <2> SUFFICES ASSUME lock = "1", CheckPasses
                 PROVE  /\ flag = "1" /\ workflow
                        /\ Active # NoOwners /\ Slashed(Active)
                              => \A f \in Files : Asked(Active, f) # {}
      BY DEF GovernedMeansOwned
    <2>1. flag = "1" /\ workflow /\ ~OwnersBlock
      BY DEF CheckPasses, WorkflowBlocks
    <2>2. ASSUME Active # NoOwners, Slashed(Active), NEW f \in Files
          PROVE  Asked(Active, f) # {}
      <3>1. ~Active.large /\ Gaps(Active) = {}
        BY <2>1, <2>2 DEF OwnersBlock
      <3>2. "real" \in OwnerFor(Active.rules, f)
        BY <3>1 DEF Gaps
      <3> QED BY <2>2, <3>1, <3>2, OwnerIsAsked
    <2> QED BY <2>1, <2>2
  <1> QED BY <1>1, PTL

-----------------------------------------------------------------------------
(* The parts side by side *)

(* In the run over what gates and hooks judge every part does what it does *)
(* alone: what is proved of a part holds there too.                        *)
THEOREM JudgedParts ==
    JudgedSpec => Spec /\ CommitSpec /\ PinsSpec /\ RemoteSpec /\ HistorySpec
  <1>1. JudgedInit => Init /\ CommitInit /\ PinsInit /\ RemoteInit /\ HistoryInit
    BY DEF JudgedInit
  <1>2. [JudgedNext]_JudgedVars
           => /\ [Next]_vars /\ [CommitNext]_commitVars /\ [PinsNext]_pinsVars
              /\ [RemoteNext]_remoteVars /\ [HistoryNext]_historyVars
    BY DEF JudgedNext, JudgedVars
  <1> QED BY <1>1, <1>2, PTL
          DEF JudgedSpec, Spec, CommitSpec, PinsSpec, RemoteSpec, HistorySpec

(* Every variable of every part keeps its type, whichever part moves. *)
THEOREM JudgedTypeCorrect ==
    JudgedSpec => [](JudgedTypeOK /\ TypeOK /\ CommitTypeOK /\ PinsTypeOK
                     /\ RemoteTypeOK /\ HistoryTypeOK)
  <1> DEFINE Part == part \in {"gates", "commits", "pins", "remote", "history"}
  <1>1. JudgedSpec => []Part
    <2>1. JudgedInit => Part
      BY DEF JudgedInit
    <2>2. Part /\ [JudgedNext]_JudgedVars => Part'
      BY DEF JudgedNext, JudgedVars
    <2> QED BY <2>1, <2>2, PTL DEF JudgedSpec
  <1>2. Part /\ TypeOK /\ CommitTypeOK /\ PinsTypeOK /\ RemoteTypeOK /\ HistoryTypeOK
           => JudgedTypeOK
    BY DEF JudgedTypeOK
  <1> HIDE DEF Part
  <1> QED BY <1>1, <1>2, JudgedParts, GatesTypeCorrect, CommitTypeCorrect, PinsTypeCorrect,
             RemoteTypeCorrect, HistoryTypeCorrect, PTL
=============================================================================
