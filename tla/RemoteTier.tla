----------------------------- MODULE RemoteTier ------------------------------
(***************************************************************************)
(* The remote-governance tier: manage.sh enable remote --write turns it on *)
(* step by step, and may fail or be killed between them, while the author  *)
(* goes on editing; manage.sh check asks substrate_doctor.py --strict for  *)
(* its workflow and for the owners in CODEOWNERS, and                      *)
(* check_substrate_config.py for the flag that the pin demands.            *)
(***************************************************************************)
EXTENDS Naturals, Sequences

CONSTANTS
    Files,      \* the privileged files, the active CODEOWNERS among them
    Rulings,    \* the texts that a CODEOWNERS file may have
    NoOwners,   \* there is no such file
    MaxMoves    \* bound on the author's edits and the calls of enable

Owner == {"real", "placeholder", "invalid"}

(* A line of CODEOWNERS: the files that its pattern matches, those that GitHub *)
(* takes it to cover besides, being below a directory which it names without a *)
(* slash at the end, and its owners.                                           *)
Rule == [hits : SUBSET Files, below : SUBSET Files, owners : SUBSET Owner]
Ruling == [large : BOOLEAN, rules : Seq(Rule)]   \* large: over CODEOWNERS_MAX_BYTES

Places == <<".github/CODEOWNERS", "CODEOWNERS", "docs/CODEOWNERS">>
PlaceNames == {Places[i] : i \in 1..Len(Places)}

ASSUME RemoteAssumption ==
    /\ Rulings \subseteq Ruling /\ NoOwners \notin Ruling
    /\ MaxMoves \in Nat

VARIABLES
    flag,        \* SUBSTRATE_REMOTE_GOVERNANCE in .substrate/config, or "absent"
    lock,        \* .substrate/required_remote_governance: "1", or "none" for all else
    workflow,    \* trusted-base-audit.yml is there
    template,    \* so is a template of it
    suggested,   \* .github/CODEOWNERS.suggested is there
    owners,      \* what each place holds
    switch,      \* where enable --write stands; "off" when it does not run
    moves

remoteVars == <<flag, lock, workflow, template, suggested, owners, switch, moves>>

-----------------------------------------------------------------------------
(* CODEOWNERS, as substrate_doctor.py reads it *)

(* _codeowners_path *)
Active ==
    LET found == {i \in 1..Len(Places) : owners[Places[i]] # NoOwners} IN
    IF found = {} THEN NoOwners
    ELSE owners[Places[CHOOSE i \in found : \A j \in found : i <= j]]

\* Faulty variant: the first rule that matches wins.
OwnerFor_FirstMatch(rules, f) ==
    LET hits == {i \in 1..Len(rules) : f \in rules[i].hits} IN
    IF hits = {} THEN {} ELSE rules[CHOOSE i \in hits : \A j \in hits : i <= j].owners

(* _codeowners_owner_for: the last one that matches wins. *)
OwnerFor(rules, f) ==
    LET hits == {i \in 1..Len(rules) : f \in rules[i].hits} IN
    IF hits = {} THEN {} ELSE rules[CHOOSE i \in hits : \A j \in hits : j <= i].owners

(* _codeowners_coverage_gaps *)
Gaps(ruling) == {f \in Files : "real" \notin OwnerFor(ruling.rules, f)}

(* _codeowners_placeholder_owners *)
HasPlaceholders(ruling) ==
    \E i \in 1..Len(ruling.rules) : "placeholder" \in ruling.rules[i].owners

(* What main() of the doctor has against CODEOWNERS when the tier is on *)
OwnersBlock ==
    IF Active = NoOwners THEN suggested
    ELSE HasPlaceholders(Active) \/ Active.large \/ Gaps(Active) # {}

(* And against a tier without its authority *)
WorkflowBlocks == (flag = "1" \/ lock = "1") /\ ~workflow

(* manage.sh check, over the tree as it is, has nothing against the tier. *)
CheckPasses ==
    /\ flag = "1" => ~WorkflowBlocks /\ ~OwnersBlock   \* doctor --strict
    /\ lock = "1" => flag = "1"                        \* check_substrate_config.py

-----------------------------------------------------------------------------
(* enable remote --write *)

Enable ==
    /\ switch = "off" /\ moves < MaxMoves
    /\ switch' = IF flag = "absent" THEN "append" ELSE "awk"
    /\ moves' = moves + 1
    /\ UNCHANGED <<flag, lock, workflow, template, suggested, owners>>

(* When awk fails, mv does not run, and the script goes on. *)
Awk ==
    /\ switch = "awk"
    /\ switch' \in {"mv", "lock"}
    /\ UNCHANGED <<flag, lock, workflow, template, suggested, owners, moves>>

(* A mv that fails ends the script.  From another file system it copies, *)
(* and a kill then leaves a part of the config.                          *)
Move ==
    /\ switch = "mv"
    /\ \/ flag' = "1" /\ switch' = "lock"
       \/ flag' \in {flag, "absent"} /\ switch' = "off"
    /\ UNCHANGED <<lock, workflow, template, suggested, owners, moves>>

(* printf >>: behind a last line that has no newline the flag is lost. *)
AppendFlag ==
    /\ switch = "append"
    /\ \/ flag' \in {"1", "absent"} /\ switch' = "lock"
       \/ UNCHANGED flag /\ switch' = "off"
    /\ UNCHANGED <<lock, workflow, template, suggested, owners, moves>>

(* echo > empties the pin first. *)
OpenLock ==
    /\ switch = "lock"
    /\ lock' = "none"
    /\ switch' = "pin"
    /\ UNCHANGED <<flag, workflow, template, suggested, owners, moves>>

WriteLock ==
    /\ switch = "pin"
    /\ lock' = "1"
    /\ switch' = "workflow"
    /\ UNCHANGED <<flag, workflow, template, suggested, owners, moves>>

(* The workflow is copied from its template; without one there is a warning. *)
Install ==
    /\ switch = "workflow"
    /\ workflow' = (workflow \/ template)
    /\ switch' = "off"
    /\ UNCHANGED <<flag, lock, template, suggested, owners, moves>>

KillEnable ==
    /\ switch # "off"
    /\ switch' = "off"
    /\ UNCHANGED <<flag, lock, workflow, template, suggested, owners, moves>>

(* The author *)
Revise ==
    /\ moves < MaxMoves
    /\ moves' = moves + 1
    /\ \/ /\ flag' \in {"0", "1", "absent"}
          /\ UNCHANGED <<lock, workflow, template, suggested, owners>>
       \/ /\ workflow' = ~workflow
          /\ UNCHANGED <<flag, lock, template, suggested, owners>>
       \/ /\ suggested' = ~suggested
          /\ UNCHANGED <<flag, lock, workflow, template, owners>>
       \/ /\ \E p \in PlaceNames, r \in Rulings \cup {NoOwners} : owners' = [owners EXCEPT ![p] = r]
          /\ UNCHANGED <<flag, lock, workflow, template, suggested>>
    /\ UNCHANGED switch

(* What bootstrap leaves: the flag is written out or left to its default *)
RemoteInit ==
    /\ flag \in {"0", "absent"} /\ lock = "none"
    /\ workflow = FALSE /\ template \in BOOLEAN
    /\ suggested = TRUE
    /\ owners = [p \in PlaceNames |-> NoOwners]
    /\ switch = "off" /\ moves = 0

RemoteNext ==
    \/ Enable \/ Awk \/ Move \/ AppendFlag \/ OpenLock \/ WriteLock \/ Install
    \/ KillEnable \/ Revise

RemoteSpec == RemoteInit /\ [][RemoteNext]_remoteVars

-----------------------------------------------------------------------------
(* Properties *)

RemoteTypeOK ==
    /\ flag \in {"0", "1", "absent"} /\ lock \in {"none", "1"}
    /\ workflow \in BOOLEAN /\ template \in BOOLEAN /\ suggested \in BOOLEAN
    /\ owners \in [PlaceNames -> Rulings \cup {NoOwners}]
    /\ switch \in {"off", "awk", "mv", "append", "lock", "pin", "workflow"}
    /\ moves \in 0..MaxMoves

(* Whom GitHub asks about a file: it does not load a large CODEOWNERS, the last *)
(* rule that covers the file decides, and it ignores a name that is no one's.   *)
Asked(ruling, f) ==
    LET covers == {i \in 1..Len(ruling.rules) :
                      f \in ruling.rules[i].hits \cup ruling.rules[i].below}
    IN  IF ruling.large \/ covers = {} THEN {}
        ELSE ruling.rules[CHOOSE i \in covers : \A j \in covers : j <= i].owners \cap {"real"}

(* Its rules name no directory without a slash: GitHub has such a rule cover *)
(* what is in the directory, where the doctor takes the earlier rule.        *)
Slashed(ruling) == \A i \in 1..Len(ruling.rules) : ruling.rules[i].below = {}

(* However far enable came, whatever failed in it and whatever was edited     *)
(* since: while the pin is 1, a check passes only with the tier on, its       *)
(* workflow in place and, if there is a CODEOWNERS, an owner whom GitHub will *)
(* ask for every privileged file.                                             *)
GovernedMeansOwned ==
    lock = "1" /\ CheckPasses =>
        /\ flag = "1" /\ workflow
        /\ Active # NoOwners /\ Slashed(Active) => \A f \in Files : Asked(Active, f) # {}
=============================================================================
