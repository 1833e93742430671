-------------------------------- MODULE Setup --------------------------------
(***************************************************************************)
(* manage.sh setup: the venv of the validators and of pre-commit, built    *)
(* step by step under `set -e`, and repaired by the next call.  A step may *)
(* fail for want of a network and a call may be killed anywhere; between   *)
(* the calls the venv may be damaged.  An operator calls setup again and   *)
(* again.  uv, the manifest and the language commands are left out.        *)
(***************************************************************************)
EXTENDS Naturals

CONSTANTS
    Strict,      \* SUBSTRATE_PROFILE is strict
    MaxTroubles  \* bound on the kills and on the damages

ASSUME SetupAssumption == Strict \in BOOLEAN /\ MaxTroubles \in Nat

Package == {"yaml", "pytest", "pre_commit"}
HookType == {"pre-commit", "commit-msg"}
Wanted == IF Strict THEN HookType ELSE {"pre-commit"}

VARIABLES
    py,        \* the venv's bin/python is executable
    pip,       \* it has pip
    have,      \* the packages it can import
    console,   \* the venv's bin/pre-commit is executable
    hooks,     \* the git hooks that are installed
    at,        \* the step of the call under way, or "off"
    exit,      \* how the last call ended
    calm,      \* since it began nothing has damaged the venv, and no command
               \* has failed that could have done its work
    troubles   \* how many kills and damages there were

envVars == <<py, pip, have, console>>
setupVars == <<envVars, hooks, at, exit, calm, troubles>>

Ready == py /\ have = Package /\ console /\ Wanted \subseteq hooks

-----------------------------------------------------------------------------
(* The steps.  At each one the call may go on (StepDone) or fail (StepFails). *)

StartSetup ==
    /\ at = "off"
    /\ at' = "venv" /\ exit' = "none" /\ calm' = TRUE
    /\ UNCHANGED <<envVars, hooks, troubles>>

Proceed(step) ==
    /\ at' = step
    /\ UNCHANGED <<exit, calm, troubles>>

(* [ -x "$SUBPY" ]: a venv whose python runs is taken as it is. *)
VenvDone ==
    /\ at = "venv"
    /\ IF py THEN Proceed("probe") /\ UNCHANGED <<envVars, hooks>>
             ELSE Proceed("upgrade_pip") /\ py' = TRUE /\ pip' = TRUE
                  /\ UNCHANGED <<have, console, hooks>>

\* Faulty variant: what can be imported is all that is looked at.
Probe_ImportOnly ==
    /\ at = "probe"
    /\ Proceed(IF have # Package THEN "install" ELSE "project")
    /\ UNCHANGED <<envVars, hooks>>

\* Faulty variant: the console script is all that is looked at.
Probe_ScriptOnly ==
    /\ at = "probe"
    /\ Proceed(IF ~console THEN "install" ELSE "project")
    /\ UNCHANGED <<envVars, hooks>>

(* need_repair *)
ProbeVenv ==
    /\ at = "probe"
    /\ Proceed(IF have # Package \/ ~console THEN "install" ELSE "project")
    /\ UNCHANGED <<envVars, hooks>>

(* pip install --upgrade: for a package that it knows, it writes the console *)
(* script only if there is a newer version.                                  *)
InstallDone ==
    /\ at = "install" /\ pip
    /\ have' = Package
    /\ console' \in IF console \/ "pre_commit" \notin have THEN {TRUE} ELSE BOOLEAN
    /\ at' = IF console' THEN "project" ELSE "force"
    /\ UNCHANGED <<py, pip, hooks, exit, calm, troubles>>

(* pip install --force-reinstall *)
ForceDone ==
    /\ at = "force" /\ pip
    /\ have' = have \cup {"pre_commit"} /\ console' = TRUE
    /\ Proceed("project")
    /\ UNCHANGED <<py, pip, hooks>>

(* pip upgrades itself; pip installs the project's tools, where uv does not *)
PipDone(step) ==
    /\ at = step /\ pip
    /\ Proceed(IF step = "project" THEN "hook" ELSE "probe")
    /\ UNCHANGED <<envVars, hooks>>

(* subtool pre-commit install: the venv's, or else whichever there is *)
HookDone(step) ==
    /\ at = step
    /\ hooks' = hooks \cup {IF step = "hook" THEN "pre-commit" ELSE "commit-msg"}
    /\ Proceed(IF step = "hook" /\ Strict THEN "msg_hook" ELSE "doctor")
    /\ UNCHANGED envVars

(* _operational_findings: the venv, its PyYAML and the console script *)
DoctorBlocks == ~py \/ "yaml" \notin have \/ ~console

Doctor ==
    /\ at = "doctor"
    /\ at' = "off"
    /\ exit' = IF DoctorBlocks THEN "failed" ELSE "ok"
    /\ UNCHANGED <<envVars, hooks, calm, troubles>>

StepDone ==
    \/ VenvDone \/ ProbeVenv \/ InstallDone \/ ForceDone
    \/ PipDone("upgrade_pip") \/ PipDone("project")
    \/ HookDone("hook") \/ HookDone("msg_hook")

(* A command fails and set -e ends the call, because it cannot do its work or *)
(* for a reason outside: no network, no space.  python3 -m venv may then have *)
(* made the python and not its pip; pip undoes what it has not finished.      *)
StepFails ==
    /\ at \in {"venv", "upgrade_pip", "install", "force", "project", "hook", "msg_hook"}
    /\ at = "venv" => ~py
    /\ py' \in IF at = "venv" THEN BOOLEAN ELSE {py}
    /\ at' = "off" /\ exit' = "failed"
    /\ calm' = (calm /\ at \in {"upgrade_pip", "install", "force", "project"} /\ ~pip)
    /\ UNCHANGED <<pip, have, console, hooks, troubles>>

-----------------------------------------------------------------------------
(* Troubles *)

Trouble == troubles < MaxTroubles /\ troubles' = troubles + 1

(* What a step under way may leave of the venv: pip writes the modules of a *)
(* package before its scripts, and takes the old version away first.        *)
Torn ==
    {e \in [py : BOOLEAN, pip : BOOLEAN, have : SUBSET Package, console : BOOLEAN] :
        \/ e = [py |-> py, pip |-> pip, have |-> have, console |-> console]
        \/ at = "venv" /\ ~py /\ e.have = have /\ e.console = console
        \/ at = "upgrade_pip" /\ e.py = py /\ ~e.pip /\ e.have = have /\ e.console = console
        \/ at = "install" /\ pip /\ e.py = py /\ e.pip
        \/ at = "force" /\ pip /\ e.py = py /\ e.pip
           /\ e.have \in {have, have \ {"pre_commit"}}}

Kill ==
    /\ at # "off" /\ Trouble
    /\ \E e \in Torn : /\ e.pip => e.py                       \* no pip without a python
                       /\ e.console => console \/ "pre_commit" \in e.have
                       /\ py' = e.py /\ pip' = e.pip /\ have' = e.have /\ console' = e.console
    /\ at' = "off" /\ exit' = "killed"
    /\ UNCHANGED <<hooks, calm>>

(* The venv is deleted, packages or the console script are taken from it, or  *)
(* the system's python has another version now: the venv's runs and finds    *)
(* none of its packages.                                                     *)
DamageVenv ==
    /\ py /\ Trouble
    /\ calm' = FALSE
    /\ \/ py' = FALSE /\ pip' = FALSE /\ have' = {} /\ console' = FALSE
       \/ \E h \in SUBSET have : have' = h /\ UNCHANGED <<py, pip, console>>
       \/ console' = FALSE /\ UNCHANGED <<py, pip, have>>
       \/ pip' = FALSE /\ have' = {} /\ UNCHANGED <<py, console>>
    /\ UNCHANGED <<hooks, at, exit>>

SetupInit ==
    /\ py = FALSE /\ pip = FALSE /\ have = {} /\ console = FALSE
    /\ hooks = {}
    /\ at = "off" /\ exit = "none" /\ calm = TRUE
    /\ troubles = 0

SetupNext == StartSetup \/ StepDone \/ Doctor \/ StepFails \/ Kill \/ DamageVenv

SetupSpec == SetupInit /\ [][SetupNext]_setupVars

-----------------------------------------------------------------------------
(* Properties *)

SetupTypeOK ==
    /\ py \in BOOLEAN /\ pip \in BOOLEAN /\ have \subseteq Package /\ console \in BOOLEAN
    /\ hooks \subseteq HookType
    /\ at \in {"off", "venv", "upgrade_pip", "probe", "install", "force", "project",
               "hook", "msg_hook", "doctor"}
    /\ exit \in {"none", "ok", "failed", "killed"}
    /\ calm \in BOOLEAN /\ troubles \in 0..MaxTroubles

(* A setup that reports success leaves everything that the gates need, though *)
(* its doctor looks at less: pytest and the hooks are the steps' own doing.   *)
SetupEndsReady == exit = "ok" /\ calm => Ready

(* One call repairs: whatever kills, failures and damages have left, the next *)
(* call in which nothing goes wrong from outside ends well; unless the venv    *)
(* has a python and no pip, which every later call takes for a venv and fails  *)
(* on (manage.sh:45-48 makes no such exception).                               *)
SetupRepairs == exit = "failed" /\ calm => py /\ ~pip

(* That exception is for good: while it has its python, nothing that setup does *)
(* gives the venv a pip again,                                                  *)
PipStaysAway == [][py /\ ~pip => ~pip']_setupVars

(* and no call that nothing disturbs ends well on it. *)
SuccessNeedsPip == exit = "ok" /\ calm => pip
=============================================================================
