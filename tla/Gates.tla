-------------------------------- MODULE Gates --------------------------------
(***************************************************************************)
(* The gates: manage.sh check, audit and full-audit, release_gate.sh, and  *)
(* pre-commit's hooks at a commit.  A gate loads .substrate/config and     *)
(* runs its steps one after the other, while the author goes on changing   *)
(* the tree, the config and the host.  What a check looks for is abstract: *)
(* the tree has faults, and every step sees some of them.                  *)
(***************************************************************************)
EXTENDS Naturals, Sequences

CONSTANTS
    Configs,   \* what .substrate/config may hold
    Absent,    \* there is no .substrate/config
    Pins,      \* what the .substrate/required_* files may ask for
    Faults,    \* the faults the tree may have
    MaxEdits   \* changes by the author

Commands == {"lint", "typecheck", "test"}   \* LINT_CMD, TYPECHECK_CMD, TEST_CMD
Script == {"check", "release", "commit", "audit", "full_audit"}

Config == [valid : BOOLEAN,     \* every line passes the shell's loader
           profile : {"starter", "standard", "strict"},
           lang : {"python", "node", "go", "none"},
           sandbox : {"0", "1", "unset"},
           remote : {"0", "1"},
           days : {"0", "00", "7"},        \* SUBSTRATE_DEP_COOLDOWN
           cmds : SUBSET Commands,         \* the ones with a value
           via : {"direct", "lang_gate"},  \* what they call
           danger : BOOLEAN]               \* one of them matches the command policy

Pin == [profile : {"none", "starter", "standard", "strict"},
        sandbox : BOOLEAN, remote : BOOLEAN, days : BOOLEAN]

ASSUME GatesAssumption ==
    /\ Configs \subseteq Config /\ Absent \notin Config
    /\ \A c \in Configs : c.danger => c.cmds # {}
    /\ Pins \subseteq Pin
    /\ MaxEdits \in Nat

VARIABLES
    config,    \* .substrate/config
    pins,      \* .substrate/required_*
    ambient,   \* SUBSTRATE_SANDBOX in the caller's environment
    backend,   \* what sandbox_detect.py finds: "ok", "missing" or "invalid" (sandbox.json)
    faults,    \* the tree's faults
    edits,
    script,    \* the gate that runs or ran last
    shell,     \* its shell's variables
    rest,      \* its steps still to run
    failed,    \* a step has failed and the gate goes on
    verdict,   \* "none" while it runs
    ran,       \* the project's commands it has run
    skips,     \* the language gates it has reported as skipped
    moved,     \* the config has changed since it began
    steady     \* the faults that have been there since it began

world == <<config, pins, ambient, backend, faults, edits>>
gate == <<script, shell, rest, failed, verdict, ran, skips, moved, steady>>
vars == <<world, gate>>

-----------------------------------------------------------------------------
(* _substrate_config.sh: the variables after load_substrate_config *)

\* Faulty variant: an unset flag has no default.
Shell_NoDefault(c) ==
    IF c = Absent
    THEN [profile |-> "standard", lang |-> "python", sandbox |-> ambient,
          remote |-> "0", days |-> "0", cmds |-> {}, via |-> "direct"]
    ELSE [f \in {"profile", "lang", "sandbox", "remote", "days", "cmds", "via"} |-> c[f]]

(* A key the config leaves out keeps the environment's value, and "0" without one. *)
Shell(c) ==
    IF c = Absent
    THEN [profile |-> "standard", lang |-> "python", sandbox |-> ambient,
          remote |-> "0", days |-> "0", cmds |-> {}, via |-> "direct"]
    ELSE [profile |-> c.profile, lang |-> c.lang,
          sandbox |-> IF c.sandbox = "unset" THEN ambient ELSE c.sandbox,
          remote |-> c.remote, days |-> c.days, cmds |-> c.cmds, via |-> c.via]

Loads(c) == c = Absent \/ c.valid

(* sandbox_detect.py: usable, not on this host, or sandbox.json is malformed *)
Backends == {"ok", "missing", "invalid"}

-----------------------------------------------------------------------------
(* Which steps a gate runs *)

If(b, s) == IF b THEN s ELSE <<>>

Scans == <<"drift", "syntax", "patterns", "policy", "harness_smoke", "hook_smoke">>

CommandSteps(sh) ==
    If("lint" \in sh.cmds, <<"lint">>) \o If("typecheck" \in sh.cmds, <<"typecheck">>)
    \o If("test" \in sh.cmds, <<"test">>)

\* Faulty variant: the config is validated once its commands have run.
CheckPlan_ValidateLate(sh) ==
    (IF sh.remote = "1" THEN <<"doctor_strict">>
                        ELSE If(sh.profile = "strict", <<"doctor_opsec">>))
    \o <<"shadowing", "manifest">> \o Scans \o <<"harness">>
    \o If(sh.days # "0", <<"cooldown">>) \o CommandSteps(sh) \o <<"config", "precommit">>

CheckPlan(sh) ==
    (IF sh.remote = "1" THEN <<"doctor_strict">>
                        ELSE If(sh.profile = "strict", <<"doctor_opsec">>))
    \o <<"shadowing", "manifest">> \o Scans \o <<"harness", "config">>
    \o If(sh.days # "0", <<"cooldown">>) \o CommandSteps(sh) \o <<"precommit">>

ReleasePlan(sh) ==
    <<"shadowing", "doctor", "manifest">> \o Scans
    \o <<"harness", "config", "secrets", "history", "memory">>
    \o (IF sh.lang = "python" THEN <<"pytest">> ELSE CommandSteps(sh))
    \o <<"precommit", "evals", "audit">>

QuickPlan == <<"doctor", "manifest", "drift", "harness", "secrets", "history">>

(* substrate_audit.py: a tool missing from the substrate venv is skipped. *)
FullPlan ==
    QuickPlan \o If({"no_venv", "no_pytest"} \cap faults = {}, <<"pytest">>)
    \o If({"no_venv", "no_precommit"} \cap faults = {}, <<"precommit">>)

(* bootstrap leaves the Python hooks to Python projects; the config says what the *)
(* project is, and is taken to say it of its hooks too.                           *)
PythonTree == config # Absent => config.lang = "python"

(* The hooks of .pre-commit-config.yaml, in its order; the ones with `files:` *)
(* run if the commit touches such files.                                      *)
CommitPlan(untouched) ==
    <<"shadowing", "manifest">> \o Scans \o <<"config", "harness", "secrets", "history">>
    \o If(PythonTree, If("ruff" \notin untouched, <<"ruff">>) \o <<"pytest">>)
    \o If("postmortem" \notin untouched, <<"postmortem">>)

Plan(s, sh) ==
    CASE s = "check" -> CheckPlan(sh)
      [] s = "release" -> ReleasePlan(sh)
      [] s = "audit" -> QuickPlan
      [] s = "full_audit" -> FullPlan

-----------------------------------------------------------------------------
(* What a step sees *)

Security == {"shadowing", "syntax", "patterns", "policy", "harness_smoke", "hook_smoke"}
RemoteOn == config # Absent /\ config.remote = "1"

Operational == {"no_venv", "no_precommit", "memory"}

\* Faulty variant: the doctor looks at CODEOWNERS and the trusted base in strict mode only.
Doctor_LocalOnly(mode) ==
    {"files"} \cup Security \cup Operational
    \cup (IF mode = "full" THEN {"manifest", "harness"} ELSE {})
    \cup (IF mode = "strict" THEN {"codeowners", "trusted_base"} ELSE {})

(* substrate_doctor.py: full without flags, else --strict or --operational --security *)
Doctor(mode) ==
    {"files"} \cup Security \cup Operational
    \cup (IF mode = "full" THEN {"manifest", "harness"} ELSE {})
    \cup (IF mode = "strict" \/ RemoteOn THEN {"codeowners"} ELSE {})
    \cup (IF RemoteOn \/ pins.remote THEN {"trusted_base"} ELSE {})

Texts == {"manifest", "drift", "harness", "secrets", "history"}

(* check_dep_cooldown.py: 0 days, however written, is off. *)
Cooldown == IF config # Absent /\ config.days = "7" THEN {"cooldown"} ELSE {}

Sees(step) ==
    CASE step \in {"doctor", "audit"} -> Doctor("full") \cup (IF step = "audit" THEN Texts ELSE {})
      [] step = "doctor_strict" -> Doctor("strict")
      [] step = "doctor_opsec" -> Doctor("opsec")
      [] step = "precommit" ->
           Security \cup Texts \cup {"postmortem", "no_venv"}
           \cup (IF PythonTree THEN {"ruff", "pytest"} ELSE {})
      [] step = "cooldown" -> Cooldown
      [] OTHER -> {step}

Rank(p) ==
    CASE p \in {"none", "starter"} -> 0 [] p = "standard" -> 1 [] p = "strict" -> 2

\* Faulty variant: the profile is not compared with its minimum.
LocksHold_AnyProfile(c) ==
    /\ pins.sandbox => c.sandbox = "1"
    /\ pins.remote => c.remote = "1"
    /\ pins.days => c.days # "0"

(* The four locks of check_substrate_config.py; a key without a value is "0". *)
LocksHold(c) ==
    /\ Rank(c.profile) >= Rank(pins.profile)
    /\ pins.sandbox => c.sandbox = "1"
    /\ pins.remote => c.remote = "1"
    /\ pins.days => c.days # "0"

(* Its verdict: without a config there is nothing to check. *)
ConfigOK ==
    config # Absent =>
        /\ config.valid
        /\ LocksHold(config)
        /\ backend # "invalid"
        /\ pins.sandbox => backend # "missing"
        /\ ~config.danger

-----------------------------------------------------------------------------
(* Steps that run the project's own commands *)

Runs(step) ==
    CASE step = "precommit" -> IF PythonTree THEN {"ruff", "pytest"} ELSE {}
      [] step \in Commands \cup {"ruff", "pytest"} -> {step}
      [] OTHER -> {}

(* run_python_gate.sh loads the config again; the audit knows no sandbox. *)
Sandboxed(step) ==
    CASE script = "full_audit" /\ step = "pytest" -> FALSE
      [] script = "commit" \/ step = "precommit" -> Shell(config).sandbox = "1"
      [] script \in {"check", "release"} -> shell.sandbox = "1"
      [] OTHER -> FALSE

PythonGate(step) == Runs(step) # {} /\ (script = "commit" \/ step = "precommit")

(* sandbox_exec.sh without a usable backend, the gate with a config that does not load *)
Refuses(step) ==
    \/ Runs(step) # {} /\ Sandboxed(step) /\ backend # "ok"
    \/ PythonGate(step) /\ ~Loads(config)

Did(step) ==
    IF Refuses(step) THEN {}
    ELSE [cmd : Runs(step), contained : {Sandboxed(step) /\ backend = "ok"}]

Fails(step) ==
    \/ Sees(step) \cap faults # {}
    \/ step \in {"config", "precommit"} /\ ~ConfigOK
    \/ step \in {"doctor", "doctor_strict", "doctor_opsec", "audit"} /\ config = Absent
    \/ script = "commit" /\ step \notin {"ruff", "pytest"} /\ "no_venv" \in faults
    \/ Refuses(step)

(* Without pre-commit or pytest in the venv the shells take whatever is on PATH. *)
Ambient(step) ==
    \/ step = "precommit" /\ "no_precommit" \in faults
    \/ step = "pytest" /\ {"no_venv", "no_pytest"} \cap faults # {}

Outcomes(step) ==
    IF Fails(step) THEN {FALSE} ELSE IF Ambient(step) THEN BOOLEAN ELSE {TRUE}

-----------------------------------------------------------------------------
(* lang_gate.sh: `opted in && command || skip` *)

CallsLangGate(step) == step \in Commands /\ shell.via = "lang_gate"
GateLang == IF config = Absent THEN "none" ELSE config.lang
OptedIn == GateLang \in {"node", "go"} /\ "unscripted" \notin faults
InnerSandbox == Shell(config).sandbox = "1"
InnerRuns == OptedIn /\ ~(InnerSandbox /\ backend # "ok")

\* go's lint is gofmt, which is no project command and whose answer counts
GoFmt(step) == GateLang = "go" /\ step = "lint"

-----------------------------------------------------------------------------
(* One run of a gate *)

Init ==
    /\ config \in Configs \cup {Absent} /\ pins \in Pins
    /\ ambient \in {"0", "1"} /\ backend \in Backends
    /\ faults \in {{}} \cup {{f} : f \in Faults} /\ edits = 0
    /\ script = "check" /\ shell = Shell(Absent)
    /\ rest = <<>> /\ failed = FALSE /\ verdict = "block"
    /\ ran = {} /\ skips = {} /\ moved = FALSE /\ steady = {}

Begin(s) ==
    /\ verdict # "none"
    /\ script' = s /\ failed' = FALSE /\ ran' = {} /\ skips' = {}
    /\ moved' = FALSE /\ steady' = faults
    /\ UNCHANGED world

(* load_substrate_config, or exit 2 *)
Start(s) ==
    /\ Begin(s)
    /\ IF Loads(config)
       THEN shell' = Shell(config) /\ rest' = Plan(s, Shell(config)) /\ verdict' = "none"
       ELSE rest' = <<>> /\ verdict' = "block" /\ UNCHANGED shell

(* git commit *)
StartCommit ==
    /\ Begin("commit")
    /\ \E untouched \in SUBSET {"ruff", "postmortem"} : rest' = CommitPlan(untouched)
    /\ verdict' = "none"
    /\ UNCHANGED shell

(* check and release_gate.sh run under `set -e`; the audit and pre-commit go on. *)
StopsAtFailure == script \in {"check", "release"}

After(ok) ==
    /\ failed' = (failed \/ ~ok)
    /\ IF ok \/ ~StopsAtFailure
       THEN rest' = Tail(rest) /\ UNCHANGED verdict
       ELSE rest' = <<>> /\ verdict' = "block"

Step ==
    /\ rest # <<>> /\ ~CallsLangGate(Head(rest))
    /\ ran' = ran \cup Did(Head(rest))
    /\ \E ok \in Outcomes(Head(rest)) : After(ok)
    /\ UNCHANGED <<world, script, shell, skips, moved, steady>>

(* The gate runs within sandbox_exec.sh if the caller has the sandbox on. *)
LangGate ==
    /\ rest # <<>> /\ CallsLangGate(Head(rest))
    /\ LET step == Head(rest)
           runs == InnerRuns /\ ~GoFmt(step)
       IN  IF (shell.sandbox = "1" /\ backend # "ok") \/ ~Loads(config)
           THEN After(FALSE) /\ UNCHANGED <<ran, skips>>
           ELSE /\ After(~(GoFmt(step) /\ step \in faults))
                /\ ran' = ran \cup
                     IF runs THEN {[cmd |-> step,
                                    contained |-> shell.sandbox = "1" \/ InnerSandbox]}
                             ELSE {}
                /\ skips' = skips \cup
                     IF GoFmt(step) \/ (runs /\ step \notin faults) THEN {}
                     ELSE {[cmd |-> step, opted |-> OptedIn]}
    /\ UNCHANGED <<world, script, shell, moved, steady>>

Finish ==
    /\ rest = <<>> /\ verdict = "none"
    /\ verdict' = IF failed THEN "block" ELSE "pass"
    /\ UNCHANGED <<world, script, shell, rest, failed, ran, skips, moved, steady>>

-----------------------------------------------------------------------------
(* The author *)

Edit ==
    /\ edits < MaxEdits /\ edits' = edits + 1
    /\ \/ config' \in (Configs \cup {Absent}) \ {config} /\ UNCHANGED <<faults, backend>>
       \/ \E f \in Faults : faults' = (faults \ {f}) \cup ({f} \ faults)
          /\ UNCHANGED <<config, backend>>
       \/ backend' \in Backends \ {backend} /\ UNCHANGED <<config, faults>>
    /\ moved' = (moved \/ config' # config) /\ steady' = steady \cap faults'
    /\ UNCHANGED <<pins, ambient, script, shell, rest, failed, verdict, ran, skips>>

Next ==
    \/ \E s \in Script \ {"commit"} : Start(s)
    \/ StartCommit
    \/ Step
    \/ LangGate
    \/ Finish
    \/ Edit

Spec == Init /\ [][Next]_vars

-----------------------------------------------------------------------------
(* Properties *)

Outcome == [cmd : Commands \cup {"ruff", "pytest"}, contained : BOOLEAN]

TypeOK ==
    /\ config \in Configs \cup {Absent} /\ pins \in Pins
    /\ ambient \in {"0", "1"} /\ backend \in Backends
    /\ faults \subseteq Faults /\ edits \in 0..MaxEdits
    /\ shell \in [profile : {"starter", "standard", "strict"},
                 lang : {"python", "node", "go", "none"}, sandbox : {"0", "1"},
                 remote : {"0", "1"}, days : {"0", "00", "7"},
                 cmds : SUBSET Commands, via : {"direct", "lang_gate"}]
    /\ script \in Script /\ failed \in BOOLEAN /\ moved \in BOOLEAN /\ steady \subseteq Faults
    /\ verdict \in {"none", "pass", "block"}
    /\ ran \subseteq Outcome
    /\ skips \subseteq [cmd : Commands, opted : BOOLEAN]

(* It has passed under a config that nobody has touched meanwhile. *)
Passed(scripts) == verdict = "pass" /\ ~moved /\ script \in scripts

(* A fault that is there from a gate's first step to its last keeps the gate     *)
(* from passing, whatever else the author changes meanwhile: a weakened policy   *)
(* and a bad harness any gate; a secret, drift or bad history any but the        *)
(* audits; with the remote tier on, missing owners or trusted base any but a     *)
(* commit; failing tests every gate that has run them, and of a Python project   *)
(* every check, release and commit; a failing command a check that calls it.     *)
PassMeansClean ==
    /\ Passed(Script) => steady \cap (Security \cup {"manifest", "harness"}) = {}
    /\ Passed({"check", "release", "commit"}) => steady \cap {"secrets", "drift", "history"} = {}
    /\ Passed(Script \ {"commit"}) /\ RemoteOn =>
           steady \cap {"files", "codeowners", "trusted_base", "memory", "no_venv"} = {}
    /\ Passed({"check", "release", "commit"}) /\ PythonTree => "pytest" \notin steady
    /\ Passed({"full_audit"}) /\ "pytest" \in steady => \A r \in ran : r.cmd # "pytest"
    /\ Passed({"check"}) /\ shell.via = "direct" => steady \cap shell.cmds = {}

(* A commit, a check or a release that passes runs at or above the pinned *)
(* minimum, if there is a config at all.                                  *)
PinnedFloor ==
    Passed({"check", "release", "commit"}) /\ config # Absent =>
        /\ Rank(Shell(config).profile) >= Rank(pins.profile)
        /\ pins.sandbox => Shell(config).sandbox = "1"
        /\ pins.remote => RemoteOn

(* Nothing of the project runs in a check or a release before its config was    *)
(* validated: where containment is pinned, every command has run within a       *)
(* sandbox, and none has run under a config with a command the policy refuses;  *)
(* where the config asks for it, a command runs within a sandbox or not at all, *)
(* although the sandbox may come and go.                                        *)
ValidatedBeforeRun ==
    script \in {"check", "release"} /\ ~moved /\ config # Absent =>
        /\ pins.sandbox \/ config.sandbox = "1" => \A r \in ran : r.contained
        /\ config.danger => ran = {}

(* check_substrate_config.py: "a repo may RAISE its profile but never silently *)
(* LOWER it".  A check that passes runs at the pinned profile or above.       *)
FloorHolds == Passed({"check"}) => Rank(shell.profile) >= Rank(pins.profile)

(* lang_gate.sh skips "so a fresh/empty repo never fails a gate it never opted *)
(* into": a gate that reports a skip belongs to a repository without it.       *)
SkipMeansNotOptedIn == \A s \in skips : ~s.opted

(* No gate blocks a repository that has nothing wrong: with its tools there, its *)
(* config in order and the sandbox usable, none of the steps of any gate fails.  *)
NoFalseAlarm ==
    edits = 0 /\ faults = {} /\ backend = "ok" /\ config # Absent /\ ConfigOK => ~failed
=============================================================================
