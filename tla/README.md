# A verification of the Brand-Builder substrate

The repository is an *engineering substrate*: scripts that a project carries so
that humans and coding agents work under the same gates.  Its state is small
(files under `.substrate/`, `docs/` and git), but it is written by hooks that
run concurrently, get killed, and must never block the session they serve.
This directory models that state, checks the models with TLC, and proves the
safety properties with TLAPS, for every size of the instances.

## 1. Inventory

| Part | State it keeps | Operations | What is hard about it |
|---|---|---|---|
| Memory log (`memory_log.py`) | `.substrate/memory/events.jsonl`, a hash chain; `.lock`; git notes | `append`, `verify`, `anchor`, `verify --anchor`, `tail`, `tasks` | hooks append at once; flock may be missing; writes are cut short; the anchor is taken without the lock; the file is damaged from outside |
| History log (`append_history.py`, `check_history_sha.py`) | `docs/HISTORY.md` | append an entry (read, replace), check its SHAs | two appends at once; HEAD moves between guard and entry; git does not answer; rebases |
| Session handoff (`session_handoff.py`, `todo_state_hook.py`) | `docs/.todo_state.json`, `tasks/current.json`, `docs/CURRENT_SESSION.md` | todo hook, `capture`, `restore` | captures overlap; files are emptied and filled in place; hooks are killed; git is asked several times |
| Behavior evals (`run_substrate_evals.py`) | `.substrate/traces/` | in-process tasks, a pool of subprocess tasks, report | hangs, timeouts, grandchildren holding pipes, skips that must not count, a killed suite |
| Gates (`manage.sh check`, `release_gate.sh`, `substrate_audit.py`, `lang_gate.sh`, `run_python_gate.sh`) | `ai/audits/` | run a list of checks, stop or continue, report | a masked exit status, a skipped tool, an absent file |
| Setup and remote tier (`manage.sh setup`, `enable remote`) | `.substrate/venv`, git hooks, `.substrate/config`, the pin, `CODEOWNERS` | setup, enable, check | failures and kills between steps; a half-built venv; a tier that is half on |
| Config (`_substrate_config.sh`, `check_substrate_config.py`) | `.substrate/config`, `required_*` | load, validate | two parsers of one file |
| Dependency cooldown (`check_dep_cooldown.py`) | a cache of publish times | check | runs overlap on a cache that is written in place; lookups that fail, answers without a zone, the boundary age |
| Trusted base (`.github/workflows`, `check_github_governance.py`, `setup_branch_protection.sh`, `remote_detect.py`) | GitHub | audit a PR with the base's scripts | whose script and whose minimum counts |
| Doctor (`substrate_doctor.py`, `sandbox_detect.py`) | none | readiness levels | a level must imply the ones below |
| Manifest and doc drift (`update_manifest.py`, `check_doc_drift.py`) | `docs/manifest.json` | fix, check | fix must be a fixed point of check |
| Commit-message hooks (`check_finding_response.py`, `check_postmortem_for_bug_fix.py`) | git's index and HEAD | verdict on a message, the index and the staged files | git makes the tree before the hooks run; amendments are asked about what they add; git fails under a hook; names in a file |
| Ratchets over tests and postmortems (`check_validator_input_coverage.py`, `check_postmortem_gates_resolved.py`) | the working tree and HEAD | verdict on the files of a commit | what was judged once changes later; untracked files count |
| Command guard, host adapters, sandbox | none | verdict on a command | fail-open and fail-closed paths |
| Numeric ratchets, integrity scans, smoke checks, reports | committed baselines | compare | pure |

How the parts meet: the gates call the checkers as processes and look at exit
codes; `capture` calls `memory_log.append` in process; `release_gate.sh` runs
`memory_log.py verify` and looks at `events.jsonl` and `git notes` to choose
how; the evals call `session_handoff` in process and everything else as
processes; the hooks of one host, several hosts and the user share the files
without any other coordination than `.lock`.

`PROJECT.json` lists every part with its status, and the hazards at their lines.

## 2. Plan

The plan followed the importance of what a part protects; all of it is done:

1. `AppendOnlyLog`, `MemoryLog`, `MemoryAnchor`: the durable memory, concurrent,
   crashing, damaged and anchored, and what it promises.
2. `HistoryLog`: the changelog and its checker.
3. `SessionHandoff`: todo hook, captures, restore.
4. `EvalRunner`: the eval suite's processes and verdict.
5. `Gates`: check, release gate, audits and commit hooks, step by step.
6. `CommitMessage`: the commit-msg hooks at a repository's commits;
   `RegressionPins`: what is judged once and erodes later.
7. `RemoteTier`: switching the remote tier on, and what the doctor asks of it.
8. `DepCooldown`: overlapping runs over one cache.
9. `Setup`: the venv, interrupted and repaired.

`MCJudged` puts 2, 5, 6 and 7 into one run and `MCShared` the memory's anchors,
8 and 9.  The abstract specification is `AppendOnlyLog`; the other parts promise
what their properties say.  Of the first plan two parts were dropped.  The
trusted base's workflow file is not in the repository.  The config's grammar,
the manifest and the doc drift are functions of one text or one tree, with
neither steps nor overlap.

## 3. The modules and the code

### AppendOnlyLog
The promise to a reader who runs `verify`: a sequence that only grows, with
`final` entries that are never taken back and a light (`broken`) that stays on.
A torn write may add one entry that is not final.  `MemoryLog` implements it, and
so does `HistoryLog` for an agent that works alone.

### MemoryLog (`scripts/memory_log.py:51-142,192-222`)
`lines` and `open` are the file (is the last line without a newline?), `holder`
is the flock, `pc` and `entry` are the callers inside `append`.  Actions:
`Start`, `AcquireFlock` or `SkipFlock` (no fcntl, or flock raised and
`suppress` went on), `Read` (read all lines, build the event), `Write`,
`Return`, `Fail` (an exception or a kill at any point; closing `.lock` frees
the flock), `Tear` (the write is cut inside the JSON text or before its
newline).  A hash is the sequence of what it digests, which is SHA-256 without
collisions.  `AddText` is what appending to a file does: behind a line without
a newline the new text is glued to it and neither is JSON any more.
`LineOK`/`ChainOK` are `verify`.

### MemoryAnchor (`memory_log.py:145-222`, `release_gate.sh:40-49`)
Extends `MemoryLog` with commits, notes, and `anchor` in its three unlocked
steps (`AnchorRead`, `AnchorRevParse`, `AnchorNote`) and their failure.
`Damage` changes the file as something else than `memory_log.py` would; the
kinds are data, and `damages` remembers which were done.  `AnchorVerifies` is
`verify --anchor`, `GatePasses` the strict gate's memory step.

### HistoryLog (`append_history.py:43-220`, `check_history_sha.py:92-253`, `_doc_common.py:255-275`)
Each caller goes through the guard (`Guard`, or `GuardBlind` when git status
fails), `ResolveSha`, `ReadHistory`, `Replace` (temporary file, `os.replace`).
The author edits, commits (perhaps with a wrong date) and rewrites HEAD.
`ShaCheckPasses` is the checker's exit 0.

### SessionHandoff (`session_handoff.py:97-388`, `todo_state_hook.py:41-73`)
`TodoOpen`/`TodoWrite` and `OpenState`/`WriteState` are the two halves of
`write_text`, because a kill or a reader comes between them.  A capture reads
the todo list, then git's HEAD, then its status, writes `current.json` and logs
an event.  A file that is not JSON is `Cut`, a git that does not answer is
`NoGit` (the code stores an empty text).  `Restored` is what `restore` injects.
The world's state when a capture began (`seen`), whether it moved since
(`quiet`) and the order of captures (`before`) are history variables.

### EvalRunner (`run_substrate_evals.py:63-80,136-207,284-302,396-437,667-790`)
`family` holds the live processes that hold a task's pipes, `answer` what its
last process said, `rec` the record.  `InprocStart` writes the partial trace
and arms the alarm; `AlarmSwallowed` is the alarm raised within
`session_handoff._git`, whose `except Exception` catches it.  `Timeout` is
`_run`'s `killpg`; `PlainTimeout` is `subprocess.run`'s, which kills the child
alone.  `Killed` may come between the two halves of a write of the trace.

### Gates (`manage.sh:134-160`, `release_gate.sh`, `substrate_audit.py`, `.pre-commit-config.yaml`, `lang_gate.sh`, `run_python_gate.sh`)
A gate is a sequence of steps (`CheckPlan`, `ReleasePlan`, ...), chosen when it
starts from what its shell has loaded (`shell`, `Shell`).  `rest` is what is
still to run.  `Step` runs one: `check` and `release_gate.sh` stop at the first
failure (`set -e`), the audit and pre-commit go on and remember it (`failed`).
What a check looks for is a fault of the tree; `Sees` says which steps fail for
which faults, `Doctor` in which mode the doctor does.  `LocksHold` and
`ConfigOK` are `check_substrate_config.py`'s verdict, read from the disk when
the step runs.  `LangGate` is a configured command that calls `lang_gate.sh`.
`ran` remembers which of the project's own commands have run and whether within
the sandbox, `skips` which language gates have reported a skip.  `Edit` is the
author, who may change the config, the tree or the host between any two steps.
`moved` and `steady` remember whether the config has changed since the gate
began and which faults have been there throughout.  The pinned minima do not
change: they belong to the code owners.

### CommitMessage (`check_finding_response.py`, `check_postmortem_for_bug_fix.py`)
`staged`, `tracked`, `inHead` and `disk` are the index, HEAD and the postmortem
in the tree.  `BeginCommit` is git making the tree and the author writing the
message (`verbose`: the diff of `commit -v` is then part of what the hooks read,
`FileText`); `FindingHook` and `PostmortemHook` are the two `main()`s, in turn,
on the *index*; `Land` makes the commit.  `IndexMoves` is a `git add` in between.
A message is the record of what the hooks tell apart in it, a file the record of
its imports and calls.  `TreeUses` and `TextUses` are `_detect_python_uses`
with and without a syntax tree; `Uses` is what the calls are about by Python's
scopes, and `OneMeaning` the docstring's own exception.  `pending.routes` and
`head.routes` remember how a commit may have got around the hooks: git that
failed (`blind`), the diff (`verbose`), an index that moved (`moved`).  `Hooks`
is the set of hooks that the config runs.

### RegressionPins (`check_validator_input_coverage.py`, `check_postmortem_gates_resolved.py`)
`work` and `kept` are the tree and HEAD; `Record` is a commit with the two
checks on what pre-commit leaves on disk (`OnDisk`: unstaged changes are put
away, untracked files stay).  `PairedSuite` finds a validator's tests by the
longest prefix of its name, `Fixtures` and `FieldShapes` are what its fixtures
show, `Resolves` is `_resolve_gate`.  `since` is history: what was different,
or has changed, since a file was judged.

### RemoteTier (`manage.sh:92-120`, `substrate_doctor.py:62-225,500-540`, `check_substrate_config.py:127-140`)
`Enable`, `Awk`, `Move`, `AppendFlag`, `OpenLock`, `WriteLock` and `Install` are
the statements of `enable remote --write`.  Each may be killed; only awk's
failure goes on, as an `if`'s condition escapes `set -e`.  `Revise` is the
author.  `OwnerFor`, `Gaps` and `OwnersBlock` are the doctor's reading of
`CODEOWNERS`, `Asked` is GitHub's, and `CheckPasses` is the part of
`manage.sh check` that is about the tier.

### DepCooldown (`check_dep_cooldown.py:63-284`)
A run reads the cache, looks versions up one at a time (`LookUp`, answers of
four kinds), weighs them (`Weigh`, `Young`), empties the cache, fills it
(`OpenCache`, `FillCache`) and exits (`Exit`); it may be killed anywhere.  Two
writes that mix leave `CutShort`.  `Pass`, `Publish` and `Depend` are the clock,
a registry and the author.

### Setup (`manage.sh:40-70`)
One action per command under `set -e`, each of which may fail (`StepFails`) and,
where pip works, leave half of its work (`Torn`).  `Doctor` is
`substrate_doctor.py --operational`, the last step.  `DamageVenv` is what
happens between calls.  `calm` says that since the call began nothing from
outside has gone wrong.

### MC modules
`MCMemoryLog`, `MCMemoryAnchor`, `MCHistoryLog`, `MCSessionHandoff` and
`MCEvalRunner` add symmetry sets only; `MCGates`, `MCCommits`, `MCLessons` and
`MCRemote` define the data of an instance.  `MCShared` and `MCJudged` check
parts that share no variable in one run: `part` chooses one of them in the
initial state, and the others stay as they begin.  The product of their states
would show nothing more.  The instances are in the `.cfg` files.

Definitions named `X_Something` in a module are faulty variants of `X`: plausible
slips that the properties are known to catch (`PROJECT.json`, "mutants").

## 4. The runs

| Run | Instance | Shows |
|---|---|---|
| `memory_locked` | 3 processes, flock, 2 payloads, 3 lines, 1 torn write | nothing acknowledged is lost behind a passing `verify`; the chain holds up to the first cut line; a break is permanent; acknowledged lines never move; the file refines `AppendOnlyLog`; every append ends |
| `memory_no_flock` | the same without a lock, 2 lines | the chain may break, but it shows, and the refinement still holds |
| `handoff` | 2 sessions, 2 captures, 2 todo lists, 1 commit | a handoff of a quiet world is exact; no part is older than its capture; event and handoff agree; an ended capture never comes back |
| `evals` | 2 in-process tasks, 3 pool tasks, 2 workers, sandbox required | the suite ends; `_run` leaves no process; a pass is measured; a killed run's trace names what ran |
| `substrate_state` | one of: *memory* (1 appender, 1 anchorer, 2 payloads, 2 lines, 2 commits, 1 torn write, 1 damage of 7 kinds, flock); *cooldown* (2 runs at once, 2 versions, 2 days' cooldown, days 0 to 2); *setup* (strict profile, 3 kills or damages) | a verified anchor of a sound log vouches for its events, so does a strict gate while the file is there, and one damage inside the log never hides behind a plain `verify`; an anchor that goes on verifying is about an unchanged file; a run that passes has found its dependencies old enough, and no run contradicts an earlier one; a setup that succeeds leaves what the gates need, and one undisturbed call repairs all but a venv without pip |
| `judged` | one of: *gates* (7 configs and none, 3 sets of minima, 7 faults, 1 change by the author); *commits* (both hooks, 4 files, 9 messages, 1 landing, which may amend what was there before); *pins* (1 validator, 2 test files, 2 files dirty at a time); *remote* (2 privileged files, 6 rulings and none in 3 places, 4 moves); *history* (2 agents, 2 calls, 2 commits, 1 rewrite) | a fault that stays from a gate's first step to its last keeps it from passing; a pass keeps the pinned minima; nothing of the project runs before the config is validated, nor outside a required sandbox; a fix lands with its four fields, its checklists and its postmortem; what was judged erodes only by later changes to tests; a pass under the pin means the tier is on and every privileged file has an owner; an entry is lost only to an overlapping call, never names the parent commit, and only git's later doings make the SHA checker fail |
| `anchor_of_torn_log` | finding | an anchor of a torn log is `ZERO`, which an emptied log matches |
| `history_race` | finding | two overlapping appends keep one entry |
| `eval_timeout` | finding | a timed-out sandbox command is recorded as contained |
| `missing_config` | finding | without a config the check of a strict repository passes as standard |
| `lang_gate_masks` | finding | a failing test of a node or go project is reported as a skip |
| `unwired_hooks` | finding | under the hooks that the config has, a fix lands without the four fields |

**Bounds.**  Every bound is a CONSTANT whose name begins with `Max`.  Three
processes are the least for a waiter to be passed over (`AppendsEnd`) and for a
third writer to come upon two that raced.  Three lines cover the empty log, a
log with a predecessor, and an event behind a broken one.  One torn write is
enough to glue lines, since a second glue leaves the line as it is (not JSON).
One damage of each kind is enough for detection; two may cancel out (an edit
undone by another), which is no loss.  Two captures are the least that overlap
or follow one another, two todo lists let a stale one be told from a fresh one.
In the evals one task stands for each way of running a process.  The seven
configs of `MCGates` differ in what chooses the steps of a gate or the outcome
of one; the seven faults are one for each set of steps that sees them (every
gate; all but the audits; the remote tier's doctor; one command; the tests; the
two states of the substrate's venv).  One change by the author falls before,
between or after any two steps.

**Deadlock** is not checked: all these systems may stop (all bounds used up,
nobody obliged to call), and the suite ends.

**Symmetry** is used for processes, payloads, anchorers, sessions, versions and
cooldown runs, only where no liveness property is checked; no operator orders
them and no `CHOOSE` ranges over them.

**Fairness.**  `MemoryLog!FairSpec`: a process that runs goes on (weak fairness
of its steps), and flock serves its waiters, so an acquisition that is enabled
again and again happens (strong fairness); neither starting nor failing is
fair.  `EvalRunner!FairSpec`: the main thread and the pool's workers go on, the
alarm and `communicate`'s timeout are served, and an in-process task without
its alarm ends because each of its git calls has a timeout of 15 seconds
(`session_handoff.py:100`).  No process the tasks start is obliged to end: this
is what the timeouts are for.

## 5. What is proved

Eight modules hold the proofs, for every value of the constants that the
components' named assumptions allow; each assumption is evaluated by a run.
`PROJECT.json` lists the theorems with the properties they state.

**`MemoryLogProofs`** (`MemoryAssumption`, `AnchorAssumption`), with flock or
without, for any number of processes, lines and torn writes:

* `TypeCorrect`: `InFlight` (a caller past `Read` holds an event; an open line
  exists) makes `TypeOK` inductive.
* `Durable`: `NoSilentLoss` alone is not inductive: a glued write destroys the
  line before it.  `WrittenKept` says of every event whose write is complete
  that it is on a closed line *or* the log has a line that is not JSON
  (`Kept`); no write takes that back, and such a log does not verify.
* `BreakIsPermanent`, `AcknowledgedStays`: a bad line stays or becomes worse,
  and a closed one is never touched (`AddTextRepairsNothing`, `AddTextKeepsLines`).
* `LockKeepsChain`: by `Exclusive` (under flock only the holder is past the
  lock, so what it has read is still so).
* `LogIsAppendOnly`: the refinement of `AppendOnlyLog`.  `Trusted` is a `CHOOSE`;
  `TrustedExists` shows by the least bad line that there is one longest prefix
  that verifies, and `AddTextRefines` that text behind it is an `Extend`, a
  `Break` or nothing.
* `AnchorIsProof`, `GateVouches`, after any number of damages of any kind: the
  key is `HeadDetermines`, that two logs that verify and have one head are one
  log (`HashIsHistory`, by the least line whose hash is not the chain of the
  pairs up to it).  The invariant says of each sound witness that *some* log
  that verified had its head and held its events, and of a missing file that
  was never deleted that nothing has been read from it.
* `OneLogPerAnchor` follows from `HeadDetermines` too: no step changes the file
  and leaves an anchor verified, be it damage, a rewrite or the next append.
* `RepositoryLog` carries what is proved of `append` alone over to the anchored
  repository, while nobody damages the file; `UndamagedLog` says what holds up to
  the first damage (`Undamaged`, inductive with `AnchorInv`).
* `OneDamageShows`: `DamageShows` says of the log after one damage in its
  interior that it does not verify or holds all it held, by a lemma on each kind
  of damage.  The hypotheses of `InteriorDamageShows` are needed: exchanging the
  last two lines and then losing the last but one is a truncation in two steps,
  which only an anchor shows, and without flock two events that raced for one
  number may lose the wrong one.
* `UntornAnchorIsProof`: with a lock, no cut write and one damage, what is
  anchored is sound whenever it verifies (`WorthyWitnesses`), so that the
  docstring's promise holds; the finding `anchor_of_torn_log` needs the cut
  write.
* `LockIsReleased`: the lock is never left behind by a call that has ended or
  died, which is what `AppendsEnd` needs besides fairness.

**`HistoryLogProofs`**: the invariant adds to the properties' own facts what each
call under way holds (`CallSound`): its name for HEAD was right when it was asked, its draft
names a commit that was made, and what it has read holds every entry that no
overlapping call can lose.  From it `OnlyARaceLoses`, `GuardNamesRight`,
`OnlyGitMakesStale`.  `CopiesCurrent` says that before the first race what a call
has read is the file as it is, hence `GrowsUntilRace`: up to then no entry is lost,
moved or changed.  With `OneAgent` there is no race, hence `OneAgentKeeps` and the
refinement `OneAgentRefines`.

**`SessionHandoffProofs`**: `HandoffInv` has six parts over the types: captures are
distinct and have not ended (`Identities`), a file that is a capture's own has
only its event to come (`Mine`), all values follow what captures have seen
(`Past`), events agree with the files (`Events`), no ended capture's successor
is replaced by it (`Newer`), and a quiet capture has read the world as it is
(`Quietness`).

**`EvalRunnerProofs`**: `EvalInv` adds to the types which phase implies which
(`Phases`), that a record in order rests on the answer the task had to give
(`Records`), that only running tasks and `subprocess.run`'s leftovers have
processes (`Families`), and that the trace names the batch (`Batch`).
`StepsRunOut` and `SuiteGoesOn` are the safety content of `SuiteEnds`: every step
takes something away from what is still ahead (`Ahead`, the events a task can
still have, and `Stages`, the phases to come), which is finite, and until the end
a step that fairness obliges somebody to take is possible (`NeverStuck`, which
needs `Fresh`: a task that is to be started has no process yet).  `OnlyProbe`
bounds the finding `eval_timeout`: no task but the probe takes a timeout for a
success.

**`GatesProofs`**: a gate that may still pass has each step that it needs before
it or behind it, and what is behind it has shown its faults absent
(`NothingMissed`, by lemmas on each plan); `Stopping` orders the validation
before everything that runs the project's commands (`ConfigFirst`), and
`AuditTests` is about the one audit step whose failure is not its own.
`FloorWithConfig` is the validator's promise with the hypothesis that the finding
`missing_config` shows it to need.  `CleanIsNotBlocked` is the other direction of
`PassMeansClean`: a gate does not fail where the config is valid, nothing is wrong
and nobody edits meanwhile.

**`CommitProofs`**: for `CommitMessage` under the hypothesis `BothHooks`, that the
config runs both (it does not, section 6): `CommitInv` says of the commit under
way what each hook that has passed has seen.  `ChecklistsCovered` rests on
`UsesDetected`: in a file where a name has one meaning the hook's reading
contains Python's.  For `RegressionPins`, `CoverageErodes` and `ClaimsErode`
are inductive as they stand, with the types: a judgement is about a tree that
differs from the commit's only in `since` (`SamePair`, `StandsAlike`).

**`SharedProofs`**: for `DepCooldown`, `Weighed` says that a version a run is through
with is old enough or held against it, `Settled` that what is cleared is old enough
from then on, whatever the cache holds (`OutInTime`: nothing is published later than
now).  For `Setup`, what a call past a step has achieved (`Achieved`) makes
`SetupEndsReady` and `SetupRepairs` inductive; `PipNeeded` and `PipNotRepaired` say
that the exception `SetupRepairs` makes is a real one, which stays until somebody
deletes the venv.  `SharedParts`: in `MCShared` each part follows its own
specification, so that its theorems hold in the run.

**`JudgedProofs`**: for `RemoteTier`, `GovernedMeansOwned` holds of every state of the
right types: it compares the doctor's reading of `CODEOWNERS` with GitHub's
(`OwnerIsAsked`), both of which are operators, so its theorem rests on the type
invariant.  `JudgedParts` is `SharedParts` for `MCJudged`, and `JudgedTypeCorrect`
collects the type invariants of its parts.

Some theorems state what no run lists, because it bounds or completes a property
of a run: `HolderRuns`, `UntornAnchorProves`, `GrowsUntilRaced`, `IsAppendOnly`,
`OnlyTheProbeForgives`, `EveryStepCounts`, `NeverStuck`, `NoFalseAlarm`,
`PipStaysAway`, `SuccessNeedsPip`.

Only model-checked: `AppendsEnd` and `SuiteEnds`.  Liveness under fairness is out of
the prover's reach; what these two need besides it is proved (`LockIsReleased`,
`StepsRunOut`, `SuiteGoesOn`).

## 6. Findings

Each has a run whose counterexample is the scenario (`PROJECT.json`, "findings").

* `anchor` (`memory_log.py:150-152`) does not verify what it anchors.  With a
  cut last line it records 64 zeros, and an emptied log passes
  `verify --anchor`.  Without a cut write it does not (`UntornAnchorIsProof`).
* `append_history.py:114-127` reads and replaces without a lock.  Up to the first
  overlap, and for one agent, nothing is lost (`GrowsUntilRace`, `OneAgentKeeps`).
* `t_sandbox_exfil_contained` (`run_substrate_evals.py:302`) takes any nonzero
  exit for containment, the 124 of a timeout included, against the module's
  docstring (line 21) and the comment at lines 203-204.  No other task does (`OnlyProbe`).
* `check_substrate_config.py:173` returns 0 without a config, before the locks.
  `manage.sh check` then runs under its defaults, without the doctor and the
  commands, and passes, although `required_profile` says strict.  The doctor
  and the audits do block on the missing file, and with a config the floor holds
  (`FloorWithConfig`).
* `lang_gate.sh:33-35,42-43` writes `A && B || skip`: a command that fails, or a
  sandbox that refuses, is reported as a gate nobody opted into, with status 0.
* `.pre-commit-config.yaml` has no hook of the commit-msg stage and calls neither
  `check_finding_response.py` nor `check_postmortem_for_bug_fix.py` (nor
  `check_validator_input_coverage.py`), although `manage.sh:65` installs the
  commit-msg hook and `CONTRIBUTING.md:58` says that it requires four fields.
  The `judged` run and the proofs suppose both hooks.

Seen while modelling, without a run of their own:

* `memory_log.py:5-7` says the chain detects truncation.  It detects a cut within
  a line; whole lines lost off the end only an anchor shows
  (`InteriorDamageShows` excludes them).
* A message whose first line is blank is exempt from both commit-msg hooks
  ("git itself rejects" it, `check_finding_response.py:609-611`), though git
  strips leading blank lines.  With `commit -v` the diff counts as text, and git
  that fails under a hook means no checklists.  git makes a commit's tree before
  the editor opens, and the hooks ask the index.
* `check_postmortem_gates_resolved.py`: a comment says that a missing pytest
  skips the check, the code falls back to the source's symbols.  Of a claim that
  names a script nothing else is looked for; a test of the same name in any file
  resolves it; tests that change later are never judged again.
* A new test file with a longer name takes a validator's tests' place
  (`check_validator_input_coverage.py:203-222`).
* `check_dep_cooldown.py` caches a text that is not a time, and skips the version
  ever after; a time without a zone ends the run with a TypeError, exit 1, before
  the cache is written.  A missing lock file, lock entry or TOML parser leaves
  dependencies out without a word, even where answers are required.
* A killed `mv` across file systems leaves a cut config, and `printf >>` behind a
  missing newline loses the flag; the validator then blocks.
* GitHub has a later rule `/scripts` without owners cover the directory's files,
  the doctor keeps the earlier rule for them (`Slashed` excludes it).  A missing
  CODEOWNERS is objected to only while `.github/CODEOWNERS.suggested` lies there
  (`substrate_doctor.py:117,522`).
* A venv whose creation stopped before pip is taken for one by every later call
  (`manage.sh:44`), against the comment at lines 45-48 (`PipNotRepaired`).
* The shell loader and the validator read two kinds of config lines differently:
  a quoted value behind a space, and a line that begins with a space and holds
  a `#`.
* `SUBSTRATE_DEP_COOLDOWN="00"` passes the lock, which compares texts
  (`check_substrate_config.py:254`), and switches the check off, which compares
  numbers (`check_dep_cooldown.py:205`).
* A release of a Python project runs none of its `LINT_CMD`, `TYPECHECK_CMD` and
  `TEST_CMD` (`release_gate.sh:50-54`), and no release runs the cooldown.
* The full audit runs pytest outside the sandbox whatever the config says
  (`substrate_audit.py:30`), and skips it, with status 0, where it is not in
  the venv (`PassMeansClean` asks nothing of an audit that has not run it).
* At a commit pre-commit goes on after a failed hook, so the project's tests run
  although the config was refused (`ValidatedBeforeRun` is about checks and
  releases).
* `verify --anchor` compares heads for equality (`memory_log.py:215`), so the
  first append after an anchor is reported as "history was rewritten"
  (`AnchorIsExact`).  The
  eval `memory_anchor_mismatch_detected` relies on it; the doctor's message
  names both causes.
* `anchor` may record a head that another append has overtaken.
* `release_gate.sh:42` skips the memory step when `events.jsonl` is absent, so a
  deleted log passes although it was anchored (`GateProvesHistory` excludes it).
* `check_history_sha.py:208-214` advises a "Correction" entry, but goes on
  failing for the entry it corrects.
* A git call of `capture` that fails leaves an empty text, which a reader takes
  for a clean tree.
* `_restore_from_structured`'s docstring (`session_handoff.py:321`) promises a
  fallback to the markdown view that `restore` deliberately does not have.
* Evals that call `subprocess.run` (`run_substrate_evals.py:319,404-427`) leave
  grandchildren behind on a timeout, unlike `_run`.

## 7. Not modelled

Texts (redaction, sanitizing, caps, formatting, the markdown view and the
transcript excerpts), command-line parsing, printing, `tail` and `tasks`, the
evals' `--fast`, `--run-one` and `BENCHMARK.md`, and what the evals feed to the
guards.  A write larger than one buffer, which two processes without a lock
could interleave within a line, is covered only in that a line may end up not
JSON by a torn write.
Of the gates: the audit's report files, a runner or a Go toolchain that is
missing, and other flags than `SUBSTRATE_SANDBOX` in the caller's environment.
The hooks `.pre-commit-config.yaml` holds are taken to be those bootstrap leaves
to the language the config names.  Of the commit-msg hooks: how a field, a path
or a directive is recognised in the text of a message, and more than one
postmortem.  Of the pins: the fixtures' YAML below its keys and shapes.  Of the
cooldown: the parsers of the three ecosystems and a malformed manifest, which
ends a run with exit 2 before anything else.  Of setup: uv, the manifest and the
language's own commands, whose failure is ignored.  That setup and the cooldown end is not
stated: nothing in them waits but pip and the network.

Whole parts: the trusted-base workflow (its file is not in the repository) and the
live calls to GitHub; the manifest and doc drift (one pass over one tree); the
command guard and host adapters (patterns over one command line); the numeric
ratchets, integrity scans, smoke checks, shared lookups and reports, which keep
no state and are left to the repository's tests.
