---------------------------- MODULE DepCooldown ------------------------------
(***************************************************************************)
(* check_dep_cooldown.py: several runs of it over one tree and one cache,  *)
(* while versions are published, dependencies are taken up and time        *)
(* passes.  A run may be killed anywhere; the cache is written in place.   *)
(***************************************************************************)
EXTENDS Naturals, FiniteSets

CONSTANTS
    Versions,   \* name@version, of any of the three ecosystems
    Checks,     \* the runs
    Days,       \* the cooldown
    MaxDay,     \* bound on the time
    MaxRuns     \* bound on the number of runs

ASSUME CooldownAssumption ==
    /\ Days \in Nat \ {0} /\ MaxDay \in Nat /\ MaxRuns \in Nat

(* What the registry, or the cache, says of a version's publish time: nothing, *)
(* the time, the time without its zone, a text that is not a time              *)
Answer == {"none", "iso", "naive", "garbage"}
NoAnswers == [v \in Versions |-> "none"]

Unpublished == MaxDay + 1

VARIABLES
    today,
    published,   \* when each version was
    deps,        \* the direct dependencies that the lock file, or go.mod, resolves
    cache,       \* .substrate/dep_cooldown_cache.json
    checks,      \* the runs
    started,     \* how many there were
    cleared      \* the versions that some run has found to be old enough

cooldownVars == <<today, published, deps, cache, checks, started, cleared>>

\* Not JSON: a write has begun or was cut short, or two were mixed
CutShort == [v \in Versions |-> "cut"]
Away == [at |-> "away"]

-----------------------------------------------------------------------------
(* The tree and the time *)

Pass ==
    /\ today < MaxDay
    /\ today' = today + 1
    /\ UNCHANGED <<published, deps, cache, checks, started, cleared>>

Publish(v) ==
    /\ published[v] = Unpublished
    /\ published' = [published EXCEPT ![v] = today]
    /\ UNCHANGED <<today, deps, cache, checks, started, cleared>>

(* A dependency is taken up or dropped, with its lock entry or without: where *)
(* the lock file has no entry for a name, or there is no lock file or no TOML *)
(* parser, _discover says nothing of it.                                      *)
Depend(v) ==
    /\ published[v] # Unpublished
    /\ deps' = IF v \in deps THEN deps \ {v} ELSE deps \cup {v}
    /\ UNCHANGED <<today, published, cache, checks, started, cleared>>

-----------------------------------------------------------------------------
(* A run *)

(* json.loads of what is there; a cut text counts as {}. *)
CacheText == IF cache = CutShort THEN NoAnswers ELSE cache

(* main() up to the loop; it reads the tree, the cache and the clock at once. *)
StartCheck(c, required) ==
    /\ checks[c] = Away /\ started < MaxRuns
    /\ started' = started + 1
    /\ checks' = [checks EXCEPT ![c] =
          [at |-> "loop", required |-> required, now |-> today,
           found |-> deps, todo |-> deps,
           known |-> CacheText, dirty |-> FALSE, young |-> {}, skipped |-> {}, before |-> cleared]]
    /\ UNCHANGED <<today, published, deps, cache, cleared>>

Young(run, v) == run.now < published[v] + Days

\* Faulty variant: without a zone, the day is taken to be today.
Weigh_NaiveToday(run, v, answer) ==
    IF answer \in {"none", "garbage"} THEN [run EXCEPT !.skipped = @ \cup {v}]
    ELSE IF answer = "naive" \/ Young(run, v) THEN [run EXCEPT !.young = @ \cup {v}]
    ELSE run

(* The verdict on one version, whose publish time is said to be answer *)
Weigh(run, v, answer) ==
    IF answer \in {"none", "garbage"} THEN [run EXCEPT !.skipped = @ \cup {v}]
    ELSE IF answer = "naive" THEN [run EXCEPT !.at = "crashed"]   \* now - dt: TypeError
    ELSE IF Young(run, v) THEN [run EXCEPT !.young = @ \cup {v}]
    ELSE run

(* What a lookup says is kept, whatever it is. *)
Learn(run, v, answer) ==
    IF answer = run.known[v] THEN run
    ELSE [run EXCEPT !.known[v] = answer, !.dirty = TRUE]

(* One turn of the loop: from the cache, or from the registry, which does not *)
(* answer under --offline and may not answer at all.                          *)
LookUp(c) ==
    /\ checks[c].at = "loop"
    /\ \E v \in checks[c].todo :
          LET run == [checks[c] EXCEPT !.todo = @ \ {v}] IN
          \E answer \in IF run.known[v] # "none" THEN {run.known[v]} ELSE Answer :
             /\ checks' = [checks EXCEPT ![c] = Weigh(Learn(run, v, answer), v, answer)]
             /\ cleared' = IF answer = "iso" /\ ~Young(run, v) THEN cleared \cup {v} ELSE cleared
    /\ UNCHANGED <<today, published, deps, cache, started>>

(* cache_path.write_text: it empties the file, *)
OpenCache(c) ==
    /\ checks[c].at = "loop" /\ checks[c].todo = {}
    /\ IF checks[c].dirty
       THEN cache' = CutShort /\ checks' = [checks EXCEPT ![c].at = "write"]
       ELSE checks' = [checks EXCEPT ![c].at = "verdict"] /\ UNCHANGED cache
    /\ UNCHANGED <<today, published, deps, started, cleared>>

(* and fills it; or the write fails, or meets another's, and nobody hears. *)
FillCache(c) ==
    /\ checks[c].at = "write"
    /\ cache' \in {checks[c].known, CutShort, cache}
    /\ checks' = [checks EXCEPT ![c].at = "verdict"]
    /\ UNCHANGED <<today, published, deps, started, cleared>>

\* Faulty variant: one verified dependency is enough.
Exit_AnyChecked(run) ==
    IF run.young # {} THEN 1
    ELSE IF run.required /\ run.skipped = run.found /\ run.found # {} THEN 1 ELSE 0

(* The exit code of a run that has come to its verdict *)
Exit(run) ==
    IF run.young # {} THEN 1
    ELSE IF run.required /\ run.skipped # {} THEN 1 ELSE 0

(* The run is over, or it is killed. *)
EndCheck(c) ==
    /\ checks[c] # Away
    /\ checks' = [checks EXCEPT ![c] = Away]
    /\ UNCHANGED <<today, published, deps, cache, started, cleared>>

CooldownInit ==
    /\ today = 0
    /\ published = [v \in Versions |-> Unpublished]
    /\ deps = {}
    /\ cache = NoAnswers
    /\ checks = [c \in Checks |-> Away]
    /\ started = 0 /\ cleared = {}

CooldownNext ==
    \/ Pass
    \/ \E v \in Versions : Publish(v) \/ Depend(v)
    \/ \E c \in Checks :
          \/ \E required \in BOOLEAN : StartCheck(c, required)
          \/ LookUp(c) \/ OpenCache(c) \/ FillCache(c) \/ EndCheck(c)

CooldownSpec == CooldownInit /\ [][CooldownNext]_cooldownVars

-----------------------------------------------------------------------------
(* Properties *)

RunState == [at : {"loop", "write", "verdict", "crashed"}, required : BOOLEAN,
             now : 0..MaxDay, found : SUBSET Versions,
             todo : SUBSET Versions, known : [Versions -> Answer], dirty : BOOLEAN,
             young : SUBSET Versions, skipped : SUBSET Versions,
             before : SUBSET Versions]

CooldownTypeOK ==
    /\ today \in 0..MaxDay /\ started \in 0..MaxRuns
    /\ published \in [Versions -> 0..Unpublished]
    /\ deps \subseteq Versions
    /\ cache \in {CutShort} \cup [Versions -> Answer]
    /\ checks \in [Checks -> {Away} \cup RunState]
    /\ cleared \subseteq Versions

(* A version has been out for the cooldown when the run begins. *)
Aged(run, v) == run.now - published[v] >= Days

(* A run that passes has found every dependency that the lock file resolves to *)
(* be old enough, or, where that is not required, has reported that it does    *)
(* not know: whatever other runs, kills and failing writes did to the cache,   *)
(* and whatever the registry answered before.                                  *)
PassMeansAged ==
    \A c \in Checks :
        checks[c].at = "verdict" /\ Exit(checks[c]) = 0
            => \A v \in checks[c].found :
                  Aged(checks[c], v) \/ (v \in checks[c].skipped /\ ~checks[c].required)

(* What one run has found to be old enough, no run that begins later holds to *)
(* be young: it may only come not to know, when the cache is lost.            *)
VerdictsAgree ==
    \A c \in Checks : checks[c] # Away => checks[c].young \cap checks[c].before = {}
=============================================================================
