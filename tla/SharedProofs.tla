---------------------------- MODULE SharedProofs ----------------------------
(***************************************************************************)
(* Proofs about what is kept under .substrate besides the memory log: the  *)
(* cooldown's cache (DepCooldown) for every set of versions and runs,      *)
(* every cooldown and every bound, and the venv (Setup) for both profiles  *)
(* and any number of kills and damages.                                    *)
(***************************************************************************)
EXTENDS MCShared, TLAPS

-----------------------------------------------------------------------------
(* DepCooldown *)

Active(c) == checks[c] # Away

(* The tree takes up what is published, and nothing is published later than now. *)
OutInTime ==
    /\ \A v \in Versions : published[v] = Unpublished \/ published[v] <= today
    /\ \A v \in deps : published[v] # Unpublished

(* What a run has found is out, and cleared versions are old enough from then on. *)
Settled ==
    /\ \A v \in cleared : published[v] # Unpublished /\ published[v] + Days <= today
    /\ \A c \in Checks : Active(c) =>
          /\ checks[c].now <= today
          /\ checks[c].todo \cup checks[c].young \subseteq checks[c].found
          /\ \A v \in checks[c].found : published[v] # Unpublished
          /\ \A v \in checks[c].before :
                published[v] # Unpublished /\ published[v] + Days <= checks[c].now

(* Every version that a run is through with is old enough, or held against it *)
(* or for unknown; it writes and gives its verdict when it is through with all; *)
(* and it holds a version to be young only when it is.                        *)
Weighed ==
    \A c \in Checks : Active(c) =>
        /\ \A v \in checks[c].young : Young(checks[c], v)
        /\ checks[c].at # "crashed" => \A v \in checks[c].found \ checks[c].todo :
              \/ ~Young(checks[c], v)
              \/ v \in checks[c].young \cup checks[c].skipped
        /\ checks[c].at \in {"write", "verdict"} => checks[c].todo = {}

CooldownInv == CooldownTypeOK /\ OutInTime /\ Settled /\ Weighed

-----------------------------------------------------------------------------

(* A run after the turn of its loop that is about one version *)
Turn(c, v, answer) == Weigh(Learn([checks[c] EXCEPT !.todo = @ \ {v}], v, answer), v, answer)

(* A turn of the loop weighs one version and leaves the rest of the run alone. *)
LEMMA OneWeighed ==
    ASSUME CooldownInv, NEW c \in Checks, checks[c].at = "loop", NEW v \in checks[c].todo,
           NEW answer \in Answer, NEW after, after = Turn(c, v, answer)
    PROVE  /\ after \in RunState
           /\ after.now = checks[c].now /\ after.found = checks[c].found
           /\ after.before = checks[c].before /\ after.todo = checks[c].todo \ {v}
           /\ after.at \in {"loop", "crashed"}
           /\ after.young \subseteq checks[c].young \cup {v}
           /\ v \in after.young \ checks[c].young => Young(checks[c], v)
           /\ checks[c].young \subseteq after.young /\ checks[c].skipped \subseteq after.skipped
           /\ after.at # "crashed" =>
                 v \in after.young \cup after.skipped \/ ~Young(checks[c], v)
  <1> DEFINE run == [checks[c] EXCEPT !.todo = @ \ {v}]
             told == Learn(run, v, answer)
  <1>1. checks[c] \in RunState /\ v \in Versions
    BY DEF CooldownInv, CooldownTypeOK, RunState, Away
  <1>2. /\ run \in RunState /\ run.at = "loop" /\ run.now = checks[c].now
        /\ run.found = checks[c].found /\ run.before = checks[c].before
        /\ run.todo = checks[c].todo \ {v} /\ run.young = checks[c].young
        /\ run.skipped = checks[c].skipped
    BY <1>1 DEF RunState
  <1> HIDE DEF run
  <1>3. /\ told \in RunState /\ told.at = "loop" /\ told.now = checks[c].now
        /\ told.found = checks[c].found /\ told.before = checks[c].before
        /\ told.todo = checks[c].todo \ {v} /\ told.young = checks[c].young
        /\ told.skipped = checks[c].skipped
    <2>1. CASE told = run
      BY <2>1, <1>2
    <2>2. CASE told = [run EXCEPT !.known[v] = answer, !.dirty = TRUE]
      <3>1. run.known \in [Versions -> Answer]
        BY <1>2 DEF RunState
      <3>2. [run.known EXCEPT ![v] = answer] \in [Versions -> Answer]
        BY <3>1
      <3>3. told = [run EXCEPT !.known = [run.known EXCEPT ![v] = answer], !.dirty = TRUE]
        BY <2>2
      <3> QED BY <3>2, <3>3, <1>2 DEF RunState
    <2> QED BY <2>1, <2>2 DEF Learn
  <1> HIDE DEF told
  <1>4. after = Weigh(told, v, answer)
    BY DEF told, run, Turn
  <1>5. Young(told, v) <=> Young(checks[c], v)
    BY <1>3 DEF Young
  <1>6. CASE answer \in {"none", "garbage"}
    <2>1. after = [told EXCEPT !.skipped = told.skipped \cup {v}]
      BY <1>4, <1>6 DEF Weigh
    <2>2. told.skipped \cup {v} \in SUBSET Versions
      BY <1>1, <1>3 DEF RunState
    <2> QED BY <1>3, <2>1, <2>2 DEF RunState
  <1>7. CASE answer = "naive"
    <2>1. after = [told EXCEPT !.at = "crashed"]
      BY <1>4, <1>7 DEF Weigh
    <2> QED BY <1>1, <1>3, <2>1 DEF RunState
  <1>8. CASE answer = "iso" /\ Young(told, v)
    <2>1. after = [told EXCEPT !.young = told.young \cup {v}]
      BY <1>4, <1>8 DEF Weigh
    <2>2. told.young \cup {v} \in SUBSET Versions
      BY <1>1, <1>3 DEF RunState
    <2> QED BY <1>3, <1>5, <1>8, <2>1, <2>2 DEF RunState
  <1>9. CASE answer = "iso" /\ ~Young(told, v)
    <2>1. after = told
      BY <1>4, <1>9 DEF Weigh
    <2> QED BY <1>1, <1>3, <1>5, <1>9, <2>1
  <1> QED BY <1>6, <1>7, <1>8, <1>9 DEF Answer

-----------------------------------------------------------------------------

(* Time and other versions' publications leave what is known of a run alone. *)
LEMMA TreeMoves ==
    ASSUME CooldownInv, checks' = checks, cleared' = cleared, cache' = cache,
           started' = started, today' \in 0..MaxDay, today <= today',
           published' \in [Versions -> 0..Unpublished], deps' \subseteq Versions,
           \A v \in Versions : published[v] # Unpublished => published'[v] = published[v],
           OutInTime'
    PROVE  CooldownInv'
  <1> USE CooldownAssumption DEF CooldownAssumption
  <1>1. CooldownTypeOK'
    BY DEF CooldownInv, CooldownTypeOK, RunState, Unpublished
  <1>2. \A c \in Checks : Active(c) => checks[c] \in RunState
    BY DEF CooldownInv, CooldownTypeOK, Active
  <1>3. Settled'
    <2>1. \A v \in cleared : published'[v] # Unpublished /\ published'[v] + Days <= today'
      <3> SUFFICES ASSUME NEW v \in cleared
                   PROVE  published'[v] # Unpublished /\ published'[v] + Days <= today'
        OBVIOUS
      <3>1. v \in Versions /\ published[v] \in Nat /\ today \in Nat /\ today' \in Nat
        BY DEF CooldownInv, CooldownTypeOK, Unpublished
      <3> QED BY <3>1 DEF CooldownInv, Settled
    <2>2. ASSUME NEW c \in Checks, Active(c)
          PROVE  /\ checks[c].now <= today'
                 /\ checks[c].todo \cup checks[c].young \subseteq checks[c].found
                 /\ \A v \in checks[c].found : published'[v] # Unpublished
                 /\ \A v \in checks[c].before :
                       published'[v] # Unpublished /\ published'[v] + Days <= checks[c].now
      <3>1. /\ checks[c].now \in Nat /\ today \in Nat /\ today' \in Nat
            /\ checks[c].found \subseteq Versions /\ checks[c].before \subseteq Versions
        BY <1>2, <2>2 DEF RunState, CooldownInv, CooldownTypeOK
      <3> QED BY <2>2, <3>1 DEF CooldownInv, Settled
    <2> QED BY <2>1, <2>2 DEF Settled, Active
  <1>4. Weighed'
    <2> SUFFICES ASSUME NEW c \in Checks, Active(c)
                 PROVE  /\ \A v \in checks[c].young : Young(checks[c], v)'
                        /\ checks[c].at # "crashed" =>
                              \A v \in checks[c].found \ checks[c].todo :
                                 \/ ~Young(checks[c], v)'
                                 \/ v \in checks[c].young \cup checks[c].skipped
                        /\ checks[c].at \in {"write", "verdict"} => checks[c].todo = {}
      BY DEF Weighed, Active
    <2>1. \A v \in checks[c].found : published'[v] = published[v]
      BY <1>2 DEF CooldownInv, Settled, RunState
    <2>2. \A v \in checks[c].found : Young(checks[c], v)' <=> Young(checks[c], v)
      BY <2>1 DEF Young
    <2>3. checks[c].young \subseteq checks[c].found
      BY DEF CooldownInv, Settled
    <2> QED BY <2>2, <2>3 DEF CooldownInv, Weighed
  <1> QED BY <1>1, <1>3, <1>4 DEF CooldownInv

(* What the invariant asks of one run *)
RunOK(run) ==
    /\ run \in RunState
    /\ run.now <= today
    /\ run.todo \cup run.young \subseteq run.found
    /\ \A v \in run.found : published[v] # Unpublished
    /\ \A v \in run.before : published[v] # Unpublished /\ published[v] + Days <= run.now
    /\ \A v \in run.young : Young(run, v)
    /\ run.at # "crashed" => \A v \in run.found \ run.todo :
          ~Young(run, v) \/ v \in run.young \cup run.skipped
    /\ run.at \in {"write", "verdict"} => run.todo = {}

LEMMA RunsOK ==
    ASSUME CooldownInv, NEW c \in Checks, Active(c)
    PROVE  RunOK(checks[c])
  BY DEF CooldownInv, CooldownTypeOK, Settled, Weighed, RunOK, Active

(* A step of one run keeps the invariant if it leaves that run as it should be. *)
LEMMA RunMoves ==
    ASSUME CooldownInv, NEW c \in Checks, NEW after \in {Away} \cup RunState,
           checks' = [checks EXCEPT ![c] = after], after # Away => RunOK(after),
           UNCHANGED <<today, published, deps>>,
           cache' \in {CutShort} \cup [Versions -> Answer], started' \in 0..MaxRuns,
           cleared' \subseteq Versions,
           \A v \in cleared' : published[v] # Unpublished /\ published[v] + Days <= today
    PROVE  CooldownInv'
  <1>1. CooldownTypeOK'
    BY DEF CooldownInv, CooldownTypeOK
  <1>2. OutInTime'
    BY DEF CooldownInv, OutInTime
  <1>3. \A d \in Checks : checks'[d] # Away => RunOK(checks'[d])
    <2> SUFFICES ASSUME NEW d \in Checks, checks'[d] # Away
                 PROVE  RunOK(checks'[d])
      OBVIOUS
    <2>1. CASE d = c
      BY <2>1 DEF CooldownInv, CooldownTypeOK
    <2>2. CASE d # c
      BY <2>2, RunsOK DEF CooldownInv, CooldownTypeOK, Active
    <2> QED BY <2>1, <2>2
  <1>4. Settled'
    BY <1>3 DEF Settled, Active, RunOK
  <1>5. Weighed'
    BY <1>3 DEF Weighed, Active, RunOK, Young
  <1> QED BY <1>1, <1>2, <1>4, <1>5 DEF CooldownInv

(* Every reachable state keeps CooldownInv. *)
LEMMA CooldownInductive == CooldownSpec => []CooldownInv
  <1> USE CooldownAssumption DEF CooldownAssumption
  <1>1. CooldownInit => CooldownInv
    <2> SUFFICES ASSUME CooldownInit PROVE CooldownInv
      OBVIOUS
    <2>1. NoAnswers \in [Versions -> Answer]
      BY DEF NoAnswers, Answer
    <2>2. CooldownTypeOK
      BY <2>1 DEF CooldownInit, CooldownTypeOK, Unpublished
    <2>3. OutInTime /\ Settled /\ Weighed
      BY DEF CooldownInit, OutInTime, Settled, Weighed, Active
    <2> QED BY <2>2, <2>3 DEF CooldownInv
  <1>2. CooldownInv /\ [CooldownNext]_cooldownVars => CooldownInv'
    <2> SUFFICES ASSUME CooldownInv, [CooldownNext]_cooldownVars
                 PROVE  CooldownInv'
      OBVIOUS
    <2>1. CASE Pass
      <3>1. today' \in 0..MaxDay /\ today <= today' /\ OutInTime'
        BY <2>1 DEF Pass, CooldownInv, CooldownTypeOK, OutInTime, Unpublished
      <3> QED BY <2>1, <3>1, TreeMoves DEF Pass, CooldownInv, CooldownTypeOK
    <2>2. ASSUME NEW v \in Versions, Publish(v) PROVE CooldownInv'
      <3>1. published' \in [Versions -> 0..Unpublished] /\ OutInTime'
        BY <2>2 DEF Publish, CooldownInv, CooldownTypeOK, OutInTime, Unpublished
      <3> QED BY <2>2, <3>1, TreeMoves DEF Publish, CooldownInv, CooldownTypeOK
    <2>3. ASSUME NEW v \in Versions, Depend(v) PROVE CooldownInv'
      <3>1. deps' \subseteq Versions /\ OutInTime'
        BY <2>3 DEF Depend, CooldownInv, CooldownTypeOK, OutInTime
      <3> QED BY <2>3, <3>1, TreeMoves DEF Depend, CooldownInv, CooldownTypeOK
    <2>4. ASSUME NEW c \in Checks, NEW required \in BOOLEAN, StartCheck(c, required)
          PROVE  CooldownInv'
      <3> DEFINE after == [at |-> "loop", required |-> required, now |-> today,
                           found |-> deps, todo |-> deps, known |-> CacheText,
                           dirty |-> FALSE, young |-> {}, skipped |-> {}, before |-> cleared]
      <3>1. CacheText \in [Versions -> Answer]
        BY DEF CacheText, NoAnswers, Answer, CooldownInv, CooldownTypeOK
      <3>2. after \in RunState
        BY <3>1 DEF RunState, CooldownInv, CooldownTypeOK
      <3>3. RunOK(after)
        <4>1. /\ after.now = today /\ after.found = deps /\ after.todo = deps
              /\ after.young = {} /\ after.before = cleared /\ after.at = "loop"
          OBVIOUS
        <4>2. today \in Nat /\ (\A v \in deps : published[v] # Unpublished)
              /\ \A v \in cleared : published[v] # Unpublished /\ published[v] + Days <= today
          BY DEF CooldownInv, CooldownTypeOK, OutInTime, Settled
        <4> HIDE DEF after
        <4> QED BY <3>2, <4>1, <4>2 DEF RunOK
      <3>4. checks' = [checks EXCEPT ![c] = after] /\ started' \in 0..MaxRuns
        BY <2>4 DEF StartCheck, CooldownInv, CooldownTypeOK
      <3> HIDE DEF after
      <3> QED BY <2>4, <3>2, <3>3, <3>4, RunMoves
              DEF StartCheck, CooldownInv, CooldownTypeOK, Settled
    <2>5. ASSUME NEW c \in Checks, LookUp(c) PROVE CooldownInv'
      <3>1. PICK v \in checks[c].todo, answer \in Answer :
               /\ checks' = [checks EXCEPT ![c] = Turn(c, v, answer)]
               /\ cleared' = IF answer = "iso" /\ ~Young(checks[c], v)
                             THEN cleared \cup {v} ELSE cleared
        <4>1. checks[c] \in RunState /\ checks[c].at = "loop"
          BY <2>5 DEF LookUp, Away, CooldownInv, CooldownTypeOK
        <4>2. PICK v \in checks[c].todo :
                \E answer \in IF checks[c].known[v] # "none" THEN {checks[c].known[v]} ELSE Answer :
                   /\ checks' = [checks EXCEPT ![c] = Turn(c, v, answer)]
                   /\ cleared' = IF answer = "iso" /\ ~Young(checks[c], v)
                                 THEN cleared \cup {v} ELSE cleared
          BY <2>5, <4>1 DEF LookUp, Young, RunState, Turn
        <4>3. checks[c].known[v] \in Answer
          BY <2>5, <4>1 DEF RunState
        <4> QED BY <4>2, <4>3
      <3> DEFINE after == Turn(c, v, answer)
      <3>2. checks[c].at = "loop" /\ Active(c)
        BY <2>5 DEF LookUp, Active, Away
      <3>0. after = Turn(c, v, answer)
        OBVIOUS
      <3> HIDE DEF after
      <3>3. /\ after \in RunState
            /\ after.now = checks[c].now /\ after.found = checks[c].found
            /\ after.before = checks[c].before /\ after.todo = checks[c].todo \ {v}
            /\ after.at \in {"loop", "crashed"}
            /\ after.young \subseteq checks[c].young \cup {v}
            /\ v \in after.young \ checks[c].young => Young(checks[c], v)
            /\ checks[c].young \subseteq after.young /\ checks[c].skipped \subseteq after.skipped
            /\ after.at # "crashed" =>
                  v \in after.young \cup after.skipped \/ ~Young(checks[c], v)
        BY <3>0, <3>1, <3>2, OneWeighed
      <3>4. RunOK(checks[c])
        BY <3>2, RunsOK
      <3>5. \A w : Young(after, w) <=> Young(checks[c], w)
        BY <3>3 DEF Young
      <3>6. RunOK(after)
        BY <3>2, <3>3, <3>4, <3>5 DEF RunOK
      <3>7. \A w \in cleared' : published[w] # Unpublished /\ published[w] + Days <= today
        <4>1. \A w \in cleared : published[w] # Unpublished /\ published[w] + Days <= today
          BY DEF CooldownInv, Settled
        <4>2. /\ v \in Versions /\ published[v] \in Nat /\ today \in Nat
              /\ checks[c].now \in Nat /\ checks[c].now <= today
              /\ published[v] # Unpublished
          BY <3>1, <3>4 DEF RunOK, RunState, CooldownInv, CooldownTypeOK, Unpublished
        <4> QED BY <3>1, <4>1, <4>2 DEF Young
      <3>8. cleared' \subseteq Versions
        BY <3>1, <3>4 DEF RunOK, RunState, CooldownInv, CooldownTypeOK
      <3>9. checks' = [checks EXCEPT ![c] = after] /\ UNCHANGED <<today, published, deps>>
            /\ cache' = cache /\ started' = started
        BY <2>5, <3>1 DEF LookUp, after
      <3> QED BY <3>3, <3>6, <3>7, <3>8, <3>9, RunMoves DEF CooldownInv, CooldownTypeOK
    <2>6. ASSUME NEW c \in Checks, OpenCache(c) PROVE CooldownInv'
      <3> DEFINE after == [checks[c] EXCEPT !.at = IF checks[c].dirty THEN "write" ELSE "verdict"]
      <3>1. checks[c].at = "loop" /\ checks[c].todo = {} /\ Active(c)
        BY <2>6 DEF OpenCache, Active, Away
      <3>2. RunOK(checks[c])
        BY <3>1, RunsOK
      <3>3. RunOK(after)
        BY <3>1, <3>2 DEF RunOK, RunState, Young
      <3>4. after \in RunState
        BY <3>3 DEF RunOK
      <3>5. /\ checks' = [checks EXCEPT ![c] = after] /\ UNCHANGED <<today, published, deps>>
            /\ cache' \in {CutShort, cache} /\ started' = started /\ cleared' = cleared
        BY <2>6 DEF OpenCache
      <3> HIDE DEF after
      <3> QED BY <3>3, <3>4, <3>5, RunMoves DEF CooldownInv, CooldownTypeOK, Settled
    <2>7. ASSUME NEW c \in Checks, FillCache(c) PROVE CooldownInv'
      <3> DEFINE after == [checks[c] EXCEPT !.at = "verdict"]
      <3>1. checks[c].at = "write" /\ Active(c)
        BY <2>7 DEF FillCache, Active, Away
      <3>2. RunOK(checks[c])
        BY <3>1, RunsOK
      <3>3. RunOK(after)
        BY <3>1, <3>2 DEF RunOK, RunState, Young
      <3>4. after \in RunState /\ checks[c].known \in [Versions -> Answer]
        BY <3>2, <3>3 DEF RunOK, RunState
      <3>5. /\ checks' = [checks EXCEPT ![c] = after] /\ UNCHANGED <<today, published, deps>>
            /\ cache' \in {checks[c].known, CutShort, cache}
            /\ started' = started /\ cleared' = cleared
        BY <2>7 DEF FillCache
      <3> HIDE DEF after
      <3> QED BY <3>3, <3>4, <3>5, RunMoves DEF CooldownInv, CooldownTypeOK, Settled
    <2>8. ASSUME NEW c \in Checks, EndCheck(c) PROVE CooldownInv'
      BY <2>8, RunMoves DEF EndCheck, CooldownInv, CooldownTypeOK, Settled
    <2>9. CASE UNCHANGED cooldownVars
      BY <2>9 DEF cooldownVars, CooldownInv, CooldownTypeOK, OutInTime, Settled, Weighed,
                  Active, Young
    <2> QED BY <2>1, <2>2, <2>3, <2>4, <2>5, <2>6, <2>7, <2>8, <2>9 DEF CooldownNext
  <1> QED BY <1>1, <1>2, PTL DEF CooldownSpec

(* Every variable keeps its type. *)
THEOREM CooldownTypeCorrect == CooldownSpec => []CooldownTypeOK
  <1>1. CooldownInv => CooldownTypeOK
    BY DEF CooldownInv
  <1> QED BY <1>1, CooldownInductive, PTL

(* A run that passes has found every dependency to be old enough or, where that *)
(* is not required, has said of which it does not know.                         *)
THEOREM PassIsAged == CooldownSpec => []PassMeansAged
  <1>1. CooldownInv => PassMeansAged
    <2> SUFFICES ASSUME CooldownInv, NEW c \in Checks, checks[c].at = "verdict",
                        Exit(checks[c]) = 0, NEW v \in checks[c].found
                 PROVE  Aged(checks[c], v) \/ (v \in checks[c].skipped /\ ~checks[c].required)
      BY DEF PassMeansAged
    <2>1. Active(c) /\ RunOK(checks[c])
      BY RunsOK DEF Active, Away
    <2>2. checks[c].young = {} /\ ~(checks[c].required /\ checks[c].skipped # {})
      BY DEF Exit
    <2>3. ~Young(checks[c], v) \/ v \in checks[c].skipped
      BY <2>1, <2>2 DEF RunOK
    <2>4. published[v] \in Nat /\ checks[c].now \in Nat
      BY <2>1 DEF RunOK, RunState, CooldownInv, CooldownTypeOK, Unpublished
    <2> QED BY <2>2, <2>3, <2>4, CooldownAssumption DEF Young, Aged, CooldownAssumption
  <1> QED BY <1>1, CooldownInductive, PTL

(* What one run has found to be old enough, no later run holds to be young. *)
THEOREM RunsAgree == CooldownSpec => []VerdictsAgree
  <1>1. CooldownInv => VerdictsAgree
    <2> SUFFICES ASSUME CooldownInv, NEW c \in Checks, checks[c] # Away,
                        NEW v \in checks[c].young, v \in checks[c].before
                 PROVE  FALSE
      BY DEF VerdictsAgree
    <2>1. RunOK(checks[c])
      BY RunsOK DEF Active
    <2>2. published[v] \in Nat /\ checks[c].now \in Nat
      BY <2>1 DEF RunOK, RunState, CooldownInv, CooldownTypeOK, Unpublished
    <2> QED BY <2>1, <2>2, CooldownAssumption DEF RunOK, Young, CooldownAssumption
  <1> QED BY <1>1, CooldownInductive, PTL

-----------------------------------------------------------------------------
(* Setup *)

(* What a call that nothing has disturbed has achieved by each of its steps; *)
(* SetupEndsReady and SetupRepairs speak of its end alone.                   *)
Achieved ==
    calm =>
        /\ at \notin {"off", "venv"} => py
        /\ at \in {"force", "project", "hook", "msg_hook", "doctor"} => have = Package
        /\ at \in {"project", "hook", "msg_hook", "doctor"} => console
        /\ at \in {"hook", "msg_hook", "doctor"} => pip
        /\ at = "msg_hook" => "pre-commit" \in hooks /\ Strict
        /\ at = "doctor" => Wanted \subseteq hooks

(* The result is that of the last call, which is over. *)
Reported == exit # "none" => at = "off"

SetupInv ==
    /\ SetupTypeOK /\ Achieved /\ Reported
    /\ SetupEndsReady /\ SetupRepairs /\ SuccessNeedsPip

-----------------------------------------------------------------------------

(* A step that is done leaves types, achievements and reports in order. *)
LEMMA StepDoneKeeps ==
    ASSUME SetupInv, StepDone
    PROVE  SetupInv'
  <1> USE SetupAssumption DEF SetupAssumption, SetupInv, SetupTypeOK, Achieved, Reported, SetupEndsReady,
          SetupRepairs, SuccessNeedsPip, Ready
  <1>0. exit = "none" \/ at = "off"
    OBVIOUS
  <1>1. CASE VenvDone
    BY <1>1 DEF VenvDone, Proceed, envVars, Wanted
  <1>2. CASE ProbeVenv
    BY <1>2 DEF ProbeVenv, Proceed, envVars, Wanted
  <1>3. CASE InstallDone
    BY <1>3 DEF InstallDone, Wanted
  <1>4. CASE ForceDone
    BY <1>4 DEF ForceDone, Proceed, Wanted, Package
  <1>5. CASE PipDone("upgrade_pip")
    BY <1>5 DEF PipDone, Proceed, envVars, Wanted
  <1>6. CASE PipDone("project")
    BY <1>6 DEF PipDone, Proceed, envVars, Wanted
  <1>7. CASE HookDone("hook")
    BY <1>7 DEF HookDone, Proceed, envVars, Wanted, HookType
  <1>8. CASE HookDone("msg_hook")
    BY <1>8 DEF HookDone, Proceed, envVars, Wanted, HookType
  <1> QED BY <1>1, <1>2, <1>3, <1>4, <1>5, <1>6, <1>7, <1>8 DEF StepDone

(* What a kill leaves of the venv is of its type. *)
LEMMA TornType ==
    ASSUME SetupTypeOK, NEW e \in Torn
    PROVE  /\ e.py \in BOOLEAN /\ e.pip \in BOOLEAN /\ e.have \subseteq Package
           /\ e.console \in BOOLEAN
  BY DEF Torn

(* Every reachable state keeps SetupInv. *)
LEMMA SetupInductive == SetupSpec => []SetupInv
  <1> USE SetupAssumption DEF SetupAssumption
  <1>1. SetupInit => SetupInv
    <2> SUFFICES ASSUME SetupInit PROVE SetupInv
      OBVIOUS
    <2>1. SetupTypeOK
      <3>1. py \in BOOLEAN /\ pip \in BOOLEAN /\ console \in BOOLEAN /\ calm \in BOOLEAN
        BY DEF SetupInit
      <3>2. have \subseteq Package /\ hooks \subseteq HookType
        BY DEF SetupInit
      <3>3. at = "off" /\ exit = "none" /\ troubles \in 0..MaxTroubles
        BY DEF SetupInit
      <3> QED BY <3>1, <3>2, <3>3 DEF SetupTypeOK
    <2>2. Achieved /\ Reported /\ SetupEndsReady /\ SetupRepairs /\ SuccessNeedsPip
      BY DEF SetupInit, Achieved, Reported, SetupEndsReady, SetupRepairs, SuccessNeedsPip
    <2> QED BY <2>1, <2>2 DEF SetupInv
  <1>2. SetupInv /\ [SetupNext]_setupVars => SetupInv'
    <2> SUFFICES ASSUME SetupInv, [SetupNext]_setupVars
                 PROVE  SetupInv'
      OBVIOUS
    <2> USE DEF SetupInv, SetupTypeOK, Achieved, Reported, SetupEndsReady, SetupRepairs,
            SuccessNeedsPip, Ready
    <2>1. CASE StartSetup
      BY <2>1 DEF StartSetup, envVars, Wanted
    <2>2. CASE StepDone
      BY <2>2, StepDoneKeeps
    <2>3. CASE Doctor
      <3>1. /\ at = "doctor" /\ at' = "off" /\ exit' \in {"failed", "ok"}
            /\ py' = py /\ pip' = pip /\ have' = have /\ console' = console
            /\ hooks' = hooks /\ calm' = calm /\ troubles' = troubles
        BY <2>3 DEF Doctor, envVars
      <3>2. calm => Ready /\ ~DoctorBlocks
        BY <3>1 DEF DoctorBlocks, Package
      <3>3. calm => exit' = "ok"
        BY <2>3, <3>2 DEF Doctor
      <3>4. SetupTypeOK' /\ Achieved' /\ Reported' /\ SetupRepairs' /\ SuccessNeedsPip'
        BY <2>3, <3>1, <3>3 DEF Doctor
      <3>5. SetupEndsReady'
        BY <3>1, <3>2 DEF Wanted
      <3> QED BY <3>4, <3>5
    <2>4. CASE StepFails
      BY <2>4 DEF StepFails, Wanted
    <2>5. CASE Kill
      <3>1. PICK e \in Torn : py' = e.py /\ pip' = e.pip /\ have' = e.have /\ console' = e.console
        BY <2>5 DEF Kill
      <3>2. /\ at' = "off" /\ exit' = "killed" /\ hooks' = hooks /\ calm' = calm
            /\ troubles < MaxTroubles /\ troubles' = troubles + 1
        BY <2>5 DEF Kill, Trouble
      <3> QED BY <3>1, <3>2, TornType
    <2>6. CASE DamageVenv
      <3>1. py' \in BOOLEAN /\ pip' \in BOOLEAN /\ have' \subseteq Package /\ console' \in BOOLEAN
        BY <2>6 DEF DamageVenv
      <3>2. /\ ~calm' /\ calm' \in BOOLEAN /\ hooks' = hooks /\ at' = at /\ exit' = exit
            /\ troubles < MaxTroubles /\ troubles' = troubles + 1
        BY <2>6 DEF DamageVenv, Trouble
      <3> QED BY <3>1, <3>2
    <2>7. CASE UNCHANGED setupVars
      BY <2>7 DEF setupVars, envVars, Wanted
    <2> QED BY <2>1, <2>2, <2>3, <2>4, <2>5, <2>6, <2>7 DEF SetupNext
  <1> QED BY <1>1, <1>2, PTL DEF SetupSpec

(* Every variable keeps its type. *)
THEOREM SetupTypeCorrect == SetupSpec => []SetupTypeOK
  <1>1. SetupInv => SetupTypeOK
    BY DEF SetupInv
  <1> QED BY <1>1, SetupInductive, PTL

(* A setup that reports success has left what every gate needs. *)
THEOREM SuccessMeansReady == SetupSpec => []SetupEndsReady
  <1>1. SetupInv => SetupEndsReady
    BY DEF SetupInv
  <1> QED BY <1>1, SetupInductive, PTL

(* One undisturbed call repairs whatever is left of a venv, or ends at a python *)
(* without pip.                                                                 *)
THEOREM OneCallRepairs == SetupSpec => []SetupRepairs
  <1>1. SetupInv => SetupRepairs
    BY DEF SetupInv
  <1> QED BY <1>1, SetupInductive, PTL

(* A call that nothing disturbs ends well only on a venv with a pip, *)
THEOREM PipNeeded == SetupSpec => []SuccessNeedsPip
  <1>1. SetupInv => SuccessNeedsPip
    BY DEF SetupInv
  <1> QED BY <1>1, SetupInductive, PTL

(* and a python without one is never given one: the operator has to delete it. *)
THEOREM PipNotRepaired == SetupSpec => PipStaysAway
  <1>1. ASSUME SetupInv, [SetupNext]_setupVars, py, ~pip
        PROVE  ~pip'
    <2> USE <1>1 DEF SetupInv, SetupTypeOK
    <2>1. CASE StepDone
      BY <2>1 DEF StepDone, VenvDone, ProbeVenv, InstallDone, ForceDone, PipDone, HookDone,
                  Proceed, envVars
    <2>2. CASE Kill
      <3>1. PICK e \in Torn : pip' = e.pip
        BY <2>2 DEF Kill
      <3>2. \/ e = [py |-> py, pip |-> pip, have |-> have, console |-> console]
            \/ ~py \/ ~e.pip \/ pip
        BY <3>1 DEF Torn
      <3>3. CASE e = [py |-> py, pip |-> pip, have |-> have, console |-> console]
        BY <3>1, <3>3, Zenon
      <3> QED BY <3>1, <3>2, <3>3
    <2>3. CASE StartSetup \/ Doctor \/ StepFails \/ DamageVenv \/ UNCHANGED setupVars
      BY <2>3 DEF StartSetup, Doctor, StepFails, DamageVenv, setupVars, envVars
    <2> QED BY <2>1, <2>2, <2>3 DEF SetupNext
  <1>2. SetupInv /\ [SetupNext]_setupVars => [py /\ ~pip => ~pip']_setupVars
    BY <1>1
  <1> QED BY <1>2, SetupInductive, PTL DEF SetupSpec, PipStaysAway

-----------------------------------------------------------------------------
(* The parts side by side *)

(* In the run over what is kept under .substrate every part does what it does *)
(* alone: what is proved of a part holds there too.                           *)
THEOREM SharedParts == SharedSpec => AnchorSpec /\ CooldownSpec /\ SetupSpec
  <1>1. SharedInit => AnchorInit /\ CooldownInit /\ SetupInit
    BY DEF SharedInit
  <1>2. [SharedNext]_SharedVars
           => [Next]_vars /\ [CooldownNext]_cooldownVars /\ [SetupNext]_setupVars
    BY DEF SharedNext, SharedVars
  <1> QED BY <1>1, <1>2, PTL DEF SharedSpec, AnchorSpec, CooldownSpec, SetupSpec
=============================================================================
