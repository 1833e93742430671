----------------------------- MODULE GatesProofs ------------------------------
(***************************************************************************)
(* Proofs about Gates for all configs, pins and faults, any number of      *)
(* gates that are run and any number of changes between their steps.       *)
(***************************************************************************)
EXTENDS Gates, TLAPS

-----------------------------------------------------------------------------
(* Plans as lists of steps *)

Steps == {"doctor_strict", "doctor_opsec", "doctor", "shadowing", "manifest", "drift",
          "syntax", "patterns", "policy", "harness_smoke", "hook_smoke", "harness",
          "config", "secrets", "history", "memory", "cooldown", "precommit", "evals",
          "audit", "pytest", "ruff", "postmortem"} \cup Commands

Has(s, x) == \E i \in 1..Len(s) : s[i] = x

(* Steps that may run commands of the project *)
Running == Commands \cup {"precommit", "ruff", "pytest"}

NoneRuns(s) == \A i \in 1..Len(s) : s[i] \notin Running

(* What comes before the validation of the config runs nothing. *)
ConfigFirst(s) ==
    \A i, j \in 1..Len(s) : s[j] = "config" /\ i <= j => s[i] \notin Running

LEMMA Concat ==
    ASSUME NEW s \in Seq(Steps), NEW t \in Seq(Steps)
    PROVE  /\ s \o t \in Seq(Steps)
           /\ \A x : Has(s \o t, x) <=> Has(s, x) \/ Has(t, x)
           /\ NoneRuns(s) /\ NoneRuns(t) => NoneRuns(s \o t)
           /\ ConfigFirst(s) /\ ~Has(t, "config") => ConfigFirst(s \o t)
  <1> DEFINE u == s \o t
  <1>1. /\ u \in Seq(Steps) /\ Len(u) = Len(s) + Len(t) /\ Len(s) \in Nat /\ Len(t) \in Nat
        /\ \A i \in 1..Len(s) : u[i] = s[i]
        /\ \A i \in 1..Len(t) : u[Len(s) + i] = t[i]
    OBVIOUS
  <1> HIDE DEF u
  <1>2. \A i \in 1..Len(u) : i \in 1..Len(s) \/ \E j \in 1..Len(t) : i = Len(s) + j
    <2>1. ASSUME NEW i \in 1..Len(u), i \notin 1..Len(s)
          PROVE  i - Len(s) \in 1..Len(t) /\ i = Len(s) + (i - Len(s))
      BY <1>1, <2>1
    <2> QED BY <2>1
  <1>3. \A i \in 1..Len(s) : i \in 1..Len(u)
    BY <1>1
  <1>4. \A i \in 1..Len(t) : Len(s) + i \in 1..Len(u)
    BY <1>1
  <1>5. \A x : Has(u, x) <=> Has(s, x) \/ Has(t, x)
    BY <1>1, <1>2, <1>3, <1>4 DEF Has
  <1>6. NoneRuns(s) /\ NoneRuns(t) => NoneRuns(u)
    BY <1>1, <1>2 DEF NoneRuns
  <1>7. ConfigFirst(s) /\ ~Has(t, "config") => ConfigFirst(u)
    <2>1. SUFFICES ASSUME ConfigFirst(s), ~Has(t, "config"), NEW i \in 1..Len(u),
                          NEW j \in 1..Len(u), u[j] = "config", i <= j
                   PROVE  u[i] \notin Running
      BY DEF ConfigFirst
    <2>2. j \in 1..Len(s)
      BY <1>1, <1>2, <2>1 DEF Has
    <2>3. i \in 1..Len(s)
      BY <1>1, <2>1, <2>2
    <2> QED BY <1>1, <2>1, <2>2, <2>3 DEF ConfigFirst
  <1> QED BY <1>1, <1>5, <1>6, <1>7 DEF u

LEMMA NoneRunsConfigFirst ==
    ASSUME NEW s, NoneRuns(s) PROVE ConfigFirst(s)
  BY DEF NoneRuns, ConfigFirst

LEMMA IfHas ==
    ASSUME NEW b, NEW s \in Seq(Steps)
    PROVE  /\ If(b, s) \in Seq(Steps)
           /\ \A x : Has(If(b, s), x) <=> b /\ Has(s, x)
           /\ NoneRuns(s) => NoneRuns(If(b, s))
  <1>1. CASE b
    BY <1>1 DEF If
  <1>2. CASE ~b
    BY <1>2 DEF If, Has, NoneRuns
  <1> QED BY <1>1, <1>2

LEMMA IfOne ==
    ASSUME NEW b, NEW c \in Steps
    PROVE  /\ If(b, <<c>>) \in Seq(Steps)
           /\ \A x : Has(If(b, <<c>>), x) <=> b /\ x = c
  <1>1. <<c>> \in Seq(Steps)
    OBVIOUS
  <1>2. \A x : Has(<<c>>, x) <=> x = c
    BY DEF Has
  <1> QED BY <1>1, <1>2, IfHas

LEMMA TailHas ==
    ASSUME NEW s \in Seq(Steps), s # <<>>
    PROVE  /\ Tail(s) \in Seq(Steps) /\ Has(s, Head(s))
           /\ \A x : Has(s, x) => x = Head(s) \/ Has(Tail(s), x)
           /\ \A x : Has(Tail(s), x) => Has(s, x)
           /\ ConfigFirst(s) => ConfigFirst(Tail(s))
           /\ ConfigFirst(s) /\ Has(s, "config") => Head(s) \notin Running
  <1> DEFINE t == Tail(s)
  <1>1. /\ t \in Seq(Steps) /\ Len(t) = Len(s) - 1 /\ Len(s) \in Nat /\ Len(s) > 0
        /\ Head(s) = s[1]
        /\ \A i \in 1..Len(t) : t[i] = s[i + 1]
    OBVIOUS
  <1> HIDE DEF t
  <1>2. \A i \in 1..Len(s) : i = 1 \/ (i - 1 \in 1..Len(t) /\ i = (i - 1) + 1)
    BY <1>1
  <1>3. \A i \in 1..Len(t) : i + 1 \in 1..Len(s)
    BY <1>1
  <1>4. \A x : Has(s, x) => x = Head(s) \/ Has(t, x)
    BY <1>1, <1>2 DEF Has
  <1>5. \A x : Has(t, x) => Has(s, x)
    BY <1>1, <1>3 DEF Has
  <1>6. ConfigFirst(s) => ConfigFirst(t)
    <2>1. SUFFICES ASSUME ConfigFirst(s), NEW i \in 1..Len(t), NEW j \in 1..Len(t),
                          t[j] = "config", i <= j
                   PROVE  t[i] \notin Running
      BY DEF ConfigFirst
    <2>2. i + 1 \in 1..Len(s) /\ j + 1 \in 1..Len(s) /\ i + 1 <= j + 1
      BY <1>3, <2>1
    <2> QED BY <1>1, <2>1, <2>2 DEF ConfigFirst
  <1>7. ConfigFirst(s) /\ Has(s, "config") => Head(s) \notin Running
    BY <1>1 DEF ConfigFirst, Has
  <1>8. Has(s, Head(s))
    BY <1>1 DEF Has
  <1> QED BY <1>1, <1>4, <1>5, <1>6, <1>7, <1>8 DEF t

-----------------------------------------------------------------------------
(* What the plans hold *)

LEMMA ScansSteps ==
    /\ Scans \in Seq(Steps) /\ NoneRuns(Scans) /\ ~Has(Scans, "config")
    /\ \A x \in Security \ {"shadowing"} : Has(Scans, x)
    /\ Has(Scans, "drift")
  BY DEF Scans, NoneRuns, Has, Running, Commands, Security, Steps

LEMMA CommandStepsHave ==
    ASSUME NEW sh
    PROVE  /\ CommandSteps(sh) \in Seq(Steps) /\ ~Has(CommandSteps(sh), "config")
           /\ \A x \in Commands : x \in sh.cmds => Has(CommandSteps(sh), x)
  <1> DEFINE One(c) == If(c \in sh.cmds, <<c>>)
  <1>1. ASSUME NEW c \in Commands
        PROVE  One(c) \in Seq(Steps) /\ \A x : Has(One(c), x) <=> c \in sh.cmds /\ x = c
    BY IfOne DEF Steps
  <1> HIDE DEF One
  <1>0. "lint" \in Commands /\ "typecheck" \in Commands /\ "test" \in Commands
    BY DEF Commands
  <1>2. /\ One("lint") \o One("typecheck") \in Seq(Steps)
        /\ \A x : Has(One("lint") \o One("typecheck"), x)
                     <=> Has(One("lint"), x) \/ Has(One("typecheck"), x)
    BY <1>0, <1>1, Concat
  <1>3. CommandSteps(sh) = (One("lint") \o One("typecheck")) \o One("test")
    BY DEF CommandSteps, One
  <1> DEFINE Two == One("lint") \o One("typecheck")
  <1> HIDE DEF Two
  <1>4. /\ CommandSteps(sh) \in Seq(Steps)
        /\ \A x : Has(CommandSteps(sh), x) <=> Has(Two, x) \/ Has(One("test"), x)
    <2>1. Two \in Seq(Steps) /\ One("test") \in Seq(Steps) /\ CommandSteps(sh) = Two \o One("test")
      BY <1>0, <1>1, <1>2, <1>3 DEF Two
    <2> QED BY <2>1, Concat
  <1>5. \A x : Has(CommandSteps(sh), x) <=>
                  Has(One("lint"), x) \/ Has(One("typecheck"), x) \/ Has(One("test"), x)
    BY <1>2, <1>4 DEF Two
  <1> QED BY <1>0, <1>1, <1>4, <1>5 DEF Commands

LEMMA CheckPlanHas ==
    ASSUME NEW sh
    PROVE  /\ CheckPlan(sh) \in Seq(Steps) /\ ConfigFirst(CheckPlan(sh))
           /\ Has(CheckPlan(sh), "config") /\ Has(CheckPlan(sh), "precommit")
           /\ sh.remote = "1" => Has(CheckPlan(sh), "doctor_strict")
           /\ \A x \in Commands : x \in sh.cmds => Has(CheckPlan(sh), x)
  <1> DEFINE A == IF sh.remote = "1" THEN <<"doctor_strict">>
                                     ELSE If(sh.profile = "strict", <<"doctor_opsec">>)
             B == A \o <<"shadowing", "manifest">>
             C == B \o Scans
             D == C \o <<"harness", "config">>
             E == D \o If(sh.days # "0", <<"cooldown">>)
             F == E \o CommandSteps(sh)
  <1>1. /\ A \in Seq(Steps) /\ NoneRuns(A)
        /\ sh.remote = "1" => Has(A, "doctor_strict")
    BY DEF If, NoneRuns, Has, Running, Commands, Steps
  <1> HIDE DEF A
  <1>2. /\ B \in Seq(Steps) /\ NoneRuns(B)
        /\ sh.remote = "1" => Has(B, "doctor_strict")
    <2>1. <<"shadowing", "manifest">> \in Seq(Steps) /\ NoneRuns(<<"shadowing", "manifest">>)
      BY DEF NoneRuns, Running, Commands, Steps
    <2> QED BY <1>1, <2>1, Concat
  <1> HIDE DEF B
  <1>3. /\ C \in Seq(Steps) /\ NoneRuns(C)
        /\ sh.remote = "1" => Has(C, "doctor_strict")
    BY <1>2, ScansSteps, Concat
  <1> HIDE DEF C
  <1>4. /\ D \in Seq(Steps) /\ ConfigFirst(D) /\ Has(D, "config")
        /\ sh.remote = "1" => Has(D, "doctor_strict")
    <2>1. /\ <<"harness", "config">> \in Seq(Steps) /\ NoneRuns(<<"harness", "config">>)
          /\ Has(<<"harness", "config">>, "config")
      BY DEF NoneRuns, Running, Commands, Has, Steps
    <2> QED BY <1>3, <2>1, Concat, NoneRunsConfigFirst
  <1> HIDE DEF D
  <1>5. /\ E \in Seq(Steps) /\ ConfigFirst(E) /\ Has(E, "config")
        /\ sh.remote = "1" => Has(E, "doctor_strict")
    <2>1. /\ If(sh.days # "0", <<"cooldown">>) \in Seq(Steps)
          /\ ~Has(If(sh.days # "0", <<"cooldown">>), "config")
      BY IfOne DEF Steps
    <2> QED BY <1>4, <2>1, Concat
  <1> HIDE DEF E
  <1>6. /\ F \in Seq(Steps) /\ ConfigFirst(F) /\ Has(F, "config")
        /\ sh.remote = "1" => Has(F, "doctor_strict")
        /\ \A x \in Commands : x \in sh.cmds => Has(F, x)
    BY <1>5, CommandStepsHave, Concat
  <1> HIDE DEF F
  <1>7. /\ <<"precommit">> \in Seq(Steps) /\ Has(<<"precommit">>, "precommit")
        /\ ~Has(<<"precommit">>, "config")
    BY DEF Has, Steps, Commands
  <1>8. CheckPlan(sh) = F \o <<"precommit">>
    BY DEF CheckPlan, A, B, C, D, E, F
  <1>9. /\ CheckPlan(sh) \in Seq(Steps) /\ ConfigFirst(CheckPlan(sh))
        /\ \A x : Has(CheckPlan(sh), x) <=> Has(F, x) \/ Has(<<"precommit">>, x)
    <2> DEFINE L == <<"precommit">>
    <2>1. L \in Seq(Steps) /\ ~Has(L, "config")
      BY <1>7
    <2> HIDE DEF L
    <2>2. /\ F \o L \in Seq(Steps) /\ ConfigFirst(F \o L)
          /\ \A x : Has(F \o L, x) <=> Has(F, x) \/ Has(L, x)
      BY <1>6, <2>1, Concat
    <2> QED BY <1>8, <2>2 DEF L
  <1> QED BY <1>6, <1>7, <1>9

LEMMA ReleasePlanHas ==
    ASSUME NEW sh
    PROVE  /\ ReleasePlan(sh) \in Seq(Steps) /\ ConfigFirst(ReleasePlan(sh))
           /\ \A x \in {"config", "precommit", "doctor"} : Has(ReleasePlan(sh), x)
  <1> DEFINE A == <<"shadowing", "doctor", "manifest">>
             B == A \o Scans
             T == <<"harness", "config", "secrets", "history", "memory">>
             C == B \o T
             U == IF sh.lang = "python" THEN <<"pytest">> ELSE CommandSteps(sh)
             D == C \o U
             V == <<"precommit", "evals", "audit">>
  <1>1. A \in Seq(Steps) /\ NoneRuns(A) /\ Has(A, "doctor")
    BY DEF NoneRuns, Has, Running, Commands, Steps
  <1> HIDE DEF A
  <1>2. B \in Seq(Steps) /\ NoneRuns(B) /\ Has(B, "doctor")
    BY <1>1, ScansSteps, Concat
  <1> HIDE DEF B
  <1>3. T \in Seq(Steps) /\ NoneRuns(T) /\ Has(T, "config")
    BY DEF NoneRuns, Has, Running, Commands, Steps
  <1> HIDE DEF T
  <1>4. C \in Seq(Steps) /\ ConfigFirst(C) /\ Has(C, "doctor") /\ Has(C, "config")
    BY <1>2, <1>3, Concat, NoneRunsConfigFirst
  <1> HIDE DEF C
  <1>5. U \in Seq(Steps) /\ ~Has(U, "config")
    <2>1. <<"pytest">> \in Seq(Steps) /\ ~Has(<<"pytest">>, "config")
      BY DEF Has, Steps, Commands
    <2> QED BY <2>1, CommandStepsHave
  <1> HIDE DEF U
  <1>6. D \in Seq(Steps) /\ ConfigFirst(D) /\ Has(D, "doctor") /\ Has(D, "config")
    BY <1>4, <1>5, Concat
  <1> HIDE DEF D
  <1>7. V \in Seq(Steps) /\ ~Has(V, "config") /\ Has(V, "precommit")
    BY DEF Has, Steps, Commands
  <1> HIDE DEF V
  <1>8. ReleasePlan(sh) = D \o V
    BY DEF ReleasePlan, A, B, C, D, T, U, V
  <1> QED BY <1>6, <1>7, <1>8, Concat

LEMMA AuditPlansHave ==
    /\ QuickPlan \in Seq(Steps) /\ Has(QuickPlan, "doctor")
    /\ FullPlan \in Seq(Steps) /\ Has(FullPlan, "doctor")
  <1> DEFINE P == If({"no_venv", "no_pytest"} \cap faults = {}, <<"pytest">>)
             Q == If({"no_venv", "no_precommit"} \cap faults = {}, <<"precommit">>)
  <1>1. QuickPlan \in Seq(Steps) /\ Has(QuickPlan, "doctor")
    BY DEF QuickPlan, Has, Steps, Commands
  <1>2. P \in Seq(Steps) /\ Q \in Seq(Steps)
    BY IfOne DEF Steps
  <1> HIDE DEF P, Q
  <1>3. QuickPlan \o P \in Seq(Steps) /\ Has(QuickPlan \o P, "doctor")
    BY <1>1, <1>2, Concat
  <1>4. FullPlan = (QuickPlan \o P) \o Q
    BY DEF FullPlan, P, Q
  <1> QED BY <1>1, <1>2, <1>3, <1>4, Concat

LEMMA CommitPlanHas ==
    ASSUME NEW untouched
    PROVE  /\ CommitPlan(untouched) \in Seq(Steps)
           /\ \A x \in Security \cup Texts \cup {"config"} : Has(CommitPlan(untouched), x)
           /\ PythonTree => Has(CommitPlan(untouched), "pytest")
  <1> DEFINE A == <<"shadowing", "manifest">>
             B == A \o Scans
             T == <<"config", "harness", "secrets", "history">>
             C == B \o T
             R == If("ruff" \notin untouched, <<"ruff">>)
             U == If(PythonTree, R \o <<"pytest">>)
             D == C \o U
             V == If("postmortem" \notin untouched, <<"postmortem">>)
  <1>1. A \in Seq(Steps) /\ Has(A, "shadowing") /\ Has(A, "manifest")
    BY DEF Has, Steps, Commands
  <1> HIDE DEF A
  <1>2. B \in Seq(Steps) /\ (\A x \in Security \cup {"manifest", "drift"} : Has(B, x))
    BY <1>1, ScansSteps, Concat
  <1> HIDE DEF B
  <1>3. T \in Seq(Steps) /\ (\A x \in {"config", "harness", "secrets", "history"} : Has(T, x))
    BY DEF Has, Steps, Commands
  <1> HIDE DEF T
  <1>4. C \in Seq(Steps) /\ (\A x \in Security \cup Texts \cup {"config"} : Has(C, x))
    BY <1>2, <1>3, Concat DEF Texts
  <1> HIDE DEF C
  <1>5. R \in Seq(Steps) /\ <<"pytest">> \in Seq(Steps) /\ Has(<<"pytest">>, "pytest")
    <2>1. R \in Seq(Steps)
      BY IfOne DEF Steps
    <2>2. <<"pytest">> \in Seq(Steps) /\ Has(<<"pytest">>, "pytest")
      BY DEF Has, Steps, Commands
    <2> QED BY <2>1, <2>2
  <1> HIDE DEF R
  <1>6. R \o <<"pytest">> \in Seq(Steps) /\ Has(R \o <<"pytest">>, "pytest")
    BY <1>5, Concat
  <1>7. U \in Seq(Steps) /\ (PythonTree => Has(U, "pytest"))
    BY <1>6, IfHas
  <1> HIDE DEF U
  <1>8. /\ D \in Seq(Steps) /\ (\A x \in Security \cup Texts \cup {"config"} : Has(D, x))
        /\ PythonTree => Has(D, "pytest")
    BY <1>4, <1>7, Concat
  <1> HIDE DEF D
  <1>9. V \in Seq(Steps)
    BY IfOne DEF Steps
  <1> HIDE DEF V
  <1>10. CommitPlan(untouched) = D \o V
    BY DEF CommitPlan, A, B, C, D, R, T, U, V
  <1> QED BY <1>8, <1>9, <1>10, Concat

-----------------------------------------------------------------------------
(* Types *)

ShellType == [profile : {"starter", "standard", "strict"},
              lang : {"python", "node", "go", "none"}, sandbox : {"0", "1"},
              remote : {"0", "1"}, days : {"0", "00", "7"},
              cmds : SUBSET Commands, via : {"direct", "lang_gate"}]

GateType ==
    /\ shell \in ShellType
    /\ script \in Script /\ failed \in BOOLEAN /\ moved \in BOOLEAN /\ steady \subseteq Faults
    /\ verdict \in {"none", "pass", "block"}
    /\ ran \subseteq Outcome
    /\ skips \subseteq [cmd : Commands, opted : BOOLEAN]

WorldType ==
    /\ config \in Configs \cup {Absent} /\ pins \in Pins
    /\ ambient \in {"0", "1"} /\ backend \in Backends
    /\ faults \subseteq Faults /\ edits \in 0..MaxEdits

LEMMA TypeParts == TypeOK <=> WorldType /\ GateType
  BY DEF TypeOK, WorldType, GateType, ShellType

LEMMA ShellTyped == ASSUME WorldType PROVE Shell(config) \in ShellType
  <1>1. CASE config = Absent
    BY <1>1 DEF Shell, ShellType, WorldType
  <1>2. CASE config # Absent
    <2>1. config \in Config
      BY <1>2, GatesAssumption DEF WorldType, GatesAssumption
    <2>2. (IF config.sandbox = "unset" THEN ambient ELSE config.sandbox) \in {"0", "1"}
      BY <2>1 DEF Config, WorldType
    <2>3. config.cmds \in SUBSET Commands
      BY <2>1 DEF Config
    <2> QED BY <1>2, <2>1, <2>2, <2>3 DEF Shell, ShellType, Config
  <1> QED BY <1>1, <1>2

LEMMA WorldStep ==
    ASSUME WorldType, Edit PROVE WorldType'
  <1>1. edits' \in 0..MaxEdits
    BY GatesAssumption DEF Edit, WorldType, GatesAssumption
  <1>2. faults' \subseteq Faults /\ config' \in Configs \cup {Absent} /\ backend' \in Backends
    BY DEF Edit, WorldType
  <1> QED BY <1>1, <1>2 DEF Edit, WorldType

LEMMA BooleanFacts ==
    ASSUME NEW step
    PROVE  /\ InnerSandbox \in BOOLEAN /\ OptedIn \in BOOLEAN
           /\ Runs(step) \subseteq Commands \cup {"ruff", "pytest"}
           /\ Did(step) \subseteq Outcome
  <1>1. Runs(step) \subseteq Commands \cup {"ruff", "pytest"}
    BY DEF Runs
  <1>2. (Sandboxed(step) /\ backend = "ok") \in BOOLEAN
    OBVIOUS
  <1> QED BY <1>1, <1>2 DEF InnerSandbox, OptedIn, Did, Outcome

LEMMA TypeInit == Init => WorldType /\ GateType
  <1> SUFFICES ASSUME Init PROVE WorldType /\ GateType
    OBVIOUS
  <1>1. WorldType
    BY GatesAssumption DEF Init, WorldType, GatesAssumption
  <1>2. shell \in ShellType
    BY <1>1 DEF Init, Shell, ShellType, WorldType
  <1>3. GateType
    BY <1>2 DEF Init, GateType, Script
  <1> QED BY <1>1, <1>3

LEMMA StartType ==
    ASSUME WorldType, GateType, (\E s \in Script \ {"commit"} : Start(s)) \/ StartCommit
    PROVE  WorldType' /\ GateType'
  <1>1. UNCHANGED world /\ script' \in Script /\ failed' = FALSE /\ ran' = {} /\ skips' = {}
        /\ moved' = FALSE /\ steady' = faults
    BY DEF Start, StartCommit, Begin, Script
  <1>2. shell' \in ShellType
    BY ShellTyped DEF Start, StartCommit, GateType
  <1>3. verdict' \in {"none", "pass", "block"}
    BY DEF Start, StartCommit
  <1>4. WorldType'
    BY <1>1 DEF WorldType, world
  <1>5. GateType'
    BY <1>1, <1>2, <1>3 DEF GateType, WorldType
  <1> QED BY <1>4, <1>5

LEMMA AfterType ==
    ASSUME GateType, NEW ok \in BOOLEAN, After(ok)
    PROVE  failed' \in BOOLEAN /\ verdict' \in {"none", "pass", "block"}
  BY DEF After, GateType

LEMMA StepType ==
    ASSUME WorldType, GateType, Step
    PROVE  WorldType' /\ GateType'
  <1>1. PICK ok \in BOOLEAN : After(ok)
    <2>1. Outcomes(Head(rest)) \subseteq BOOLEAN
      BY DEF Outcomes
    <2> QED BY <2>1 DEF Step
  <1>2. ran' \subseteq Outcome
    BY BooleanFacts DEF Step, GateType
  <1>3. WorldType'
    BY DEF Step, WorldType, world
  <1>4. GateType'
    BY <1>1, <1>2, AfterType DEF Step, GateType
  <1> QED BY <1>3, <1>4

LEMMA LangGateType ==
    ASSUME WorldType, GateType, LangGate
    PROVE  WorldType' /\ GateType'
  <1> DEFINE step == Head(rest)
             runs == InnerRuns /\ ~GoFmt(step)
             new == [cmd |-> step, contained |-> shell.sandbox = "1" \/ InnerSandbox]
             skip == [cmd |-> step, opted |-> OptedIn]
  <1>1. step \in Commands
    BY DEF LangGate, CallsLangGate
  <1> HIDE DEF step
  <1>2. new \in Outcome
    BY <1>1, BooleanFacts DEF Outcome
  <1>3. skip \in [cmd : Commands, opted : BOOLEAN]
    BY <1>1, BooleanFacts
  <1>4. /\ ran' \subseteq ran \cup {new}
        /\ skips' \subseteq skips \cup {skip}
        /\ \E ok \in BOOLEAN : After(ok)
    <2>1. CASE (shell.sandbox = "1" /\ backend # "ok") \/ ~Loads(config)
      BY <2>1 DEF LangGate
    <2>2. CASE ~((shell.sandbox = "1" /\ backend # "ok") \/ ~Loads(config))
      <3>1. /\ After(~(GoFmt(step) /\ step \in faults))
            /\ ran' = ran \cup (IF runs THEN {new} ELSE {})
            /\ skips' = skips \cup (IF GoFmt(step) \/ (runs /\ step \notin faults) THEN {}
                                    ELSE {skip})
        BY <2>2 DEF LangGate, step
      <3> QED BY <3>1
    <2> QED BY <2>1, <2>2
  <1> HIDE DEF new, skip, runs
  <1>5. WorldType'
    BY DEF LangGate, WorldType, world
  <1>6. GateType'
    BY <1>2, <1>3, <1>4, AfterType DEF LangGate, GateType
  <1> QED BY <1>5, <1>6

LEMMA TypeStep == WorldType /\ GateType /\ [Next]_vars => WorldType' /\ GateType'
  <1> SUFFICES ASSUME WorldType, GateType, [Next]_vars PROVE WorldType' /\ GateType'
    OBVIOUS
  <1>1. CASE Finish
    BY <1>1 DEF Finish, WorldType, GateType, world
  <1>2. CASE Edit
    <2>1. steady' \subseteq Faults /\ moved' \in BOOLEAN
      BY <1>2 DEF Edit, GateType
    <2>2. UNCHANGED <<script, shell, failed, verdict, ran, skips>>
      BY <1>2 DEF Edit
    <2> QED BY <1>2, <2>1, <2>2, WorldStep DEF GateType
  <1>3. CASE UNCHANGED vars
    BY <1>3 DEF vars, world, gate, WorldType, GateType
  <1> QED BY <1>1, <1>2, <1>3, StartType, StepType, LangGateType DEF Next

(* Whatever gates are run and whatever the author changes meanwhile, a gate *)
(* and the world it judges are well formed.                                 *)
THEOREM GatesTypeCorrect == Spec => []TypeOK
  <1>1. WorldType /\ GateType => TypeOK
    BY TypeParts
  <1> QED BY <1>1, TypeInit, TypeStep, PTL DEF Spec

-----------------------------------------------------------------------------
(* The invariant *)

(* Where the config was validated, and there is one *)
Checked == config # Absent => LocksHold(config) /\ ~config.danger

(* Steps that every run of the gate has to take *)
Needs ==
    CASE script = "check" -> {"config", "precommit"}
                             \cup (IF shell.remote = "1" THEN {"doctor_strict"} ELSE {})
                             \cup (IF shell.via = "direct" THEN shell.cmds ELSE {})
      [] script = "release" -> {"config", "precommit", "doctor"}
      [] script = "commit" -> Security \cup Texts \cup {"config"}
                              \cup (IF PythonTree THEN {"pytest"} ELSE {})
      [] OTHER -> {"doctor"}

(* What such a step has shown once it has passed *)
Shown(step) == Sees(step) \cap steady = {} /\ (step = "config" => Checked)

(* A gate that may still pass has each of these steps before it or behind it. *)
NothingMissed ==
    ~moved /\ ~failed /\ verdict # "block" => \A step \in Needs : Has(rest, step) \/ Shown(step)

Bookkeeping ==
    /\ rest \in Seq(Steps) /\ steady \subseteq faults
    /\ rest # <<>> => verdict = "none"
    /\ verdict = "pass" => ~failed /\ rest = <<>>
    /\ ~moved /\ script # "commit" /\ verdict # "block" => shell = Shell(config)

(* A check and a release stop at a failure, and run nothing of the project *)
(* before they have validated the config.                                  *)
Stopping ==
    script \in {"check", "release"} =>
        /\ rest # <<>> => ~failed
        /\ ConfigFirst(rest)
        /\ Has(rest, "config") => ran = {}
        /\ ~moved /\ ran # {} => Checked
        /\ ~moved /\ config # Absent /\ config.sandbox = "1" => \A r \in ran : r.contained

(* The full audit does not hide the failure of the tests it runs. *)
AuditTests ==
    script = "full_audit" /\ ~moved /\ ~failed /\ "pytest" \in steady => \A r \in ran : r.cmd # "pytest"

GatesInv == WorldType /\ GateType /\ NothingMissed /\ Bookkeeping /\ Stopping /\ AuditTests

LEMMA InvInit == Init => GatesInv
  <1> SUFFICES ASSUME Init PROVE GatesInv
    OBVIOUS
  <1>1. rest \in Seq(Steps) /\ rest = <<>>
    BY DEF Init
  <1>2. ConfigFirst(rest) /\ ~Has(rest, "config")
    BY <1>1 DEF ConfigFirst, Has
  <1>3. WorldType /\ GateType
    BY TypeInit
  <1>4. NothingMissed /\ Bookkeeping /\ AuditTests
    BY <1>1 DEF Init, NothingMissed, Bookkeeping, AuditTests
  <1>5. Stopping
    BY <1>1, <1>2 DEF Init, Stopping
  <1> QED BY <1>3, <1>4, <1>5 DEF GatesInv

(* A gate begins with all its steps before it. *)
LEMMA StartInv ==
    ASSUME GatesInv, (\E s \in Script \ {"commit"} : Start(s)) \/ StartCommit
    PROVE  GatesInv'
  <1>1. WorldType' /\ GateType'
    BY StartType DEF GatesInv
  <1>2. /\ ran' = {} /\ moved' = FALSE /\ failed' = FALSE /\ steady' = faults
        /\ config' = config /\ pins' = pins /\ ambient' = ambient /\ faults' = faults
    BY DEF Start, StartCommit, Begin, world
  <1>3. AuditTests'
    BY <1>2 DEF AuditTests
  <1>4. ASSUME rest' = <<>>, verdict' = "block" PROVE GatesInv'
    <2>1. rest' \in Seq(Steps) /\ ~Has(rest', "config") /\ ConfigFirst(rest')
      BY <1>4 DEF Has, ConfigFirst
    <2>2. NothingMissed' /\ Bookkeeping'
      BY <1>2, <1>4, <2>1 DEF NothingMissed, Bookkeeping
    <2>3. Stopping'
      BY <1>2, <1>4, <2>1 DEF Stopping, Has, ConfigFirst
    <2> QED BY <1>1, <1>3, <2>2, <2>3 DEF GatesInv
  <1>5. ASSUME verdict' = "none", rest' \in Seq(Steps),
               \A step \in Needs' : Has(rest', step),
               script' \in {"check", "release"} => ConfigFirst(rest'),
               script' # "commit" => shell' = Shell(config)
        PROVE  GatesInv'
    <2>1. NothingMissed'
      BY <1>5 DEF NothingMissed, Has
    <2>2. Shell(config)' = Shell(config)
      BY <1>2 DEF Shell
    <2>3. Bookkeeping'
      BY <1>2, <1>5, <2>2 DEF Bookkeeping
    <2>4. Stopping'
      BY <1>2, <1>5 DEF Stopping, Has, ConfigFirst
    <2> QED BY <1>1, <1>3, <2>1, <2>3, <2>4 DEF GatesInv
  <1>6. ASSUME NEW s \in Script \ {"commit"}, Start(s) PROVE GatesInv'
    <2>1. CASE ~Loads(config)
      BY <1>4, <1>6, <2>1 DEF Start
    <2>2. CASE Loads(config)
      <3> DEFINE sh == Shell(config)
      <3>1. shell' = sh /\ rest' = Plan(s, sh) /\ verdict' = "none" /\ script' = s
        BY <1>6, <2>2 DEF Start, Begin
      <3>2. sh.cmds \subseteq Commands
        BY ShellTyped DEF GatesInv, ShellType
      <3> HIDE DEF sh
      <3>3. CASE s = "check"
        <4>1. rest' = CheckPlan(sh)
          BY <3>1, <3>3 DEF Plan
        <4>2. Needs' = {"config", "precommit"}
                       \cup (IF sh.remote = "1" THEN {"doctor_strict"} ELSE {})
                       \cup (IF sh.via = "direct" THEN sh.cmds ELSE {})
          BY <3>1, <3>3 DEF Needs
        <4>3. \A step \in Needs' : Has(rest', step)
          BY <3>2, <4>1, <4>2, CheckPlanHas
        <4> QED BY <1>5, <3>1, <3>3, <4>1, <4>3, CheckPlanHas DEF sh
      <3>4. CASE s = "release"
        <4>1. rest' = ReleasePlan(sh)
          BY <3>1, <3>4 DEF Plan
        <4>2. Needs' = {"config", "precommit", "doctor"}
          BY <3>1, <3>4 DEF Needs
        <4> QED BY <1>5, <3>1, <4>1, <4>2, ReleasePlanHas DEF sh
      <3>5. CASE s \in {"audit", "full_audit"}
        <4>1. rest' = QuickPlan \/ rest' = FullPlan
          BY <3>1, <3>5 DEF Plan
        <4>2. Needs' = {"doctor"}
          BY <3>1, <3>5 DEF Needs
        <4> QED BY <1>5, <3>1, <3>5, <4>1, <4>2, AuditPlansHave DEF sh
      <3> QED BY <3>3, <3>4, <3>5 DEF Script
    <2> QED BY <2>1, <2>2
  <1>7. ASSUME StartCommit PROVE GatesInv'
    <2>1. PICK untouched \in SUBSET {"ruff", "postmortem"} : rest' = CommitPlan(untouched)
      BY <1>7 DEF StartCommit
    <2>2. script' = "commit" /\ verdict' = "none"
      BY <1>7 DEF StartCommit, Begin
    <2>3. Needs' = Security \cup Texts \cup {"config"}
                   \cup (IF PythonTree THEN {"pytest"} ELSE {})
      BY <1>2, <2>2 DEF Needs, PythonTree
    <2>4. \A step \in Needs' : Has(rest', step)
      BY <2>1, <2>3, CommitPlanHas
    <2> QED BY <1>5, <2>1, <2>2, <2>4, CommitPlanHas
  <1> QED BY <1>6, <1>7

(* A step that passes has shown what it is there to show. *)
LEMMA PassShows ==
    ASSUME Bookkeeping, NEW step, ~Fails(step)
    PROVE  Shown(step)
  <1>1. Sees(step) \cap steady = {}
    BY DEF Fails, Bookkeeping
  <1>2. step = "config" => Checked
    BY DEF Fails, ConfigOK, Checked
  <1> QED BY <1>1, <1>2 DEF Shown

(* The rest of the gate after a step of it *)
LEMMA AfterRest ==
    ASSUME GatesInv, rest # <<>>, NEW ok \in BOOLEAN, After(ok)
    PROVE  /\ rest' \in Seq(Steps)
           /\ ok => failed' = failed /\ rest' = Tail(rest) /\ verdict' = "none"
           /\ ~ok => failed'
           /\ rest' = Tail(rest) \/ (rest' = <<>> /\ verdict' = "block")
           /\ Has(rest', "config") => Has(rest, "config")
           /\ ConfigFirst(rest) => ConfigFirst(rest')
           /\ StopsAtFailure /\ ~ok => rest' = <<>>
           /\ verdict' \in {"none", "block"}
  <1>1. rest \in Seq(Steps) /\ verdict = "none" /\ failed \in BOOLEAN
    BY DEF GatesInv, Bookkeeping, GateType
  <1>2. ~Has(<<>>, "config") /\ ConfigFirst(<<>>) /\ <<>> \in Seq(Steps)
    BY DEF Has, ConfigFirst
  <1>3. CASE ok
    <2>1. failed' = failed /\ rest' = Tail(rest) /\ verdict' = "none"
      BY <1>1, <1>3 DEF After
    <2> QED BY <1>1, <1>3, <2>1, TailHas
  <1>4. CASE ~ok
    <2>1. failed'
      BY <1>4 DEF After
    <2>2. CASE StopsAtFailure
      <3>1. rest' = <<>> /\ verdict' = "block"
        BY <1>4, <2>2 DEF After
      <3> QED BY <1>2, <1>4, <2>1, <3>1
    <2>3. CASE ~StopsAtFailure
      <3>1. rest' = Tail(rest) /\ verdict' = "none"
        BY <1>1, <1>4, <2>3 DEF After
      <3> QED BY <1>1, <1>4, <2>1, <2>3, <3>1, TailHas
    <2> QED BY <2>2, <2>3
  <1> QED BY <1>3, <1>4

(* While the config and the pins stay, the steps see the same. *)
LEMMA SeesStays ==
    ASSUME UNCHANGED <<config, pins>>, NEW step
    PROVE  Sees(step)' = Sees(step) /\ Checked' = Checked /\ PythonTree' = PythonTree
  <1>1. RemoteOn' = RemoteOn /\ PythonTree' = PythonTree /\ Cooldown' = Cooldown
    BY DEF RemoteOn, PythonTree, Cooldown
  <1>2. Doctor("full")' = Doctor("full") /\ Doctor("strict")' = Doctor("strict")
        /\ Doctor("opsec")' = Doctor("opsec")
    BY <1>1 DEF Doctor
  <1>3. Sees(step)' = Sees(step)
    BY <1>1, <1>2 DEF Sees
  <1>4. Checked' = Checked
    BY DEF Checked, LocksHold
  <1> QED BY <1>1, <1>3, <1>4

LEMMA NeedsStays ==
    ASSUME UNCHANGED <<config, pins, script, shell>>
    PROVE  Needs' = Needs
  BY DEF Needs, PythonTree

LEMMA ShownStays ==
    ASSUME UNCHANGED <<config, pins>>, steady' \subseteq steady, NEW step, Shown(step)
    PROVE  Shown(step)'
  BY SeesStays DEF Shown

(* The part of the invariant that speaks of the steps before a gate *)
LEMMA AfterInv ==
    ASSUME GatesInv, rest # <<>>, NEW ok \in BOOLEAN, After(ok),
           UNCHANGED <<world, script, shell, moved, steady>>,
           ok /\ Head(rest) \in Needs => Shown(Head(rest))
    PROVE  NothingMissed' /\ Bookkeeping'
  <1>1. UNCHANGED <<config, pins, ambient, backend, faults>>
    BY DEF world
  <1>2. /\ rest' \in Seq(Steps) /\ verdict' \in {"none", "block"}
        /\ rest' # <<>> => verdict' = "none"
    <2>1. verdict = "none"
      BY DEF GatesInv, Bookkeeping
    <2> QED BY <2>1, AfterRest DEF After
  <1>3. Bookkeeping'
    <2>1. Shell(config)' = Shell(config)
      BY <1>1 DEF Shell
    <2>2. verdict' # "block" => verdict # "block"
      BY DEF GatesInv, Bookkeeping
    <2> QED BY <1>1, <1>2, <2>1, <2>2 DEF Bookkeeping, GatesInv
  <1>4. NothingMissed'
    <2>1. SUFFICES ASSUME ~moved', ~failed', verdict' # "block", NEW step \in Needs'
                   PROVE  Has(rest', step) \/ Shown(step)'
      BY DEF NothingMissed
    <2>2. ok
      BY <2>1, AfterRest
    <2>3. step \in Needs /\ ~moved /\ ~failed /\ verdict # "block"
      BY <1>1, <2>1, <2>2, NeedsStays, AfterRest DEF GatesInv, Bookkeeping
    <2>4. Has(rest, step) \/ Shown(step)
      BY <2>3 DEF GatesInv, NothingMissed
    <2>5. Has(Tail(rest), step) \/ Shown(step)
      <3>1. rest \in Seq(Steps)
        BY DEF GatesInv, Bookkeeping
      <3>2. Has(rest, step) => step = Head(rest) \/ Has(Tail(rest), step)
        BY <3>1, TailHas
      <3> QED BY <2>2, <2>3, <2>4, <3>2
    <2>6. rest' = Tail(rest)
      BY <2>2, AfterRest
    <2> QED BY <1>1, <2>5, <2>6, ShownStays
  <1> QED BY <1>3, <1>4

(* What the config asks of a step that runs in a check or a release *)
LEMMA RunIsContained ==
    ASSUME GatesInv, rest # <<>>, script \in {"check", "release"}, ~moved,
           config # Absent, config.sandbox = "1"
    PROVE  shell.sandbox = "1" /\ \A step, r : r \in Did(step) => r.contained
  <1>1. shell = Shell(config)
    BY DEF GatesInv, Bookkeeping
  <1>2. Shell(config).sandbox = "1"
    BY DEF Shell
  <1>3. ASSUME NEW step, NEW r \in Did(step) PROVE r.contained
    <2>1. Sandboxed(step)
      BY <1>1, <1>2 DEF Sandboxed
    <2>2. ~Refuses(step)
      BY <1>3 DEF Did
    <2>3. r \in [cmd : Runs(step), contained : {Sandboxed(step) /\ backend = "ok"}]
      BY <1>3, <2>2 DEF Did
    <2>4. Runs(step) # {} /\ r.contained = (Sandboxed(step) /\ backend = "ok")
      BY <2>3
    <2>5. backend = "ok"
      BY <2>1, <2>2, <2>4 DEF Refuses
    <2> QED BY <2>1, <2>4, <2>5
  <1> QED BY <1>1, <1>2, <1>3

(* The config has been validated when a check or a release runs something. *)
LEMMA RunIsChecked ==
    ASSUME GatesInv, rest # <<>>, script \in {"check", "release"}, ~moved,
           Head(rest) \in Running
    PROVE  Checked
  <1>1. rest \in Seq(Steps) /\ verdict = "none" /\ ~failed /\ ConfigFirst(rest)
    BY DEF GatesInv, Bookkeeping, Stopping
  <1>2. ~Has(rest, "config")
    BY <1>1, TailHas
  <1>3. "config" \in Needs
    BY DEF Needs
  <1> QED BY <1>1, <1>2, <1>3 DEF GatesInv, NothingMissed, Shown

LEMMA RunsRunning ==
    ASSUME NEW step, Did(step) # {} PROVE step \in Running
  BY DEF Did, Runs, Running

LEMMA StepInv ==
    ASSUME GatesInv, Step
    PROVE  GatesInv'
  <1> DEFINE step == Head(rest)
  <1>1. /\ rest # <<>> /\ ~CallsLangGate(step) /\ ran' = ran \cup Did(step)
        /\ UNCHANGED <<world, script, shell, skips, moved, steady>>
    BY DEF Step
  <1>2. PICK ok \in Outcomes(step) : After(ok)
    BY DEF Step
  <1>3. ok \in BOOLEAN /\ (ok => ~Fails(step))
    BY <1>2 DEF Outcomes
  <1>4. UNCHANGED <<config, pins, ambient, backend, faults>>
    BY <1>1 DEF world
  <1> HIDE DEF step
  <1>5. WorldType' /\ GateType'
    BY StepType DEF GatesInv
  <1>6. ok => Shown(step)
    BY <1>3, PassShows DEF GatesInv
  <1>7. NothingMissed' /\ Bookkeeping'
    BY <1>1, <1>2, <1>3, <1>6, AfterInv DEF step
  <1>8. Stopping'
    <2>1. SUFFICES ASSUME script \in {"check", "release"}
                   PROVE  /\ rest' # <<>> => ~failed'
                          /\ ConfigFirst(rest')
                          /\ Has(rest', "config") => ran' = {}
                          /\ ~moved /\ ran' # {} => Checked'
                          /\ ~moved /\ config # Absent /\ config.sandbox = "1"
                                => \A r \in ran' : r.contained
      BY <1>1, <1>4 DEF Stopping, Has, ConfigFirst
    <2>2. /\ ~failed /\ ConfigFirst(rest) /\ (Has(rest, "config") => ran = {})
          /\ ~moved /\ ran # {} => Checked
          /\ ~moved /\ config # Absent /\ config.sandbox = "1" => \A r \in ran : r.contained
          /\ rest \in Seq(Steps)
      BY <1>1, <2>1 DEF GatesInv, Stopping, Bookkeeping
    <2>3. StopsAtFailure
      BY <2>1 DEF StopsAtFailure
    <2>4. rest' # <<>> => ~failed'
      BY <1>1, <1>2, <1>3, <2>2, <2>3, AfterRest
    <2>5. ConfigFirst(rest')
      BY <1>1, <1>2, <1>3, <2>2, AfterRest
    <2>6. Has(rest', "config") => ran' = {}
      <3>1. Has(rest, "config") => step \notin Running
        BY <1>1, <2>2, TailHas DEF step
      <3> QED BY <1>1, <1>2, <1>3, <2>2, <3>1, AfterRest, RunsRunning
    <2>7. ~moved /\ ran' # {} => Checked'
      <3>1. ~moved /\ ran' # {} => Checked
        <4>1. ~moved /\ Did(step) # {} => Checked
          BY <1>1, <2>1, RunIsChecked, RunsRunning DEF step
        <4> QED BY <1>1, <2>2, <4>1
      <3> QED BY <1>4, <3>1, SeesStays
    <2>8. ASSUME ~moved, config # Absent, config.sandbox = "1", NEW r \in ran'
          PROVE  r.contained
      <3>1. CASE r \in ran
        BY <2>2, <2>8, <3>1
      <3>2. CASE r \in Did(step)
        BY <1>1, <2>1, <2>8, <3>2, RunIsContained
      <3> QED BY <1>1, <3>1, <3>2
    <2> QED BY <2>4, <2>5, <2>6, <2>7, <2>8
  <1>9. AuditTests'
    <2>1. SUFFICES ASSUME script = "full_audit", ~moved, ~failed', "pytest" \in steady,
                          NEW r \in ran'
                   PROVE  r.cmd # "pytest"
      BY <1>1 DEF AuditTests
    <2>2. ok /\ ~failed /\ "pytest" \in faults
      BY <1>1, <1>2, <1>3, <2>1, AfterRest DEF GatesInv, Bookkeeping
    <2>3. CASE r \in ran
      BY <2>1, <2>2, <2>3 DEF GatesInv, AuditTests
    <2>4. CASE r \in Did(step)
      <3>1. r.cmd \in Runs(step)
        BY <2>4 DEF Did
      <3>2. ~Fails(step)
        BY <1>3, <2>2
      <3>3. "pytest" \notin Sees(step)
        BY <2>2, <3>2 DEF Fails
      <3>4. SUFFICES ASSUME "pytest" \in Runs(step) PROVE FALSE
        BY <3>1
      <3>5. step = "pytest" \/ (step = "precommit" /\ PythonTree)
        BY <3>4 DEF Runs, Commands
      <3> QED BY <3>3, <3>5 DEF Sees
    <2> QED BY <1>1, <2>3, <2>4
  <1> QED BY <1>5, <1>7, <1>8, <1>9 DEF GatesInv

LEMMA LangGateInv ==
    ASSUME GatesInv, LangGate
    PROVE  GatesInv'
  <1> DEFINE step == Head(rest)
             runs == InnerRuns /\ ~GoFmt(step)
             new == [cmd |-> step, contained |-> shell.sandbox = "1" \/ InnerSandbox]
  <1>1. /\ rest # <<>> /\ step \in Commands /\ shell.via = "lang_gate"
        /\ UNCHANGED <<world, script, shell, moved, steady>>
    BY DEF LangGate, CallsLangGate
  <1>2. PICK ok \in BOOLEAN : After(ok) /\ ran \subseteq ran' /\ ran' \subseteq ran \cup {new}
    <2>1. CASE (shell.sandbox = "1" /\ backend # "ok") \/ ~Loads(config)
      BY <2>1 DEF LangGate
    <2>2. CASE ~((shell.sandbox = "1" /\ backend # "ok") \/ ~Loads(config))
      <3>1. /\ After(~(GoFmt(step) /\ step \in faults))
            /\ ran' = ran \cup (IF runs THEN {new} ELSE {})
        BY <2>2 DEF LangGate
      <3> QED BY <3>1
    <2> QED BY <2>1, <2>2
  <1>3. UNCHANGED <<config, pins, ambient, backend, faults>>
    BY <1>1 DEF world
  <1>4. new.cmd = step /\ (shell.sandbox = "1" => new.contained)
    OBVIOUS
  <1> HIDE DEF step, new, runs
  <1>5. WorldType' /\ GateType'
    BY LangGateType DEF GatesInv
  <1>6. step \in Running /\ step # "pytest" /\ step \notin Needs
    <2>1. step \notin Security \cup Texts \cup {"config", "precommit", "doctor", "doctor_strict",
                                               "pytest"}
      BY <1>1 DEF Commands, Security, Texts
    <2>2. Needs \subseteq Security \cup Texts \cup {"config", "precommit", "doctor",
                                                   "doctor_strict", "pytest"}
      BY <1>1 DEF Needs
    <2> QED BY <1>1, <2>1, <2>2 DEF Running
  <1>7. NothingMissed' /\ Bookkeeping'
    BY <1>1, <1>2, <1>6, AfterInv DEF step
  <1>8. Stopping'
    <2>1. SUFFICES ASSUME script \in {"check", "release"}
                   PROVE  /\ rest' # <<>> => ~failed'
                          /\ ConfigFirst(rest')
                          /\ Has(rest', "config") => ran' = {}
                          /\ ~moved /\ ran' # {} => Checked'
                          /\ ~moved /\ config # Absent /\ config.sandbox = "1"
                                => \A r \in ran' : r.contained
      BY <1>1, <1>3 DEF Stopping, Has, ConfigFirst
    <2>2. /\ ~failed /\ ConfigFirst(rest) /\ rest \in Seq(Steps)
          /\ ~moved /\ config # Absent /\ config.sandbox = "1" => \A r \in ran : r.contained
      BY <1>1, <2>1 DEF GatesInv, Stopping, Bookkeeping
    <2>3. StopsAtFailure
      BY <2>1 DEF StopsAtFailure
    <2>4. rest' # <<>> => ~failed'
      BY <1>1, <1>2, <2>2, <2>3, AfterRest
    <2>5. ConfigFirst(rest') /\ ~Has(rest', "config")
      BY <1>1, <1>2, <1>6, <2>2, AfterRest, TailHas DEF step
    <2>6. ~moved => Checked'
      <3>1. ~moved => Checked
        BY <1>1, <1>6, <2>1, RunIsChecked DEF step
      <3> QED BY <1>3, <3>1, SeesStays
    <2>7. ASSUME ~moved, config # Absent, config.sandbox = "1", NEW r \in ran'
          PROVE  r.contained
      <3>1. shell.sandbox = "1"
        BY <1>1, <2>1, <2>7, RunIsContained
      <3> QED BY <1>2, <1>4, <2>2, <2>7, <3>1
    <2> QED BY <2>4, <2>5, <2>6, <2>7
  <1>9. AuditTests'
    <2>1. SUFFICES ASSUME script = "full_audit", ~moved, ~failed', "pytest" \in steady,
                          NEW r \in ran'
                   PROVE  r.cmd # "pytest"
      BY <1>1 DEF AuditTests
    <2>2. ~failed
      BY <1>1, <1>2, <2>1, AfterRest
    <2> QED BY <1>2, <1>4, <1>6, <2>1, <2>2 DEF GatesInv, AuditTests
  <1> QED BY <1>5, <1>7, <1>8, <1>9 DEF GatesInv

LEMMA FinishInv ==
    ASSUME GatesInv, Finish
    PROVE  GatesInv'
  <1>1. /\ rest = <<>> /\ verdict = "none"
        /\ verdict' = IF failed THEN "block" ELSE "pass"
        /\ UNCHANGED <<config, pins, ambient, backend, faults, script, shell, rest, failed, ran,
                       moved, steady>>
    BY DEF Finish, world
  <1>2. WorldType' /\ GateType'
    BY TypeStep DEF GatesInv, Next
  <1>3. Bookkeeping'
    <2>1. Shell(config)' = Shell(config) /\ failed \in BOOLEAN
      BY <1>1 DEF Shell, GatesInv, GateType
    <2> QED BY <1>1, <2>1 DEF GatesInv, Bookkeeping
  <1>4. NothingMissed'
    <2>1. Needs' = Needs
      BY <1>1, NeedsStays
    <2>2. \A step : Shown(step) => Shown(step)'
      BY <1>1, ShownStays
    <2> QED BY <1>1, <2>1, <2>2 DEF GatesInv, NothingMissed, Has
  <1>5. Stopping'
    <2>1. Checked' = Checked
      BY <1>1, SeesStays
    <2> QED BY <1>1, <2>1 DEF GatesInv, Stopping, Has, ConfigFirst
  <1>6. AuditTests'
    BY <1>1 DEF GatesInv, AuditTests
  <1> QED BY <1>2, <1>3, <1>4, <1>5, <1>6 DEF GatesInv

(* A change of the config ends what the gate can vouch for; a fault that is *)
(* mended is steady no more.                                                *)
LEMMA EditInv ==
    ASSUME GatesInv, Edit
    PROVE  GatesInv'
  <1>1. /\ moved' = (moved \/ config' # config) /\ steady' = steady \cap faults'
        /\ UNCHANGED <<pins, ambient, script, shell, rest, failed, verdict, ran>>
    BY DEF Edit
  <1>2. WorldType' /\ GateType'
    BY TypeStep DEF GatesInv, Next
  <1>3. ~moved' => ~moved /\ config' = config
    BY <1>1
  <1>4. Bookkeeping'
    <2>1. ~moved' => Shell(config)' = Shell(config)
      BY <1>1, <1>3 DEF Shell
    <2> QED BY <1>1, <1>3, <2>1 DEF GatesInv, Bookkeeping
  <1>5. NothingMissed'
    <2>1. SUFFICES ASSUME ~moved', ~failed', verdict' # "block", NEW step \in Needs'
                   PROVE  Has(rest', step) \/ Shown(step)'
      BY DEF NothingMissed
    <2>2. UNCHANGED <<config, pins>> /\ steady' \subseteq steady
      BY <1>1, <1>3, <2>1
    <2>3. step \in Needs
      BY <1>1, <2>1, <2>2, NeedsStays
    <2>4. Has(rest, step) \/ Shown(step)
      BY <1>1, <1>3, <2>1, <2>3 DEF GatesInv, NothingMissed
    <2> QED BY <1>1, <2>2, <2>4, ShownStays DEF Has
  <1>6. Stopping'
    <2>1. ~moved' => Checked' = Checked
      BY <1>1, <1>3, SeesStays
    <2> QED BY <1>1, <1>3, <2>1 DEF GatesInv, Stopping, Has, ConfigFirst
  <1>7. AuditTests'
    BY <1>1, <1>3 DEF GatesInv, AuditTests
  <1> QED BY <1>2, <1>4, <1>5, <1>6, <1>7 DEF GatesInv

LEMMA InvStep == GatesInv /\ [Next]_vars => GatesInv'
  <1> SUFFICES ASSUME GatesInv, [Next]_vars PROVE GatesInv'
    OBVIOUS
  <1>1. CASE UNCHANGED vars
    <2>1. UNCHANGED <<config, pins, ambient, backend, faults, script, shell, rest, failed,
                      verdict, ran, moved, steady>>
      BY <1>1 DEF vars, world, gate
    <2>2. WorldType' /\ GateType'
      BY <1>1, TypeStep DEF GatesInv
    <2>3. Needs' = Needs /\ Checked' = Checked /\ Shell(config)' = Shell(config)
      BY <2>1, NeedsStays, SeesStays DEF Shell
    <2>4. \A step : Shown(step) => Shown(step)'
      BY <2>1, ShownStays
    <2>5. NothingMissed' /\ Bookkeeping'
      BY <2>1, <2>3, <2>4 DEF GatesInv, NothingMissed, Bookkeeping, Has
    <2>6. Stopping' /\ AuditTests'
      BY <2>1, <2>3 DEF GatesInv, Stopping, AuditTests, Has, ConfigFirst
    <2> QED BY <2>2, <2>5, <2>6 DEF GatesInv
  <1> QED BY <1>1, StartInv, StepInv, LangGateInv, FinishInv, EditInv DEF Next

LEMMA GatesInvariant == Spec => []GatesInv
  BY InvInit, InvStep, PTL DEF Spec

-----------------------------------------------------------------------------
(* What a gate that has passed has shown *)

LEMMA PassedShows ==
    ASSUME GatesInv, verdict = "pass", ~moved, NEW step \in Needs
    PROVE  Shown(step)
  <1>1. ~failed /\ rest = <<>>
    BY DEF GatesInv, Bookkeeping
  <1> QED BY <1>1 DEF GatesInv, NothingMissed, Has

(* Where a check, a release or a commit passes under a config, the config keeps *)
(* the pinned minima, however gates and changes alternate.                      *)
THEOREM PassKeepsFloor == Spec => []PinnedFloor
  <1>1. GatesInv => PinnedFloor
    <2>1. SUFFICES ASSUME GatesInv, Passed({"check", "release", "commit"}), config # Absent
                   PROVE  /\ Rank(Shell(config).profile) >= Rank(pins.profile)
                          /\ pins.sandbox => Shell(config).sandbox = "1"
                          /\ pins.remote => RemoteOn
      BY DEF PinnedFloor
    <2>2. "config" \in Needs
      BY <2>1 DEF Needs, Passed
    <2>3. LocksHold(config)
      BY <2>1, <2>2, PassedShows DEF Passed, Shown, Checked
    <2>4. Shell(config).profile = config.profile
          /\ (config.sandbox = "1" => Shell(config).sandbox = "1")
      BY <2>1 DEF Shell
    <2> QED BY <2>1, <2>3, <2>4 DEF LocksHold, RemoteOn
  <1> QED BY <1>1, GatesInvariant, PTL

(* A check and a release run none of the project's commands before they have *)
(* validated the config, and none outside the sandbox that it asks for.      *)
THEOREM ValidatedFirst == Spec => []ValidatedBeforeRun
  <1>1. GatesInv => ValidatedBeforeRun
    BY DEF GatesInv, Stopping, Checked, LocksHold, ValidatedBeforeRun
  <1> QED BY <1>1, GatesInvariant, PTL

(* No gate passes over a fault that stays: the steps that see it are in its plan *)
(* and none of them is masked, skipped or stale.                                 *)
THEOREM CleanPass == Spec => []PassMeansClean
  <1>1. GatesInv => PassMeansClean
    <2> SUFFICES ASSUME GatesInv, verdict = "pass", ~moved PROVE PassMeansClean
      BY DEF PassMeansClean, Passed
    <2>1. \A step \in Needs : Sees(step) \cap steady = {}
      BY PassedShows DEF Shown
    <2>2. ~failed /\ script \in Script
      BY DEF GatesInv, Bookkeeping, GateType
    <2>3. script # "commit" => shell = Shell(config)
      BY DEF GatesInv, Bookkeeping
    <2>4. CASE script \in {"check", "release"}
      <3>1. "precommit" \in Needs
        BY <2>4 DEF Needs
      <3>2. (Security \cup Texts) \cap steady = {} /\ (PythonTree => "pytest" \notin steady)
        BY <2>1, <3>1 DEF Sees
      <3>3. RemoteOn =>
               steady \cap {"files", "codeowners", "trusted_base", "memory", "no_venv"} = {}
        <4>1. SUFFICES ASSUME RemoteOn
                       PROVE  \E d \in Needs : {"files", "codeowners", "trusted_base", "memory",
                                                "no_venv"} \subseteq Sees(d)
          BY <2>1
        <4>2. shell.remote = "1"
          BY <2>3, <2>4, <4>1 DEF RemoteOn, Shell
        <4>3. "doctor" \in Needs \/ "doctor_strict" \in Needs
          BY <2>4, <4>2 DEF Needs
        <4>4. {"files", "codeowners", "trusted_base", "memory", "no_venv"} \subseteq Sees("doctor")
          BY <4>1 DEF Sees, Doctor, Operational
        <4>5. {"files", "codeowners", "trusted_base", "memory", "no_venv"}
                 \subseteq Sees("doctor_strict")
          BY <4>1 DEF Sees, Doctor, Operational
        <4> QED BY <4>3, <4>4, <4>5
      <3>4. script = "check" /\ shell.via = "direct" => steady \cap shell.cmds = {}
        <4>1. SUFFICES ASSUME script = "check", shell.via = "direct", NEW c \in shell.cmds
                       PROVE  c \notin steady
          OBVIOUS
        <4>2. c \in Needs /\ c \in Commands
          BY <4>1 DEF Needs, GatesInv, GateType, ShellType
        <4>3. Sees(c) = {c}
          BY <4>2 DEF Sees, Commands
        <4> QED BY <2>1, <4>2, <4>3
      <3> QED BY <2>4, <3>2, <3>3, <3>4 DEF PassMeansClean, Passed, Texts
    <2>5. CASE script = "commit"
      <3>1. Security \cup Texts \subseteq Needs /\ (PythonTree => "pytest" \in Needs)
        BY <2>5 DEF Needs
      <3>2. \A step \in Security \cup Texts \cup {"pytest"} : Sees(step) = {step}
        BY DEF Sees, Security, Texts
      <3>3. (Security \cup Texts) \cap steady = {} /\ (PythonTree => "pytest" \notin steady)
        BY <2>1, <3>1, <3>2
      <3> QED BY <2>5, <3>3 DEF PassMeansClean, Passed, Texts
    <2>6. CASE script \in {"audit", "full_audit"}
      <3>1. "doctor" \in Needs
        BY <2>6 DEF Needs
      <3>2. Security \cup {"manifest", "harness"} \subseteq Sees("doctor")
        BY DEF Sees, Doctor
      <3>3. RemoteOn => {"files", "codeowners", "trusted_base", "memory", "no_venv"}
                           \subseteq Sees("doctor")
        BY DEF Sees, Doctor, Operational
      <3>4. script = "full_audit" /\ "pytest" \in steady => \A r \in ran : r.cmd # "pytest"
        BY <2>2 DEF GatesInv, AuditTests
      <3>5. /\ steady \cap (Security \cup {"manifest", "harness"}) = {}
            /\ RemoteOn =>
                  steady \cap {"files", "codeowners", "trusted_base", "memory", "no_venv"} = {}
        BY <2>1, <3>1, <3>2, <3>3
      <3> QED BY <2>6, <3>4, <3>5 DEF PassMeansClean, Passed
    <2> QED BY <2>2, <2>4, <2>5, <2>6 DEF Script
  <1> QED BY <1>1, GatesInvariant, PTL

(* What the header of check_substrate_config.py says holds wherever there is a   *)
(* config: a check that passes has run at the pinned profile or above.           *)
THEOREM FloorWithConfig == Spec => [](config # Absent => FloorHolds)
  <1>1. GatesInv /\ PinnedFloor => (config # Absent => FloorHolds)
    BY DEF GatesInv, Bookkeeping, PinnedFloor, FloorHolds, Passed
  <1> QED BY <1>1, GatesInvariant, PassKeepsFloor, PTL

(* A repository that has nothing wrong is not kept from passing by any gate. *)
THEOREM CleanIsNotBlocked == Spec => []NoFalseAlarm
  <1> DEFINE Clean == edits = 0 /\ faults = {} /\ backend = "ok" /\ config # Absent /\ ConfigOK
  <1>1. Init => NoFalseAlarm
    BY DEF Init, NoFalseAlarm
  <1>2. ASSUME GatesInv, NoFalseAlarm, [Next]_vars
        PROVE  NoFalseAlarm'
    <2> SUFFICES ASSUME Clean' PROVE ~failed'
      BY DEF NoFalseAlarm
    <2>1. CASE Edit
      <3>1. edits \in Nat /\ edits' = edits + 1
        BY <1>2, <2>1, GatesAssumption DEF GatesInv, WorldType, Edit, GatesAssumption
      <3> QED BY <3>1
    <2>2. CASE ~Edit
      <3>1. UNCHANGED <<config, pins, ambient, backend, faults, edits>>
        BY <1>2, <2>2 DEF Next, Start, StartCommit, Begin, Step, LangGate, Finish, vars, world
      <3>2. Clean /\ ~failed
        BY <1>2, <3>1 DEF ConfigOK, LocksHold, NoFalseAlarm
      <3>3. Loads(config) /\ (\A step : ~Refuses(step) /\ ~Ambient(step))
        BY <3>2 DEF Loads, ConfigOK, Refuses, PythonGate, Ambient
      <3>4. CASE Step
        <4>1. ~Fails(Head(rest))
          BY <3>2, <3>3 DEF Fails
        <4>2. Outcomes(Head(rest)) = {TRUE}
          BY <3>3, <4>1 DEF Outcomes
        <4> QED BY <3>2, <3>4, <4>2 DEF Step, After
      <3>5. CASE LangGate
        BY <3>2, <3>3, <3>5 DEF LangGate, After
      <3> QED BY <1>2, <2>2, <3>2, <3>4, <3>5
              DEF Next, Start, StartCommit, Begin, Finish, vars, gate
    <2> QED BY <2>1, <2>2
  <1>3. GatesInv /\ NoFalseAlarm /\ [Next]_vars => NoFalseAlarm'
    BY <1>2
  <1> QED BY <1>1, <1>3, GatesInvariant, PTL DEF Spec
=============================================================================
