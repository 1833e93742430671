--------------------------- MODULE EvalRunnerProofs ---------------------------
(***************************************************************************)
(* Proofs about EvalRunner for every set of tasks and every number of      *)
(* workers.                                                                *)
(***************************************************************************)
EXTENDS EvalRunner, FiniteSetTheorems, TLAPS

(* The phases: the heavy tasks wait for the in-process ones, and the report *)
(* for all; only a run that is over has a verdict.                          *)
Phases ==
    /\ phase = "inproc" => \A t \in Heavy : status[t] = "todo"
    /\ phase \in {"heavy", "over"} => \A t \in Inproc : status[t] = "done"
    /\ phase = "over" => \A t \in Heavy : status[t] = "done"
    /\ verdict # "none" => phase = "over"

(* A task that is done has a record, no other has, and none is recorded as in *)
(* order but on the answer that it had to give, which it keeps.               *)
Records ==
    /\ \A t \in Task : rec[t] = "none" <=> status[t] # "done"
    /\ \A t \in Task \ {Probe} : rec[t] = "ok" => answer[t] = Expected(t)
    /\ rec[Probe] = "ok" => sandbox
    /\ verdict = "pass" => Passed

(* In-process tasks have no processes; a heavy task has one only while it runs, *)
(* but for what subprocess.run leaves behind, which answers for nobody.         *)
Families ==
    /\ \A t \in Inproc : family[t] = {}
    /\ \A t \in Task : status[t] # "running" => "child" \notin family[t]
    /\ \A t \in Task \ Plain : status[t] # "running" => family[t] = {}

(* The trace names the batch while it is in flight. *)
Batch == phase = "heavy" /\ traced => Heavy \subseteq progress.current

EvalInv == TypeOK /\ Phases /\ Records /\ Families /\ Batch /\ TraceNamesTasks

-----------------------------------------------------------------------------

LEMMA Tasks ==
    /\ Inproc \subseteq Task /\ Heavy \subseteq Task /\ Plain \subseteq Heavy
    /\ Probe \in Heavy /\ Probe \notin Plain /\ Probe \notin Inproc
    /\ Inproc \cap Heavy = {} /\ \A t \in Task : t \in Inproc \/ t \in Heavy
  BY EvalAssumption DEF EvalAssumption, Task

LEMMA InvInit == Init => EvalInv
  <1> SUFFICES ASSUME Init PROVE EvalInv
    OBVIOUS
  <1>1. NoTrace \in [current : SUBSET Task, done : SUBSET Task]
        /\ NoTrace.current = {} /\ NoTrace.done = {}
    BY DEF NoTrace
  <1>2. TypeOK
    BY <1>1 DEF Init, TypeOK, Answer
  <1>3. Phases /\ Records /\ Families /\ Batch
    BY Tasks DEF Init, Phases, Records, Families, Batch
  <1>4. TraceNamesTasks
    BY <1>1 DEF Init, TraceNamesTasks, Running
  <1> QED BY <1>2, <1>3, <1>4 DEF EvalInv

(* What a write of the partial trace leaves *)
LEMMA Writes ==
    ASSUME TypeOK, NEW c \in SUBSET Task, NEW d \in SUBSET Task, WriteProgress(c, d)
    PROVE  /\ progress' \in [current : SUBSET Task, done : SUBSET Task] /\ traced' \in BOOLEAN
           /\ traced' => progress'.current = c
           /\ progress'.done \subseteq progress.done \cup d
  <1>1. CASE progress' = [current |-> c, done |-> d] /\ traced' = TRUE
    <2>1. progress' \in [current : SUBSET Task, done : SUBSET Task]
      BY <1>1
    <2>2. progress'.current = c /\ progress'.done = d
      BY <1>1
    <2>3. traced' \in BOOLEAN
      BY <1>1
    <2> QED BY <2>1, <2>2, <2>3
  <1>2. CASE progress' \in {progress, NoTrace} /\ traced' = FALSE
    <2>1. NoTrace \in [current : SUBSET Task, done : SUBSET Task] /\ NoTrace.done = {}
      BY DEF NoTrace
    <2>2. progress \in [current : SUBSET Task, done : SUBSET Task]
      BY DEF TypeOK
    <2>3. ~traced' /\ traced' \in BOOLEAN
      BY <1>2
    <2> QED BY <1>2, <2>1, <2>2, <2>3
  <1> QED BY <1>1, <1>2 DEF WriteProgress

LEMMA RecordType ==
    ASSUME TypeOK, NEW t \in Task, NEW o \in {"ok", "failed", "skipped"}, Record(t, o)
    PROVE  /\ rec' \in [Task -> {"none", "ok", "failed", "skipped"}]
           /\ status' \in [Task -> {"todo", "running", "done"}]
           /\ rec'[t] = o /\ status'[t] = "done"
           /\ \A u \in Task \ {t} : rec'[u] = rec[u] /\ status'[u] = status[u]
  BY DEF Record, TypeOK

-----------------------------------------------------------------------------
(* The main thread *)

LEMMA StepInprocStart ==
    ASSUME EvalInv, NEW t \in Inproc, InprocStart(t)
    PROVE  EvalInv'
  <1> USE Tasks
  <1>1. /\ TypeOK /\ phase = "inproc" /\ status[t] = "todo" /\ Running(Inproc) = {}
        /\ WriteProgress({t}, Done(Inproc)) /\ armed' = TRUE
        /\ status' = [status EXCEPT ![t] = "running"]
        /\ UNCHANGED <<phase, family, answer, sandbox, rec, verdict>>
    BY DEF InprocStart, EvalInv
  <1>2. status'[t] = "running" /\ \A u \in Task \ {t} : status'[u] = status[u]
    BY <1>1 DEF TypeOK
  <1>3. /\ progress' \in [current : SUBSET Task, done : SUBSET Task] /\ traced' \in BOOLEAN
        /\ traced' => progress'.current = {t}
        /\ progress'.done \subseteq progress.done \cup Done(Inproc)
    BY <1>1, Writes DEF Done
  <1>4. TypeOK'
    BY <1>1, <1>3 DEF TypeOK
  <1>5. Phases'
    BY <1>1, <1>2 DEF EvalInv, Phases
  <1>6. Records' /\ Families' /\ Batch'
    BY <1>1, <1>2 DEF EvalInv, Phases, Records, Families, Batch, Passed, Expected
  <1>7. TraceNamesTasks'
    <2>1. Running(Task)' \subseteq {t}
      BY <1>1, <1>2 DEF EvalInv, Phases, Running
    <2>2. Done(Task)' = Done(Task) /\ Done(Inproc) \subseteq Done(Task)
      BY <1>1, <1>2 DEF Done
    <2> QED BY <1>3, <2>1, <2>2 DEF EvalInv, TraceNamesTasks
  <1> QED BY <1>4, <1>5, <1>6, <1>7 DEF EvalInv

(* A task ends with a record: of those in flight one is fewer. *)
LEMMA EndsNamed ==
    ASSUME EvalInv, NEW t \in Task, NEW o \in {"ok", "failed", "skipped"}, Record(t, o),
           status[t] # "done", UNCHANGED traceVars
    PROVE  TraceNamesTasks'
  <1>1. Running(Task)' \subseteq Running(Task) /\ Done(Task) \subseteq Done(Task)'
    BY RecordType DEF EvalInv, Running, Done
  <1> QED BY <1>1 DEF EvalInv, TraceNamesTasks, traceVars

LEMMA StepInprocEnds ==
    ASSUME EvalInv, NEW t \in Inproc, InprocReturn(t) \/ Alarm(t)
    PROVE  EvalInv'
  <1> USE Tasks
  <1>1. PICK a \in Answer, o \in {"ok", "failed"} :
           /\ answer' = [answer EXCEPT ![t] = a] /\ Record(t, o)
           /\ o = "ok" => a = Expected(t)
    BY DEF InprocReturn, Alarm, Answer, Judge
  <1>2. /\ TypeOK /\ phase = "inproc" /\ status[t] = "running" /\ armed' = FALSE
        /\ UNCHANGED <<phase, family, sandbox, traceVars, verdict>>
    BY DEF InprocReturn, Alarm, EvalInv
  <1>3. /\ rec' \in [Task -> {"none", "ok", "failed", "skipped"}]
        /\ status' \in [Task -> {"todo", "running", "done"}]
        /\ rec'[t] = o /\ status'[t] = "done"
        /\ \A u \in Task \ {t} : rec'[u] = rec[u] /\ status'[u] = status[u]
    BY <1>1, <1>2, RecordType
  <1>4. answer'[t] = a /\ answer' \in [Task -> Answer] /\ \A u \in Task \ {t} : answer'[u] = answer[u]
    BY <1>1, <1>2 DEF TypeOK
  <1>5. TypeOK'
    BY <1>2, <1>3, <1>4 DEF TypeOK, traceVars
  <1>6. Phases' /\ Batch'
    BY <1>2, <1>3 DEF EvalInv, Phases, Batch
  <1>7. Records'
    BY <1>1, <1>2, <1>3, <1>4 DEF EvalInv, Records, Phases, Expected
  <1>8. Families'
    BY <1>2, <1>3 DEF EvalInv, Families
  <1>9. TraceNamesTasks'
    BY <1>1, <1>2, EndsNamed
  <1> QED BY <1>5, <1>6, <1>7, <1>8, <1>9 DEF EvalInv

LEMMA StepSwallowed ==
    ASSUME EvalInv, NEW t \in Inproc, AlarmSwallowed(t)
    PROVE  EvalInv'
  BY DEF AlarmSwallowed, EvalInv, TypeOK, Phases, Records, Families, Batch, TraceNamesTasks,
         Passed, Expected, Running, Done, traceVars

LEMMA StepDispatch ==
    ASSUME EvalInv, Dispatch
    PROVE  EvalInv'
  <1> USE Tasks
  <1>1. /\ TypeOK /\ phase = "inproc" /\ phase' = "heavy" /\ Done(Inproc) = Inproc
        /\ WriteProgress(Heavy, Inproc)
        /\ UNCHANGED <<status, armed, family, answer, sandbox, rec, verdict>>
    BY DEF Dispatch, EvalInv
  <1>2. \A t \in Inproc : status[t] = "done"
    BY <1>1 DEF Done
  <1>3. /\ progress' \in [current : SUBSET Task, done : SUBSET Task] /\ traced' \in BOOLEAN
        /\ traced' => progress'.current = Heavy
        /\ progress'.done \subseteq progress.done \cup Inproc
    BY <1>1, Writes
  <1>4. TypeOK'
    BY <1>1, <1>3 DEF TypeOK
  <1>5. Phases' /\ Records' /\ Families' /\ Batch'
    BY <1>1, <1>2, <1>3 DEF EvalInv, Phases, Records, Families, Batch, Passed, Expected
  <1>6. TraceNamesTasks'
    <2>1. Running(Task)' = {}
      BY <1>1, <1>2 DEF EvalInv, Phases, Running
    <2>2. Done(Task)' = Done(Task) /\ Inproc \subseteq Done(Task)
      BY <1>1, <1>2 DEF Done
    <2> QED BY <1>3, <2>1, <2>2 DEF EvalInv, TraceNamesTasks
  <1> QED BY <1>4, <1>5, <1>6 DEF EvalInv

LEMMA StepReport ==
    ASSUME EvalInv, Report
    PROVE  EvalInv'
  <1> USE Tasks
  <1>1. /\ TypeOK /\ phase = "heavy" /\ phase' = "over" /\ Done(Heavy) = Heavy
        /\ verdict' = IF Passed THEN "pass" ELSE "block"
        /\ WriteProgress({}, Task)
        /\ UNCHANGED <<status, armed, family, answer, sandbox, rec>>
    BY DEF Report, EvalInv
  <1>2. \A t \in Task : status[t] = "done"
    BY <1>1 DEF Done, EvalInv, Phases
  <1>3. /\ progress' \in [current : SUBSET Task, done : SUBSET Task] /\ traced' \in BOOLEAN
        /\ progress'.done \subseteq progress.done \cup Task
    BY <1>1, Writes
  <1>4. TypeOK'
    BY <1>1, <1>3 DEF TypeOK
  <1>5. Phases' /\ Families' /\ Batch'
    BY <1>1, <1>2 DEF EvalInv, Phases, Families, Batch
  <1>6. Records'
    BY <1>1 DEF EvalInv, Records, Passed, Expected
  <1>7. TraceNamesTasks'
    BY <1>1, <1>2, <1>3 DEF TraceNamesTasks, Running, Done
  <1> QED BY <1>4, <1>5, <1>6, <1>7 DEF EvalInv

(* Where a kill may empty the trace, nothing is in flight. *)
LEMMA StepKilled ==
    ASSUME EvalInv, Killed
    PROVE  EvalInv'
  <1> USE Tasks
  <1>1. /\ TypeOK /\ phase \in {"inproc", "heavy"} /\ phase' = "killed"
        /\ UNCHANGED <<status, armed, family, answer, sandbox, rec, traced, verdict>>
        /\ progress' = progress \/ (progress' = NoTrace /\ Tracing)
    BY DEF Killed, EvalInv
  <1>2. NoTrace \in [current : SUBSET Task, done : SUBSET Task]
        /\ NoTrace.current = {} /\ NoTrace.done = {}
    BY DEF NoTrace
  <1>3. TypeOK'
    BY <1>1, <1>2 DEF TypeOK
  <1>4. Phases' /\ Records' /\ Families' /\ Batch'
    BY <1>1 DEF EvalInv, Phases, Records, Families, Batch, Passed, Expected
  <1>5. Tracing => Running(Task) = {}
    BY <1>1 DEF EvalInv, Phases, Tracing, Running, Done
  <1>6. Running(Task)' = Running(Task) /\ Done(Task)' = Done(Task)
    BY <1>1 DEF Running, Done
  <1>7. TraceNamesTasks'
    BY <1>1, <1>2, <1>5, <1>6 DEF EvalInv, TraceNamesTasks
  <1> QED BY <1>3, <1>4, <1>7 DEF EvalInv

-----------------------------------------------------------------------------
(* The pool *)

LEMMA StepSpawn ==
    ASSUME EvalInv, NEW t \in Heavy, Spawn(t)
    PROVE  EvalInv'
  <1> USE Tasks
  <1>1. /\ TypeOK /\ phase = "heavy" /\ status[t] = "todo"
        /\ status' = [status EXCEPT ![t] = "running"]
        /\ answer' = [answer EXCEPT ![t] = "through"]
        /\ UNCHANGED <<phase, armed, sandbox, rec, progress, traced, verdict>>
    BY DEF Spawn, EvalInv, traceVars
  <1>2. PICK f \in SUBSET Member : family' = [family EXCEPT ![t] = f]
    BY DEF Spawn, Member
  <1>3. /\ status'[t] = "running" /\ \A u \in Task \ {t} : /\ status'[u] = status[u]
                                                           /\ family'[u] = family[u]
                                                           /\ answer'[u] = answer[u]
    BY <1>1, <1>2 DEF TypeOK
  <1>4. TypeOK'
    BY <1>1, <1>2 DEF TypeOK, Answer
  <1>5. Phases' /\ Families' /\ Batch'
    BY <1>1, <1>3 DEF EvalInv, Phases, Families, Batch
  <1>6. Records'
    <2>1. rec[t] = "none"
      BY <1>1 DEF EvalInv, Records
    <2> QED BY <1>1, <1>3, <2>1 DEF EvalInv, Records, Passed, Expected
  <1>7. TraceNamesTasks'
    <2>1. Running(Task)' \subseteq Running(Task) \cup {t} /\ Done(Task)' = Done(Task)
      BY <1>1, <1>3 DEF Running, Done
    <2> QED BY <1>1, <2>1 DEF EvalInv, TraceNamesTasks, Batch
  <1> QED BY <1>4, <1>5, <1>6, <1>7 DEF EvalInv

(* A process ends or is killed, and its task goes on. *)
LEMMA StepProcess ==
    ASSUME EvalInv, NEW t \in Heavy, Timeout(t) \/ \E m \in Member : Exit(t, m)
    PROVE  EvalInv'
  <1> USE Tasks
  <1>1. /\ TypeOK /\ UNCHANGED <<phase, status, armed, sandbox, rec, progress, traced, verdict>>
    BY DEF Timeout, Exit, EvalInv, traceVars
  <1>2. /\ family' \in [Task -> SUBSET Member] /\ family'[t] \subseteq family[t]
        /\ \A u \in Task \ {t} : family'[u] = family[u]
    BY <1>1 DEF Timeout, Exit, TypeOK
  <1>3. /\ answer' \in [Task -> Answer]
        /\ \A u \in Task \ {t} : answer'[u] = answer[u]
        /\ answer' = answer \/ status[t] = "running"
    <2>1. CASE Timeout(t)
      BY <1>1, <2>1 DEF Timeout, Overdue, TypeOK, Answer
    <2>2. ASSUME NEW m \in Member, Exit(t, m) 
          PROVE  /\ answer' \in [Task -> Answer]
                 /\ \A u \in Task \ {t} : answer'[u] = answer[u]
                 /\ answer' = answer \/ status[t] = "running"
      <3>1. CASE m = "child"
        <4>1. status[t] = "running"
          BY <2>2, <3>1 DEF Exit, EvalInv, Families
        <4> QED BY <1>1, <2>2, <3>1, <4>1 DEF Exit, TypeOK, Answer
      <3>2. CASE m # "child"
        BY <1>1, <2>2, <3>2 DEF Exit, TypeOK
      <3> QED BY <3>1, <3>2
    <2> QED BY <2>1, <2>2
  <1>4. TypeOK'
    BY <1>1, <1>2, <1>3 DEF TypeOK
  <1>5. Phases' /\ Families' /\ Batch'
    BY <1>1, <1>2 DEF EvalInv, Phases, Families, Batch
  <1>6. Records'
    BY <1>1, <1>3 DEF EvalInv, Records, Passed, Expected
  <1>7. TraceNamesTasks'
    BY <1>1 DEF EvalInv, TraceNamesTasks, Running, Done
  <1> QED BY <1>4, <1>5, <1>6, <1>7 DEF EvalInv

(* The probe has found a sandbox. *)
LEMMA StepProbe ==
    ASSUME EvalInv, phase = "heavy", status[Probe] = "running", sandbox' = TRUE,
           NEW f \in SUBSET Member, family' = [family EXCEPT ![Probe] = f],
           UNCHANGED <<phase, status, armed, answer, rec, traceVars, verdict>>
    PROVE  EvalInv'
  <1> USE Tasks
  <1>1. /\ family' \in [Task -> SUBSET Member]
        /\ \A u \in Task \ {Probe} : family'[u] = family[u]
    BY DEF EvalInv, TypeOK
  <1>2. TypeOK'
    BY <1>1 DEF EvalInv, TypeOK, traceVars
  <1>3. Phases' /\ Records' /\ Families' /\ Batch'
    BY <1>1 DEF EvalInv, Phases, Records, Families, Batch, Passed, Expected, traceVars
  <1>4. TraceNamesTasks'
    BY DEF EvalInv, TraceNamesTasks, Running, Done, traceVars
  <1> QED BY <1>2, <1>3, <1>4 DEF EvalInv

(* A heavy task ends with a record. *)
LEMMA HeavyEnds ==
    ASSUME EvalInv, NEW t \in Heavy, NEW o \in {"ok", "failed", "skipped"}, Record(t, o),
           phase = "heavy", status[t] # "done",
           answer' \in [Task -> Answer], \A u \in Task \ {t} : answer'[u] = answer[u],
           o = "ok" /\ t # Probe => answer'[t] = Expected(t),
           o = "ok" /\ t = Probe => sandbox,
           family' \in [Task -> SUBSET Member], \A u \in Task \ {t} : family'[u] = family[u],
           "child" \notin family'[t], t \notin Plain => family'[t] = {},
           UNCHANGED <<phase, armed, sandbox, traceVars, verdict>>
    PROVE  EvalInv'
  <1> USE Tasks
  <1>1. /\ rec' \in [Task -> {"none", "ok", "failed", "skipped"}]
        /\ status' \in [Task -> {"todo", "running", "done"}]
        /\ rec'[t] = o /\ status'[t] = "done"
        /\ \A u \in Task \ {t} : rec'[u] = rec[u] /\ status'[u] = status[u]
    BY RecordType DEF EvalInv
  <1>2. TypeOK'
    BY <1>1 DEF EvalInv, TypeOK, traceVars
  <1>3. Phases' /\ Families' /\ Batch'
    BY <1>1 DEF EvalInv, Phases, Families, Batch, traceVars
  <1>4. Records'
    <2>1. verdict = "none" \/ verdict = "block"
      BY DEF EvalInv, TypeOK, Phases
    <2> QED BY <1>1, <2>1 DEF EvalInv, Records, Expected
  <1>5. TraceNamesTasks'
    BY EndsNamed
  <1> QED BY <1>2, <1>3, <1>4, <1>5 DEF EvalInv

LEMMA StepWorker ==
    ASSUME EvalInv, NEW t \in Heavy, Worker(t)
    PROVE  EvalInv'
  <1> USE Tasks
  <1>0. TypeOK /\ answer \in [Task -> Answer] /\ family \in [Task -> SUBSET Member]
    BY DEF EvalInv, TypeOK
  <1>1. CASE SpawnFails(t)
    <2>1. family[t] = {} \/ t \in Plain
      BY <1>1 DEF SpawnFails, EvalInv, Families
    <2>2. "child" \notin family[t]
      BY <1>1 DEF SpawnFails, EvalInv, Families
    <2> QED BY <1>0, <1>1, <2>1, <2>2, HeavyEnds DEF SpawnFails
  <1>2. CASE PlainTimeout(t)
    <2>1. family' \in [Task -> SUBSET Member] /\ "child" \notin family'[t]
          /\ \A u \in Task \ {t} : family'[u] = family[u]
      BY <1>0, <1>2 DEF PlainTimeout
    <2>2. answer' \in [Task -> Answer] /\ \A u \in Task \ {t} : answer'[u] = answer[u]
      BY <1>0, <1>2 DEF PlainTimeout, Answer
    <2> QED BY <1>2, <2>1, <2>2, HeavyEnds DEF PlainTimeout, Overdue
  <1>3. CASE Collect(t)
    <2>1. phase = "heavy" /\ status[t] = "running" /\ family[t] = {}
          /\ UNCHANGED <<phase, armed, answer, traceVars, verdict>>
      BY <1>3 DEF Collect
    <2>2. CASE t = Probe /\ ~sandbox /\ answer[t] = "through"
      <3>1. PICK f \in SUBSET Member : family' = [family EXCEPT ![Probe] = f]
        BY <1>3, <2>2 DEF Collect, Member
      <3>2. sandbox' = TRUE /\ UNCHANGED <<status, rec>>
        BY <1>3, <2>2 DEF Collect
      <3> QED BY <2>1, <2>2, <3>1, <3>2, StepProbe
    <2>3. CASE ~(t = Probe /\ ~sandbox /\ answer[t] = "through")
      <3>1. UNCHANGED <<sandbox, family>>
        BY <1>3, <2>3 DEF Collect
      <3>2. PICK o \in {"ok", "failed", "skipped"} :
               /\ Record(t, o)
               /\ o = "ok" /\ t # Probe => answer[t] = Expected(t)
               /\ o = "ok" /\ t = Probe => sandbox
        <4>1. CASE t = Probe
          <5>1. JudgeProbe(answer[t]) \in {"ok", "failed", "skipped"}
                /\ (JudgeProbe(answer[t]) = "ok" => sandbox)
            BY DEF JudgeProbe
          <5> QED BY <1>3, <2>3, <4>1, <5>1 DEF Collect
        <4>2. CASE t # Probe
          <5>1. Judge(t, answer[t]) \in {"ok", "failed"}
                /\ (Judge(t, answer[t]) = "ok" => answer[t] = Expected(t))
            BY DEF Judge
          <5> QED BY <1>3, <2>3, <4>2, <5>1 DEF Collect
        <4> QED BY <4>1, <4>2
      <3> QED BY <1>0, <2>1, <3>1, <3>2, HeavyEnds
    <2> QED BY <2>2, <2>3
  <1> QED BY <1>1, <1>2, <1>3, StepSpawn, StepProcess DEF Worker

-----------------------------------------------------------------------------
(* Every step, and the theorems *)

LEMMA InvStep == EvalInv /\ [Next]_vars => EvalInv'
  <1> SUFFICES ASSUME EvalInv, [Next]_vars PROVE EvalInv'
    OBVIOUS
  <1>1. CASE UNCHANGED vars
    BY <1>1 DEF vars, traceVars, EvalInv, TypeOK, Phases, Records, Families, Batch,
                TraceNamesTasks, Passed, Expected, Running, Done
  <1> QED BY <1>1, StepInprocStart, StepInprocEnds, StepSwallowed, StepDispatch, StepReport,
             StepKilled, StepProcess, StepWorker
          DEF Next, Inprocess

LEMMA EvalAlways == Spec => []EvalInv
  BY InvInit, InvStep, PTL DEF Spec

(* The suite's tasks, processes, records and trace stay well formed. *)
THEOREM EvalTypeCorrect == Spec => []TypeOK
  <1>1. EvalInv => TypeOK
    BY DEF EvalInv
  <1> QED BY <1>1, EvalAlways, PTL

(* Wherever the suite is killed, its partial trace names what was in flight if *)
(* it was written at all.                                                      *)
THEOREM TraceIsTrue == Spec => []TraceNamesTasks
  <1>1. EvalInv => TraceNamesTasks
    BY DEF EvalInv
  <1> QED BY <1>1, EvalAlways, PTL

(* A suite that has ended has left no process that _run started. *)
THEOREM NothingLivesOn == Spec => []NoOrphans
  <1>1. EvalInv => NoOrphans
    BY Tasks DEF EvalInv, Phases, Families, NoOrphans
  <1> QED BY <1>1, EvalAlways, PTL

(* A suite passes on measured answers alone: no timeout counts, and nothing that *)
(* was skipped where the sandbox is required.                                    *)
THEOREM PassIsProof == Spec => []PassIsMeasured
  <1>1. EvalInv => PassIsMeasured
    <2> SUFFICES ASSUME EvalInv, verdict = "pass" PROVE PassIsMeasured
      BY DEF PassIsMeasured
    <2>1. /\ \A t \in Task : status[t] = "done"
          /\ \A t \in Task : rec[t] # "failed"
          /\ Required => \A t \in Task : rec[t] # "skipped"
      BY Tasks DEF EvalInv, Phases, Records, Passed
    <2>2. \A t \in Task : rec[t] \in {"ok", "skipped"}
      BY <2>1 DEF EvalInv, TypeOK, Records
    <2> QED BY <2>1, <2>2, Tasks DEF EvalInv, Records, PassIsMeasured
  <1> QED BY <1>1, EvalAlways, PTL

(* A timeout is a failure for every task but the sandbox probe. *)
THEOREM OnlyProbe == Spec => []OnlyTheProbeForgives
  <1>1. EvalInv => OnlyTheProbeForgives
    BY DEF EvalInv, Records, OnlyTheProbeForgives, Expected
  <1> QED BY <1>1, EvalAlways, PTL

-----------------------------------------------------------------------------
(* Every run of the suite runs out of steps, and none gets stuck *)

LEMMA FreshStep ==
    ASSUME EvalInv, Fresh, [Next]_vars
    PROVE  Fresh'
  <1> USE DEF EvalInv, TypeOK, Fresh, Second
  <1>1. ASSUME NEW t \in Inproc, Inprocess(t)
        PROVE  Fresh'
    <2>1. /\ family' = family /\ sandbox' = sandbox
          /\ \A u \in Task : u # t => status'[u] = status[u] /\ answer'[u] = answer[u]
          /\ status'[t] # "todo"
      BY <1>1, Tasks DEF Inprocess, InprocStart, InprocReturn, Alarm, AlarmSwallowed, Record
    <2> QED BY <1>1, <2>1, Tasks
  <1>2. ASSUME NEW t \in Heavy, Spawn(t) \/ SpawnFails(t)
        PROVE  Fresh'
    BY <1>2, Tasks DEF Spawn, SpawnFails, Record
  <1>3. ASSUME NEW t \in Heavy, Timeout(t) \/ PlainTimeout(t)
        PROVE  Fresh'
    BY <1>3, Tasks DEF Timeout, PlainTimeout, Overdue, Record
  <1>4. ASSUME NEW t \in Heavy, Collect(t)
        PROVE  Fresh'
    <2>1. CASE t = Probe /\ ~sandbox /\ answer[t] = "through"
      BY <1>4, <2>1, Tasks DEF Collect
    <2>2. CASE ~(t = Probe /\ ~sandbox /\ answer[t] = "through")
      BY <1>4, <2>2, Tasks DEF Collect, Record
    <2> QED BY <2>1, <2>2
  <1>5. ASSUME NEW t \in Heavy, NEW m \in Member, Exit(t, m)
        PROVE  Fresh'
    BY <1>5, Tasks DEF Exit
  <1>6. CASE Dispatch \/ Report \/ Killed \/ UNCHANGED vars
    BY <1>6 DEF Dispatch, Report, Killed, vars
  <1> QED BY <1>1, <1>2, <1>3, <1>4, <1>5, <1>6 DEF Next, Worker

LEMMA FreshAlways == Spec => []Fresh
  <1>1. Init => Fresh
    BY Tasks DEF Init, Fresh, Second
  <1>2. EvalInv /\ Fresh /\ [Next]_vars => Fresh'
    BY FreshStep
  <1> QED BY <1>1, <1>2, EvalAlways, PTL DEF Spec

(* A step of one task that uses up something of that task *)
LEMMA Counts ==
    ASSUME NEW t \in Task, NEW what \in What, NEW n \in {1, 2},
           Before(t, what, n), ~Before(t, what, n)',
           \A w \in What, k \in {1, 2} : Before(t, w, k)' => Before(t, w, k),
           \A u \in Task \ {t} : /\ status'[u] = status[u] /\ family'[u] = family[u]
                                 /\ status[u] = "running" /\ armed' => armed,
           t # Probe => sandbox' = sandbox
    PROVE  Ahead' \subseteq Ahead /\ Ahead' # Ahead
  <1>1. <<t, <<what, n>>>> \in Ahead /\ <<t, <<what, n>>>> \notin Ahead'
    BY DEF Ahead
  <1>2. ASSUME NEW u \in Task \ {t}, NEW w \in What, NEW k \in {1, 2}, Before(u, w, k)'
        PROVE  Before(u, w, k)
    BY <1>2 DEF Before, Second
  <1>3. Ahead' \subseteq Ahead
    BY <1>2 DEF Ahead
  <1> QED BY <1>1, <1>3

LEMMA InprocCounts ==
    ASSUME EvalInv, NEW t \in Inproc, Inprocess(t)
    PROVE  Ahead' \subseteq Ahead /\ Ahead' # Ahead /\ phase' = phase
  <1> USE Tasks DEF EvalInv, TypeOK
  <1>0. /\ family' = family /\ sandbox' = sandbox /\ phase' = phase
        /\ \A u \in Task \ {t} : status'[u] = status[u]
    BY DEF Inprocess, InprocStart, InprocReturn, Alarm, AlarmSwallowed, Record
  <1>1. CASE InprocStart(t)
    <2>1. status[t] = "todo" /\ status'[t] = "running"
      BY <1>1 DEF InprocStart
    <2>2. \A u \in Task \ {t} : status[u] # "running"
      BY <1>1 DEF InprocStart, Running, Phases
    <2>3. Before(t, "start", 1) /\ ~Before(t, "start", 1)' /\ "start" \in What
      BY <2>1 DEF Before, What, Member
    <2>4. \A w \in What, k \in {1, 2} : Before(t, w, k)' => Before(t, w, k)
      BY <1>0, <2>1 DEF Before, Second, What
    <2> QED BY <1>0, <2>2, <2>3, <2>4, Counts
  <1>2. CASE InprocReturn(t) \/ Alarm(t)
    <2>1. status[t] = "running" /\ status'[t] = "done" /\ ~armed'
      BY <1>2 DEF InprocReturn, Alarm, Record
    <2>2. Before(t, "record", 1) /\ ~Before(t, "record", 1)' /\ "record" \in What
      BY <2>1 DEF Before, What, Member
    <2>3. \A w \in What, k \in {1, 2} : Before(t, w, k)' => Before(t, w, k)
      BY <1>0, <2>1 DEF Before, Second, What
    <2> QED BY <1>0, <2>1, <2>2, <2>3, Counts
  <1>3. CASE AlarmSwallowed(t)
    <2>1. status[t] = "running" /\ status' = status /\ armed /\ ~armed'
      BY <1>3 DEF AlarmSwallowed
    <2>2. Before(t, "alarm", 1) /\ ~Before(t, "alarm", 1)' /\ "alarm" \in What
      BY <2>1 DEF Before, What, Member
    <2>3. \A w \in What, k \in {1, 2} : Before(t, w, k)' => Before(t, w, k)
      BY <1>0, <2>1 DEF Before, Second, What
    <2> QED BY <1>0, <2>1, <2>2, <2>3, Counts
  <1> QED BY <1>0, <1>1, <1>2, <1>3 DEF Inprocess

LEMMA HeavyCounts ==
    ASSUME EvalInv, Fresh, NEW t \in Heavy, Worker(t) \/ \E m \in Member : Exit(t, m)
    PROVE  Ahead' \subseteq Ahead /\ Ahead' # Ahead /\ phase' = phase
  <1> USE Tasks DEF EvalInv, TypeOK
  <1> DEFINE Only == /\ \A u \in Task \ {t} : status'[u] = status[u] /\ family'[u] = family[u]
                     /\ phase' = phase /\ armed' = armed
                     /\ t # Probe => sandbox' = sandbox
  <1>1. ASSUME Spawn(t) \/ SpawnFails(t)
        PROVE  Ahead' \subseteq Ahead /\ Ahead' # Ahead /\ phase' = phase
    <2>1. Only /\ status[t] = "todo" /\ status'[t] # "todo" /\ sandbox' = sandbox
      BY <1>1 DEF Spawn, SpawnFails, Record
    <2>2. ~Second(t)
      BY <2>1 DEF Fresh
    <2>3. Before(t, "start", 1) /\ ~Before(t, "start", 1)' /\ "start" \in What
      BY <2>1 DEF Before, What, Member
    <2>4. \A w \in What, k \in {1, 2} : Before(t, w, k)' => Before(t, w, k)
      BY <2>1, <2>2 DEF Before, Second, What
    <2> QED BY <2>1, <2>3, <2>4, Counts
  <1>2. ASSUME NEW m \in family[t], m \notin family'[t], family'[t] \subseteq family[t], Only,
               status'[t] = status[t] \/ status'[t] = "done", sandbox' = sandbox
        PROVE  Ahead' \subseteq Ahead /\ Ahead' # Ahead /\ phase' = phase
    <2>1. status[t] # "todo" /\ m \in Member
      BY <1>2 DEF Fresh
    <2>2. PICK n \in {1, 2} : n = IF Second(t) THEN 2 ELSE 1
      OBVIOUS
    <2>3. Before(t, m, n) /\ ~Before(t, m, n)' /\ m \in What
      BY <1>2, <2>1, <2>2 DEF Before, Second, What, Member
    <2>4. \A w \in What, k \in {1, 2} : Before(t, w, k)' => Before(t, w, k)
      BY <1>2, <2>1 DEF Before, Second, What
    <2> QED BY <1>2, <2>3, <2>4, Counts
  <1>3. ASSUME Timeout(t) \/ PlainTimeout(t)
        PROVE  Ahead' \subseteq Ahead /\ Ahead' # Ahead /\ phase' = phase
    <2>1. CASE Timeout(t)
      <3>1. PICK m : m \in family[t]
        BY <2>1 DEF Timeout, Overdue
      <3>2. Only /\ family'[t] = {} /\ status' = status /\ sandbox' = sandbox
        BY <2>1 DEF Timeout
      <3> QED BY <1>2, <3>1, <3>2
    <2>2. CASE PlainTimeout(t)
      <3>1. /\ Only /\ status[t] = "running" /\ status'[t] = "done" /\ sandbox' = sandbox
            /\ family'[t] \subseteq family[t]
        BY <2>2 DEF PlainTimeout, Overdue, Record
      <3>2. Before(t, "record", 1) /\ ~Before(t, "record", 1)' /\ "record" \in What
        BY <3>1 DEF Before, What, Member
      <3>3. \A w \in What, k \in {1, 2} : Before(t, w, k)' => Before(t, w, k)
        BY <3>1 DEF Before, Second, What
      <3> QED BY <3>1, <3>2, <3>3, Counts
    <2> QED BY <1>3, <2>1, <2>2
  <1>4. ASSUME NEW m \in Member, Exit(t, m)
        PROVE  Ahead' \subseteq Ahead /\ Ahead' # Ahead /\ phase' = phase
    <2>1. /\ m \in family[t] /\ family'[t] = family[t] \ {m} /\ Only
          /\ status' = status /\ sandbox' = sandbox
      BY <1>4 DEF Exit
    <2> QED BY <1>2, <2>1
  <1>5. ASSUME Collect(t)
        PROVE  Ahead' \subseteq Ahead /\ Ahead' # Ahead /\ phase' = phase
    <2>1. status[t] = "running" /\ family[t] = {} /\ armed' = armed /\ phase' = phase
      BY <1>5 DEF Collect
    <2>2. CASE t = Probe /\ ~sandbox /\ answer[t] = "through"
      <3>1. Only /\ status' = status /\ Second(t)' /\ ~Second(t)
        BY <1>5, <2>1, <2>2 DEF Collect, Second
      <3>2. Before(t, "start", 2) /\ ~Before(t, "start", 2)' /\ "start" \in What
        BY <3>1 DEF Before, What, Member
      <3>3. \A w \in What, k \in {1, 2} : Before(t, w, k)' => Before(t, w, k)
        BY <2>1, <3>1 DEF Before, What
      <3> QED BY <3>1, <3>2, <3>3, Counts
    <2>3. CASE ~(t = Probe /\ ~sandbox /\ answer[t] = "through")
      <3>1. Only /\ status'[t] = "done" /\ sandbox' = sandbox /\ family' = family
        BY <1>5, <2>1, <2>3 DEF Collect, Record
      <3>2. Before(t, "record", 1) /\ ~Before(t, "record", 1)' /\ "record" \in What
        BY <2>1, <3>1 DEF Before, What, Member
      <3>3. \A w \in What, k \in {1, 2} : Before(t, w, k)' => Before(t, w, k)
        BY <2>1, <3>1 DEF Before, Second, What
      <3> QED BY <3>1, <3>2, <3>3, Counts
    <2> QED BY <2>2, <2>3
  <1> QED BY <1>1, <1>3, <1>4, <1>5 DEF Worker

(* No run of the suite goes on for ever: whichever processes hang, alarms are *)
(* lost or starts fail, each step uses up one of finitely many.               *)
THEOREM StepsRunOut == Spec => EveryStepCounts /\ []IsFiniteSet(Ahead)
  <1>1. ASSUME EvalInv, Fresh, Next
        PROVE  /\ Ahead' \subseteq Ahead /\ Stages' \subseteq Stages
               /\ Ahead' # Ahead \/ Stages' # Stages
    <2>1. CASE phase' = phase /\ Ahead' \subseteq Ahead /\ Ahead' # Ahead
      BY <2>1 DEF Stages
    <2>2. CASE Dispatch \/ Report \/ Killed
      <3>1. Stages' \subseteq Stages /\ Stages' # Stages
        BY <2>2 DEF Dispatch, Report, Killed, Stages
      <3>2. UNCHANGED <<status, armed, family, sandbox>>
        BY <2>2 DEF Dispatch, Report, Killed
      <3>3. Ahead' = Ahead
        BY <3>2 DEF Ahead, Before, Second
      <3> QED BY <3>1, <3>3
    <2> QED BY <1>1, <2>1, <2>2, InprocCounts, HeavyCounts DEF Next
  <1>2. EvalInv /\ Fresh /\ [Next]_vars
           => [/\ Ahead' \subseteq Ahead /\ Stages' \subseteq Stages
               /\ Ahead' # Ahead \/ Stages' # Stages]_vars
    BY <1>1
  <1>3. IsFiniteSet(Ahead)
    <2>1. IsFiniteSet({1, 2})
      <3>1. IsFiniteSet({} \cup {1})
        BY FS_EmptySet, FS_AddElement
      <3>2. IsFiniteSet(({} \cup {1}) \cup {2})
        BY <3>1, FS_AddElement
      <3>3. {1, 2} = ({} \cup {1}) \cup {2}
        OBVIOUS
      <3> QED BY <3>2, <3>3
    <2>2. IsFiniteSet(What)
      <3> DEFINE Add(S, x) == S \cup {x}
      <3>1. \A S, x : IsFiniteSet(S) => IsFiniteSet(Add(S, x))
        BY FS_AddElement
      <3>2. What = Add(Add(Add(Add(Add({}, "start"), "alarm"), "record"), "child"), "grandchild")
        BY DEF What, Member
      <3> HIDE DEF Add
      <3> QED BY <3>1, <3>2, FS_EmptySet
    <2>3. Ahead \subseteq Task \X (What \X {1, 2})
      BY DEF Ahead
    <2>4. IsFiniteSet(Task \X (What \X {1, 2}))
      BY <2>1, <2>2, FS_Product, EvalAssumption DEF EvalAssumption
    <2> QED BY <2>3, <2>4, FS_Subset
  <1> QED BY <1>2, <1>3, EvalAlways, FreshAlways, PTL DEF Spec, EveryStepCounts

(* And no run is stuck before its end: what FairSpec obliges the main thread and *)
(* the pool to do is possible until the suite has ended.                         *)
THEOREM SuiteGoesOn == Spec => []NeverStuck
  <1>1. ASSUME EvalInv, Fresh PROVE NeverStuck
    <2> USE <1>1 DEF EvalInv, TypeOK
    <2>1. CASE phase = "inproc"
      <3>1. \A t \in Inproc : status[t] \in {"todo", "running", "done"}
        BY Tasks
      <3> QED BY <2>1, <3>1 DEF NeverStuck, Done, Running
    <2>2. CASE phase = "heavy" /\ Running(Heavy) = {}
      <3>1. Cardinality(Running(Heavy)) < Workers
        BY <2>2, FS_EmptySet, EvalAssumption DEF EvalAssumption
      <3>2. \A t \in Heavy : status[t] \in {"todo", "done"}
        BY <2>2, Tasks DEF Running
      <3> QED BY <2>2, <3>1, <3>2 DEF NeverStuck, Done
    <2>3. CASE phase = "heavy" /\ Running(Heavy) # {}
      <3>1. PICK t \in Heavy : status[t] = "running"
        BY <2>3 DEF Running
      <3>2. family[t] = {} \/ Overdue(t)
        BY <2>3, <3>1 DEF Fresh, Overdue
      <3> QED BY <2>3, <3>1, <3>2 DEF NeverStuck
    <2> QED BY <2>1, <2>2, <2>3 DEF NeverStuck, SuiteEnded
  <1>2. EvalInv /\ Fresh => NeverStuck
    BY <1>1
  <1> QED BY <1>2, EvalAlways, FreshAlways, PTL
=============================================================================
