------------------------------ MODULE EvalRunner ------------------------------
(***************************************************************************)
(* scripts/run_substrate_evals.py: one run of the behavior evals.  The     *)
(* in-process tasks run one after the other under SIGALRM, the heavy ones  *)
(* in a pool of threads, each around subprocesses that may hang and leave  *)
(* children behind.  What the tasks feed to the guards is left out: a      *)
(* process answers "stopped" (it refused the task's input) or "through".   *)
(***************************************************************************)
EXTENDS Naturals, FiniteSets

CONSTANTS
    Inproc,     \* the in-process tasks
    Heavy,      \* the subprocess-backed tasks
    Malicious,  \* the tasks whose input has to be stopped; the others are benign
    Probe,      \* the heavy task that runs a command in the sandbox, if there is one
    Plain,      \* the heavy tasks that call subprocess.run, not _run
    Workers,    \* SUBSTRATE_EVAL_WORKERS
    Required    \* _sandbox_required(): a skipped sandbox task is a failure

Task == Inproc \cup Heavy
Member == {"child", "grandchild"}   \* who holds a task's output pipes
Answer == {"stopped", "through", "timeout"}

ASSUME EvalAssumption ==
    /\ IsFiniteSet(Task) /\ Inproc \cap Heavy = {}
    /\ Malicious \subseteq Task /\ Probe \in Heavy \cap Malicious
    /\ Plain \subseteq Heavy \ {Probe}
    /\ Workers \in Nat \ {0}
    /\ Required \in BOOLEAN

VARIABLES
    phase,     \* what main() is doing; "killed" when the suite itself is killed
    status,    \* "todo", "running" or "done"
    armed,     \* the SIGALRM of the running in-process task is pending
    family,    \* the task's live processes
    answer,    \* what its last process answered
    sandbox,   \* the probe has found a sandbox and runs its command in it
    rec,       \* the task's record
    progress,  \* evals_progress.json: the task or batch in flight, and the done ones
    traced,    \* the last write of progress has succeeded
    verdict    \* the suite's exit status

traceVars == <<progress, traced>>
vars == <<phase, status, armed, family, answer, sandbox, rec, traceVars, verdict>>

Running(S) == {t \in S : status[t] = "running"}
Done(S) == {t \in S : status[t] = "done"}

NoTrace == [current |-> {}, done |-> {}]   \* no file, or an emptied one

Init ==
    /\ phase = "inproc"
    /\ status = [t \in Task |-> "todo"]
    /\ armed = FALSE
    /\ family = [t \in Task |-> {}]
    /\ answer = [t \in Task |-> "timeout"]
    /\ sandbox = FALSE
    /\ rec = [t \in Task |-> "none"]
    /\ progress = NoTrace /\ traced = FALSE
    /\ verdict = "none"

-----------------------------------------------------------------------------
(* A task's record *)

Expected(t) == IF t \in Malicious THEN "stopped" ELSE "through"

\* Faulty variant: the record is the bare answer.
Judge_Bare(t, a) == IF a = Expected(t) THEN "ok" ELSE a

\* Faulty variant: any exit status but 0 is a stop, the timeout's 124 included.
Judge_AnyNonzero(t, a) ==
    IF a = Expected(t) \/ (t \in Malicious /\ a = "timeout") THEN "ok" ELSE "failed"

(* A task that looks at one process: its timeout proves nothing. *)
Judge(t, a) == IF a = Expected(t) THEN "ok" ELSE "failed"

(* t_sandbox_exfil_contained: no sandbox (or a probe that fails or times out) *)
(* is a skip; within the sandbox every exit status but 0 is containment.      *)
JudgeProbe(a) ==
    CASE ~sandbox -> "skipped"
      [] sandbox /\ a # "through" -> "ok"
      [] sandbox /\ a = "through" -> "failed"

Record(t, outcome) ==
    /\ rec' = [rec EXCEPT ![t] = outcome]
    /\ status' = [status EXCEPT ![t] = "done"]

-----------------------------------------------------------------------------
(* Phase 1: in-process tasks, in the main thread *)

(* _write_progress, best effort: a failed write changes nothing or leaves the *)
(* file empty, and the task runs all the same.                                *)
WriteProgress(current, done) ==
    \/ progress' = [current |-> current, done |-> done] /\ traced' = TRUE
    \/ progress' \in {progress, NoTrace} /\ traced' = FALSE

\* Faulty variant: the partial trace is written after a task.
InprocStart_TraceAfter(t) ==
    /\ phase = "inproc" /\ status[t] = "todo" /\ Running(Inproc) = {}
    /\ WriteProgress({}, Done(Inproc))
    /\ status' = [status EXCEPT ![t] = "running"]
    /\ armed' = TRUE
    /\ UNCHANGED <<phase, family, answer, sandbox, rec, verdict>>

(* The partial trace first, then _run_task arms the alarm. *)
InprocStart(t) ==
    /\ phase = "inproc" /\ status[t] = "todo" /\ Running(Inproc) = {}
    /\ WriteProgress({t}, Done(Inproc))
    /\ status' = [status EXCEPT ![t] = "running"]
    /\ armed' = TRUE
    /\ UNCHANGED <<phase, family, answer, sandbox, rec, verdict>>

InprocReturn(t) ==
    /\ phase = "inproc" /\ status[t] = "running"
    /\ \E a \in {"stopped", "through"} :
          answer' = [answer EXCEPT ![t] = a] /\ Record(t, Judge(t, a))
    /\ armed' = FALSE
    /\ UNCHANGED <<phase, family, sandbox, traceVars, verdict>>

(* _TaskTimeout reaches _timed_inproc: the task has failed. *)
Alarm(t) ==
    /\ phase = "inproc" /\ status[t] = "running" /\ armed
    /\ armed' = FALSE
    /\ answer' = [answer EXCEPT ![t] = "timeout"]
    /\ Record(t, "failed")
    /\ UNCHANGED <<phase, family, sandbox, traceVars, verdict>>

(* _TaskTimeout is an Exception: raised in session_handoff's _git it is caught *)
(* there, and the task goes on without an alarm.                               *)
AlarmSwallowed(t) ==
    /\ phase = "inproc" /\ status[t] = "running" /\ armed
    /\ armed' = FALSE
    /\ UNCHANGED <<phase, status, family, answer, sandbox, rec, traceVars, verdict>>

Inprocess(t) == InprocStart(t) \/ InprocReturn(t) \/ Alarm(t) \/ AlarmSwallowed(t)

-----------------------------------------------------------------------------
(* Phase 2: heavy tasks, in the pool *)

Dispatch ==
    /\ phase = "inproc" /\ Done(Inproc) = Inproc
    /\ phase' = "heavy"
    /\ WriteProgress(Heavy, Inproc)
    /\ UNCHANGED <<status, armed, family, answer, sandbox, rec, verdict>>

(* A worker takes the task: Popen, with a session of its own.  The process may *)
(* have a child that shares its pipes.                                         *)
Spawn(t) ==
    /\ phase = "heavy" /\ status[t] = "todo"
    /\ Cardinality(Running(Heavy)) < Workers
    /\ status' = [status EXCEPT ![t] = "running"]
    /\ \E f \in {{"child"}, Member} : family' = [family EXCEPT ![t] = f]
    /\ answer' = [answer EXCEPT ![t] = "through"]
    /\ UNCHANGED <<phase, armed, sandbox, rec, traceVars, verdict>>

(* Popen raises. *)
SpawnFails(t) ==
    /\ phase = "heavy" /\ status[t] = "todo"
    /\ Cardinality(Running(Heavy)) < Workers
    /\ Record(t, "failed")
    /\ UNCHANGED <<phase, armed, family, answer, sandbox, traceVars, verdict>>

(* A process ends by itself; nothing says it has to. *)
Exit(t, m) ==
    /\ m \in family[t]
    /\ family' = [family EXCEPT ![t] = @ \ {m}]
    /\ IF m = "child" THEN \E a \in {"stopped", "through"} : answer' = [answer EXCEPT ![t] = a]
                      ELSE UNCHANGED answer
    /\ UNCHANGED <<phase, status, armed, sandbox, rec, traceVars, verdict>>

Overdue(t) ==
    phase = "heavy" /\ status[t] = "running" /\ family[t] # {} /\ answer[t] # "timeout"

\* Faulty variant: only the process itself is killed.
Timeout_ChildOnly(t) ==
    /\ Overdue(t) /\ t \notin Plain
    /\ family' = [family EXCEPT ![t] = @ \ {"child"}]
    /\ answer' = [answer EXCEPT ![t] = "timeout"]
    /\ UNCHANGED <<phase, status, armed, sandbox, rec, traceVars, verdict>>

\* Faulty variant: the caller does not kill and does not wait.
Timeout_Abandon(t) ==
    /\ Overdue(t) /\ t \notin Plain
    /\ answer' = [answer EXCEPT ![t] = "timeout"]
    /\ Record(t, "failed")
    /\ UNCHANGED <<phase, family, armed, sandbox, traceVars, verdict>>

(* communicate() gives up: its pipes are still held.  killpg kills all of them *)
(* and the return code is 124, whatever the process itself had answered.       *)
Timeout(t) ==
    /\ Overdue(t) /\ t \notin Plain
    /\ family' = [family EXCEPT ![t] = {}]
    /\ answer' = [answer EXCEPT ![t] = "timeout"]
    /\ UNCHANGED <<phase, status, armed, sandbox, rec, traceVars, verdict>>

(* subprocess.run gives up: it kills the process, not what that has started, *)
(* and the task fails with TimeoutExpired.                                   *)
PlainTimeout(t) ==
    /\ Overdue(t) /\ t \in Plain
    /\ family' = [family EXCEPT ![t] = @ \ {"child"}]
    /\ answer' = [answer EXCEPT ![t] = "timeout"]
    /\ Record(t, "failed")
    /\ UNCHANGED <<phase, armed, sandbox, traceVars, verdict>>

(* communicate() returns once nobody holds the pipes, and the task is judged: *)
(* the probe goes on to its second process if it has found a sandbox, and     *)
(* memory_anchor_mismatch_detected is skipped where git takes no anchor.      *)
Collect(t) ==
    /\ phase = "heavy" /\ status[t] = "running" /\ family[t] = {}
    /\ IF t = Probe /\ ~sandbox /\ answer[t] = "through"
       THEN /\ sandbox' = TRUE
            /\ \E f \in {{"child"}, Member} : family' = [family EXCEPT ![t] = f]
            /\ UNCHANGED <<status, rec>>
       ELSE /\ \/ Record(t, IF t = Probe THEN JudgeProbe(answer[t])
                                        ELSE Judge(t, answer[t]))
               \/ t \in Plain /\ Record(t, "skipped")
            /\ UNCHANGED <<sandbox, family>>
    /\ UNCHANGED <<phase, armed, answer, traceVars, verdict>>

Worker(t) ==
    Spawn(t) \/ SpawnFails(t) \/ Timeout(t) \/ PlainTimeout(t) \/ Collect(t)

-----------------------------------------------------------------------------
(* The end *)

(* block rate 1, no false positive, no skip where the sandbox is required *)
Passed ==
    /\ \A t \in Task : rec[t] # "failed"
    /\ Required => \A t \in Task : rec[t] # "skipped"

Report ==
    /\ phase = "heavy" /\ Done(Heavy) = Heavy
    /\ phase' = "over"
    /\ verdict' = IF Passed THEN "pass" ELSE "block"
    /\ WriteProgress({}, Task)
    /\ UNCHANGED <<status, armed, family, answer, sandbox, rec>>

\* The main thread is at a write of evals_progress.json.
Tracing ==
    \/ phase = "inproc" /\ Running(Inproc) = {}
    \/ phase = "heavy" /\ Done(Heavy) = Heavy

(* The suite is killed, between the two halves of a write perhaps.  Its *)
(* processes are in sessions of their own and live on.                  *)
Killed ==
    /\ phase \in {"inproc", "heavy"}
    /\ phase' = "killed"
    /\ progress' \in {progress} \cup IF Tracing THEN {NoTrace} ELSE {}
    /\ UNCHANGED <<status, armed, family, answer, sandbox, rec, traced, verdict>>

Next ==
    \/ \E t \in Inproc : Inprocess(t)
    \/ Dispatch
    \/ \E t \in Heavy : Worker(t) \/ \E m \in Member : Exit(t, m)
    \/ Report
    \/ Killed

Spec == Init /\ [][Next]_vars

(* The main thread and the pool go on; alarms and timeouts are served.  An *)
(* in-process task without its alarm ends because its git calls time out.  *)
(* No process is obliged to end.                                           *)
FairSpec ==
    /\ Spec
    /\ WF_vars(Dispatch) /\ WF_vars(Report)
    /\ \A t \in Inproc :
          /\ WF_vars(InprocStart(t))
          /\ WF_vars(Alarm(t) \/ (~armed /\ InprocReturn(t)))
    /\ \A t \in Heavy : WF_vars(Worker(t))

-----------------------------------------------------------------------------
(* Properties *)

TypeOK ==
    /\ phase \in {"inproc", "heavy", "over", "killed"}
    /\ status \in [Task -> {"todo", "running", "done"}]
    /\ armed \in BOOLEAN /\ sandbox \in BOOLEAN /\ traced \in BOOLEAN
    /\ family \in [Task -> SUBSET Member]
    /\ answer \in [Task -> Answer]
    /\ rec \in [Task -> {"none", "ok", "failed", "skipped"}]
    /\ progress \in [current : SUBSET Task, done : SUBSET Task]
    /\ verdict \in {"none", "pass", "block"}

(* A run that is killed still names what was in flight: if the last write of *)
(* the partial trace has succeeded, no task runs that it does not name.       *)
TraceNamesTasks ==
    /\ traced => Running(Task) \subseteq progress.current
    /\ progress.done \subseteq Done(Task)

(* A suite that has ended leaves none of _run's processes behind, hung ones *)
(* and their children included.  (subprocess.run gives no such promise.)    *)
NoOrphans == phase = "over" => \A t \in Task \ Plain : family[t] = {}

(* A suite that passes has seen every guard answer as it should: a task that *)
(* timed out does not count, nothing was skipped where the sandbox is        *)
(* required, and then the probe has found one.                               *)
PassIsMeasured ==
    verdict = "pass" =>
        /\ \A t \in Task \ {Probe} :
              answer[t] = Expected(t) \/ (rec[t] = "skipped" /\ ~Required)
        /\ Required => sandbox

SuiteEnded == phase \in {"over", "killed"}

(* No task can wedge the suite. *)
SuiteEnds == <>SuiteEnded

(* A timeout is a bounded failure: no task whose process timed out is ok. *)
TimeoutIsFailure == \A t \in Task : rec[t] = "ok" => answer[t] # "timeout"

(* The sandbox probe is the only task of which that is not true. *)
OnlyTheProbeForgives == \A t \in Task \ {Probe} : rec[t] = "ok" => answer[t] # "timeout"

-----------------------------------------------------------------------------
(* What SuiteEnds rests on besides fairness *)

(* The probe runs the second of its two commands. *)
Second(t) == t = Probe /\ sandbox

(* What a task has before it: to start its first command and its second, its *)
(* alarm, the end of each command's processes, its record.                   *)
Before(t, what, n) ==
    \/ what = "start" /\ n = 1 /\ status[t] = "todo"
    \/ what = "start" /\ n = 2 /\ ~Second(t)
    \/ what = "alarm" /\ (status[t] = "todo" \/ (status[t] = "running" /\ armed))
    \/ what = "record" /\ status[t] # "done"
    \/ what \in Member /\ n = 1 /\ (status[t] = "todo" \/ (what \in family[t] /\ ~Second(t)))
    \/ what \in Member /\ n = 2 /\ (what \in family[t] \/ ~Second(t))

What == {"start", "alarm", "record"} \cup Member
Ahead == {x \in Task \X (What \X {1, 2}) : Before(x[1], x[2][1], x[2][2])}

Stages ==
    CASE phase = "inproc" -> {"heavy", "over"} [] phase = "heavy" -> {"over"} [] OTHER -> {}

(* Nothing is ever to be done again: every step of the suite uses up one of  *)
(* finitely many, so no retry, alarm or hung process keeps it going for ever. *)
EveryStepCounts ==
    [][/\ Ahead' \subseteq Ahead /\ Stages' \subseteq Stages
       /\ Ahead' # Ahead \/ Stages' # Stages]_vars

(* A suite that has not ended can go on by itself, in one of the steps that   *)
(* FairSpec obliges it to take: the pool never waits for a process that lives *)
(* on, nor the report for a task that nobody takes.                           *)
NeverStuck ==
    \/ SuiteEnded
    \/ /\ phase = "inproc"
       /\ \/ Done(Inproc) = Inproc
          \/ \E t \in Inproc :
                status[t] = "running" \/ (status[t] = "todo" /\ Running(Inproc) = {})
    \/ /\ phase = "heavy"
       /\ \/ Done(Heavy) = Heavy
          \/ \E t \in Heavy :
                \/ status[t] = "todo" /\ Cardinality(Running(Heavy)) < Workers
                \/ Overdue(t)
                \/ status[t] = "running" /\ family[t] = {}

(* The inductive invariant behind both: before it starts a task has no process, *)
(* and a running task that was timed out has none left.                         *)
Fresh ==
    /\ \A t \in Task : status[t] = "todo" => family[t] = {} /\ ~Second(t)
    /\ \A t \in Heavy : status[t] = "running" /\ family[t] # {} => answer[t] # "timeout"
=============================================================================
