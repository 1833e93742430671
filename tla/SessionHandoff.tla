---------------------------- MODULE SessionHandoff ----------------------------
(***************************************************************************)
(* The session handoff: scripts/todo_state_hook.py writes the todo list,   *)
(* `session_handoff.py capture` writes down git's state and that list when *)
(* a session ends or is compacted, `session_handoff.py restore` hands them *)
(* to the next session.  Captures of several sessions overlap, and a host  *)
(* kills a hook that takes too long.                                       *)
(*                                                                         *)
(* Todo lists are numbered as the agent writes them; a snapshot's `head`   *)
(* stands for the commits in it and `dirty` for its working tree.          *)
(* Redaction, the caps on items and bytes and the transcript excerpts      *)
(* change texts only, and docs/CURRENT_SESSION.md, the view that capture   *)
(* writes first, is read by nothing: they are left out.                    *)
(***************************************************************************)
EXTENDS Naturals, FiniteSets

CONSTANTS
    Session,      \* the sessions whose hooks capture
    Missing,      \* a file that does not exist, or no handoff
    Cut,          \* a file that holds no JSON: emptied, cut short or overlaid
    NoGit,        \* git failed or did not answer in 15 seconds
    MaxHeads,     \* bound on the commits made
    MaxTodos,     \* bound on the TodoWrite calls
    MaxCaptures   \* bound on the captures

Head == 0..MaxHeads
TodoList == 0..MaxTodos            \* 0: no list
Capture == 1..MaxCaptures
Snapshot == [cap : Capture, head : Head \cup {NoGit}, dirty : BOOLEAN \cup {NoGit},
             todos : TodoList]
World == [head : Head, dirty : BOOLEAN, todos : TodoList]

ASSUME HandoffAssumption ==
    /\ MaxHeads \in Nat /\ MaxTodos \in Nat /\ MaxCaptures \in Nat \ {0}
    /\ Missing # Cut /\ {Missing, Cut} \cap Snapshot = {}
    /\ NoGit \notin Head /\ NoGit \notin BOOLEAN

VARIABLES
    head, dirty,  \* the repository
    todoFile,     \* docs/.todo_state.json: Cut or a list, 0 if it is missing
    todos,        \* the list of the last TodoWrite; its hook may still write it
    hook,         \* the todo hook has emptied the file and not yet filled it
    current,      \* .substrate/memory/tasks/current.json
    fresh,        \* current.json was modified in the last 7 days
    log,          \* the handoff events in the memory log
    stage, draft, \* where each session is in capture(), and what it has read
    captures,     \* how many captures have begun
    seen,         \* history: the world when each capture began
    quiet,        \* history: captures during which the world stood still
    closed,       \* history: captures that have ended
    before,       \* history: for each capture, the ones that ended before it
    whole         \* history: captures whose current.json was complete

worldVars == <<head, dirty, todoFile, todos, hook>>
fileVars == <<current, fresh, log>>
ghostVars == <<seen, quiet, closed, before, whole>>
handoffVars == <<worldVars, fileVars, stage, draft, captures, ghostVars>>

Running == {draft[s].cap : s \in {t \in Session : stage[t] # "idle"}}
NoDraft == [cap |-> 1, head |-> NoGit, dirty |-> NoGit, todos |-> 0]

HandoffInit ==
    /\ head = 0 /\ dirty = FALSE /\ todoFile = 0 /\ todos = 0 /\ hook = FALSE
    /\ current = Missing /\ fresh = FALSE /\ log = {}
    /\ stage = [s \in Session |-> "idle"]
    /\ draft = [s \in Session |-> NoDraft]
    /\ captures = 0
    /\ seen = [c \in Capture |-> [head |-> 0, dirty |-> FALSE, todos |-> 0]]
    /\ quiet = {} /\ closed = {} /\ whole = {}
    /\ before = [c \in Capture |-> {}]

-----------------------------------------------------------------------------
(* The world the captures look at *)

Disturb ==
    /\ quiet' = quiet \ Running
    /\ UNCHANGED <<fileVars, stage, draft, captures, seen, closed, before, whole>>

Edit ==
    /\ ~dirty /\ head < MaxHeads
    /\ dirty' = TRUE
    /\ UNCHANGED <<head, todoFile, todos, hook>> /\ Disturb

CommitChanges ==
    /\ dirty /\ head < MaxHeads
    /\ head' = head + 1 /\ dirty' = FALSE
    /\ UNCHANGED <<todoFile, todos, hook>> /\ Disturb

(* todo_state_hook.py after a TodoWrite: write_text empties the file ... *)
TodoOpen ==
    /\ ~hook /\ todos < MaxTodos
    /\ todos' = todos + 1 /\ hook' = TRUE /\ todoFile' = Cut
    /\ UNCHANGED <<head, dirty>> /\ Disturb

(* ... and fills it.  A hook that is killed or fails leaves it cut. *)
TodoWrite ==
    /\ hook
    /\ hook' = FALSE
    /\ todoFile' \in {todos, Cut}
    /\ UNCHANGED <<head, dirty, todos>> /\ Disturb

(* Time passes without a capture. *)
SevenDays ==
    /\ fresh /\ fresh' = FALSE
    /\ UNCHANGED <<worldVars, current, log, stage, draft, captures, ghostVars>>

-----------------------------------------------------------------------------
(* capture() *)

Enter(s, label) == stage' = [stage EXCEPT ![s] = label]
NextPart(label) == IF label = "head" THEN "tree" ELSE "open"

Begin(s) ==
    /\ stage[s] = "idle" /\ captures < MaxCaptures
    /\ captures' = captures + 1
    /\ draft' = [draft EXCEPT ![s] = [NoDraft EXCEPT !.cap = captures']]
    /\ seen' = [seen EXCEPT ![captures'] =
                   [head |-> head, dirty |-> dirty,
                    todos |-> IF todoFile = Cut THEN 0 ELSE todoFile]]
    /\ quiet' = quiet \cup {captures'}
    /\ before' = [before EXCEPT ![captures'] = closed]
    /\ Enter(s, "todos")
    /\ UNCHANGED <<worldVars, fileVars, closed, whole>>

\* Faulty variant: a git that does not answer leaves the last handoff's HEAD.
ReadGit_Sticky(s) ==
    /\ stage[s] \in {"head", "tree"}
    /\ \E answered \in BOOLEAN :
          draft' = IF stage[s] = "tree" THEN [draft EXCEPT ![s].dirty = dirty]
                   ELSE [draft EXCEPT ![s].head =
                            IF answered \/ current \notin Snapshot THEN head
                            ELSE current.head]
    /\ Enter(s, NextPart(stage[s]))
    /\ UNCHANGED <<worldVars, fileVars, captures, ghostVars>>

(* _write_structured(): git is asked for the branch, HEAD and the commits, and *)
(* then for the status.                                                        *)
ReadGit(s) ==
    /\ stage[s] \in {"head", "tree"}
    /\ \E answered \in BOOLEAN :
          /\ draft' = IF stage[s] = "head"
                      THEN [draft EXCEPT ![s].head = IF answered THEN head ELSE NoGit]
                      ELSE [draft EXCEPT ![s].dirty = IF answered THEN dirty ELSE NoGit]
          /\ quiet' = IF answered THEN quiet ELSE quiet \ {draft[s].cap}
    /\ Enter(s, NextPart(stage[s]))
    /\ UNCHANGED <<worldVars, fileVars, captures, seen, closed, before, whole>>

\* Faulty variant: whatever the file holds is taken for a list.
ReadTodos_Unparsed(s) ==
    /\ stage[s] = "todos"
    /\ draft' = [draft EXCEPT ![s].todos = todoFile]
    /\ Enter(s, "head")
    /\ UNCHANGED <<worldVars, fileVars, captures, ghostVars>>

\* Faulty variant: without a readable list, the last handoff's is taken over.
ReadTodos_Previous(s) ==
    /\ stage[s] = "todos"
    /\ draft' = [draft EXCEPT ![s].todos =
                    CASE todoFile # Cut -> todoFile
                      [] todoFile = Cut /\ current \in Snapshot -> current.todos
                      [] OTHER -> 0]
    /\ Enter(s, "head")
    /\ UNCHANGED <<worldVars, fileVars, captures, ghostVars>>

(* _todo_lines(): a file that cannot be read or parsed is an empty list. *)
ReadTodos(s) ==
    /\ stage[s] = "todos"
    /\ draft' = [draft EXCEPT ![s].todos = IF todoFile = Cut THEN 0 ELSE todoFile]
    /\ Enter(s, "head")
    /\ UNCHANGED <<worldVars, fileVars, captures, ghostVars>>

(* write_text empties current.json ... *)
OpenState(s) ==
    /\ stage[s] = "open"
    /\ current' = Cut /\ fresh' = TRUE
    /\ Enter(s, "write")
    /\ UNCHANGED <<worldVars, log, draft, captures, ghostVars>>

(* ... unless it cannot be opened, which is passed over too, *)
SkipState(s) ==
    /\ stage[s] = "open"
    /\ Enter(s, "event")
    /\ UNCHANGED <<worldVars, fileVars, draft, captures, ghostVars>>

(* ... and fills it.  The disk may be full, and the tail of a longer text   *)
(* that another capture has written meanwhile stays behind the shorter one. *)
WriteState(s) ==
    /\ stage[s] = "write"
    /\ current' \in {draft[s], Cut}
    /\ whole' = IF current' = Cut THEN whole ELSE whole \cup {draft[s].cap}
    /\ fresh' = TRUE
    /\ Enter(s, "event")
    /\ UNCHANGED <<worldVars, log, draft, captures, seen, quiet, closed, before>>

Finish(s) ==
    /\ closed' = closed \cup {draft[s].cap}
    /\ Enter(s, "idle")
    /\ draft' = [draft EXCEPT ![s] = NoDraft]
    /\ UNCHANGED <<worldVars, current, fresh, captures, seen, quiet, before, whole>>

\* Faulty variant: the event's list is read anew.
LogEvent_Rereads(s) ==
    /\ stage[s] = "event"
    /\ log' = log \cup {[cap |-> draft[s].cap, head |-> head,
                         todos |-> IF todoFile = Cut THEN 0 ELSE todoFile]}
    /\ Finish(s)

(* _append_memory_event(): git once more, the list that was read, then *)
(* memory_log.append; capture returns 0.                               *)
LogEvent(s) ==
    /\ stage[s] = "event"
    /\ \E h \in {head, NoGit} :
          log' = log \cup {[cap |-> draft[s].cap, head |-> h, todos |-> draft[s].todos]}
    /\ Finish(s)

(* The append fails (passed over), or the host kills the capture. *)
Drop(s) ==
    /\ stage[s] # "idle"
    /\ Finish(s)
    /\ UNCHANGED log

Capturing(s) ==
    \/ Begin(s) \/ ReadGit(s) \/ ReadTodos(s) \/ OpenState(s)
    \/ SkipState(s) \/ WriteState(s) \/ LogEvent(s) \/ Drop(s)

HandoffNext ==
    \/ Edit \/ CommitChanges \/ TodoOpen \/ TodoWrite \/ SevenDays
    \/ \E s \in Session : Capturing(s)

HandoffSpec == HandoffInit /\ [][HandoffNext]_handoffVars

-----------------------------------------------------------------------------
(* restore() *)

\* Faulty variant: without a valid current.json, an event is restored.
Restored_FromLog ==
    IF current \in Snapshot /\ fresh THEN current
    ELSE IF log = {} THEN Missing
    ELSE LET e == CHOOSE e \in log : \A f \in log : f.cap <= e.cap
         IN  [cap |-> e.cap, head |-> e.head, dirty |-> NoGit, todos |-> e.todos]

(* What restore() injects: current.json if it is there, of the last 7 days *)
(* and JSON, else a constant text.                                         *)
Restored == IF current \in Snapshot /\ fresh THEN current ELSE Missing

-----------------------------------------------------------------------------
(* Properties *)

HandoffTypeOK ==
    /\ head \in Head /\ dirty \in BOOLEAN /\ hook \in BOOLEAN /\ fresh \in BOOLEAN
    /\ todos \in TodoList /\ todoFile \in TodoList \cup {Cut}
    /\ current \in Snapshot \cup {Missing, Cut}
    /\ log \subseteq [cap : Capture, head : Head \cup {NoGit}, todos : TodoList]
    /\ stage \in [Session -> {"idle", "todos", "head", "tree", "open", "write", "event"}]
    /\ draft \in [Session -> Snapshot]
    /\ captures \in 0..MaxCaptures
    /\ seen \in [Capture -> World] /\ before \in [Capture -> SUBSET Capture]
    /\ quiet \cup closed \cup whole \subseteq Capture

(* A handoff taken while nothing else moved says exactly how things were, *)
(* whatever other captures did to the files at the same time.             *)
QuietHandoffIsExact ==
    Restored # Missing /\ Restored.cap \in quiet =>
        LET was == seen[Restored.cap] IN
        Restored = [cap |-> Restored.cap, head |-> was.head, dirty |-> was.dirty,
                    todos |-> was.todos]

(* No part of a handoff is older than its capture: commits and todos are those *)
(* of its beginning or later ones, or the part is missing.  (The parts need    *)
(* not be of the same moment: they are read one after the other.)              *)
NothingFromBefore ==
    Restored # Missing =>
        LET was == seen[Restored.cap] IN
        /\ Restored.head # NoGit => Restored.head >= was.head
        /\ Restored.todos # 0 => Restored.todos >= was.todos

(* The two durable records of a capture agree: the event has the handoff's *)
(* todo list and no older commit.                                          *)
EventMatchesHandoff ==
    \A e \in log : Restored # Missing /\ Restored.cap = e.cap =>
        /\ e.todos = Restored.todos
        /\ NoGit \notin {e.head, Restored.head} => e.head >= Restored.head

(* A capture whose current.json was complete is never undone by one that *)
(* had ended before it began.                                            *)
NoResurrection ==
    Restored # Missing => \A c \in whole : Restored.cap \notin before[c]
=============================================================================
