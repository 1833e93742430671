------------------------- MODULE SessionHandoffProofs -------------------------
(***************************************************************************)
(* Proofs about SessionHandoff for every set of sessions and any number of *)
(* captures, todo lists and commits.                                       *)
(***************************************************************************)
EXTENDS SessionHandoff, TLAPS

Stages == {"idle", "todos", "head", "tree", "open", "write", "event"}

Busy(s) == stage[s] # "idle"

(* What a reader of docs/.todo_state.json takes it to hold *)
Listed == IF todoFile = Cut THEN 0 ELSE todoFile

-----------------------------------------------------------------------------
(* Types *)

LEMMA Numbers ==
    /\ MaxHeads \in Nat /\ MaxTodos \in Nat /\ MaxCaptures \in Nat \ {0}
    /\ 0 \in Head /\ 0 \in TodoList /\ 1 \in Capture /\ NoGit \notin Head
    /\ Missing \notin Snapshot /\ Cut \notin Snapshot
  BY HandoffAssumption DEF HandoffAssumption, Head, TodoList, Capture

LEMMA NoDraftType == NoDraft \in Snapshot
  BY Numbers DEF NoDraft, Snapshot

LEMMA TypeInit == HandoffInit => HandoffTypeOK
  <1> SUFFICES ASSUME HandoffInit PROVE HandoffTypeOK
    OBVIOUS
  <1>1. head \in Head /\ todos \in TodoList /\ todoFile \in TodoList \cup {Cut}
    BY Numbers DEF HandoffInit
  <1>2. /\ dirty \in BOOLEAN /\ hook \in BOOLEAN /\ fresh \in BOOLEAN
        /\ current \in Snapshot \cup {Missing, Cut} /\ log = {}
        /\ stage \in [Session -> Stages] /\ quiet \cup closed \cup whole \subseteq Capture
    BY DEF HandoffInit, Stages
  <1>3. draft \in [Session -> Snapshot]
    BY NoDraftType DEF HandoffInit
  <1>4. captures \in 0..MaxCaptures
    BY Numbers DEF HandoffInit
  <1>5. seen \in [Capture -> World] /\ before \in [Capture -> SUBSET Capture]
    <2>1. [head |-> 0, dirty |-> FALSE, todos |-> 0] \in World
      BY Numbers DEF World
    <2> QED BY <2>1 DEF HandoffInit
  <1> QED BY <1>1, <1>2, <1>3, <1>4, <1>5 DEF HandoffTypeOK, Stages

(* The world moves: captures under way are no longer quiet. *)
WorldMoves == Edit \/ CommitChanges \/ TodoOpen \/ TodoWrite

LEMMA TypeWorld ==
    ASSUME HandoffTypeOK, WorldMoves
    PROVE  HandoffTypeOK'
  <1>1. Disturb /\ dirty' \in BOOLEAN /\ hook' \in BOOLEAN
    BY DEF WorldMoves, Edit, CommitChanges, TodoOpen, TodoWrite, HandoffTypeOK
  <1>2. head' \in Head
    BY Numbers DEF WorldMoves, Edit, CommitChanges, TodoOpen, TodoWrite, HandoffTypeOK, Head
  <1>3. todos' \in TodoList
    BY Numbers DEF WorldMoves, Edit, CommitChanges, TodoOpen, TodoWrite, HandoffTypeOK, TodoList
  <1>4. todoFile' \in TodoList \cup {Cut}
    BY DEF WorldMoves, Edit, CommitChanges, TodoOpen, TodoWrite, HandoffTypeOK
  <1> QED BY <1>1, <1>2, <1>3, <1>4 DEF Disturb, fileVars, HandoffTypeOK

LEMMA StageType ==
    ASSUME HandoffTypeOK, NEW s \in Session, NEW label \in Stages, Enter(s, label)
    PROVE  stage' \in [Session -> Stages] /\ stage'[s] = label
           /\ \A t \in Session \ {s} : stage'[t] = stage[t]
  BY DEF Enter, HandoffTypeOK, Stages

LEMMA TypeBegin ==
    ASSUME HandoffTypeOK, NEW s \in Session, Begin(s)
    PROVE  HandoffTypeOK'
  <1>1. captures' \in Capture /\ captures' \in 0..MaxCaptures
    BY Numbers DEF Begin, HandoffTypeOK, Capture
  <1>2. [NoDraft EXCEPT !.cap = captures'] \in Snapshot
    BY <1>1, NoDraftType DEF Snapshot
  <1>3. draft' \in [Session -> Snapshot]
    BY <1>2 DEF Begin, HandoffTypeOK
  <1>4. Listed \in TodoList
    BY Numbers DEF Listed, HandoffTypeOK
  <1>5. [head |-> head, dirty |-> dirty, todos |-> Listed] \in World
    BY <1>4 DEF World, HandoffTypeOK
  <1>6. seen' \in [Capture -> World] /\ before' \in [Capture -> SUBSET Capture]
    BY <1>5 DEF Begin, HandoffTypeOK, Listed
  <1>7. stage' \in [Session -> Stages]
    BY StageType DEF Begin, Stages
  <1> QED BY <1>1, <1>3, <1>6, <1>7 DEF Begin, HandoffTypeOK, Stages, worldVars, fileVars

LEMMA TypeRead ==
    ASSUME HandoffTypeOK, NEW s \in Session, ReadGit(s) \/ ReadTodos(s)
    PROVE  HandoffTypeOK'
  <1>1. draft[s] \in Snapshot /\ Listed \in TodoList
    BY Numbers DEF HandoffTypeOK, Listed
  <1>2. \A h \in Head \cup {NoGit} : [draft[s] EXCEPT !.head = h] \in Snapshot
    BY <1>1 DEF Snapshot
  <1>3. \A d \in BOOLEAN \cup {NoGit} : [draft[s] EXCEPT !.dirty = d] \in Snapshot
    BY <1>1 DEF Snapshot
  <1>4. [draft[s] EXCEPT !.todos = Listed] \in Snapshot
    BY <1>1 DEF Snapshot
  <1>5. draft' \in [Session -> Snapshot] /\ quiet' \subseteq quiet
    <2>1. CASE ReadTodos(s)
      BY <1>4, <2>1 DEF ReadTodos, Listed, ghostVars, HandoffTypeOK
    <2>2. CASE ReadGit(s)
      <3>1. PICK answered \in BOOLEAN :
               /\ draft' = IF stage[s] = "head"
                           THEN [draft EXCEPT ![s].head = IF answered THEN head ELSE NoGit]
                           ELSE [draft EXCEPT ![s].dirty = IF answered THEN dirty ELSE NoGit]
               /\ quiet' = IF answered THEN quiet ELSE quiet \ {draft[s].cap}
        BY <2>2 DEF ReadGit
      <3>2. /\ (IF answered THEN head ELSE NoGit) \in Head \cup {NoGit}
            /\ (IF answered THEN dirty ELSE NoGit) \in BOOLEAN \cup {NoGit}
        BY DEF HandoffTypeOK
      <3>3. CASE stage[s] = "head"
        BY <1>2, <3>1, <3>2, <3>3 DEF HandoffTypeOK
      <3>4. CASE stage[s] # "head"
        BY <1>3, <3>1, <3>2, <3>4 DEF HandoffTypeOK
      <3> QED BY <3>3, <3>4
    <2> QED BY <2>1, <2>2
  <1>6. stage' \in [Session -> Stages]
    BY StageType DEF ReadGit, ReadTodos, NextPart, Stages
  <1> QED BY <1>5, <1>6 DEF ReadGit, ReadTodos, HandoffTypeOK, Stages, worldVars, fileVars,
                            ghostVars

LEMMA TypeWrite ==
    ASSUME HandoffTypeOK, NEW s \in Session, OpenState(s) \/ SkipState(s) \/ WriteState(s)
    PROVE  HandoffTypeOK'
  <1>1. stage' \in [Session -> Stages]
    BY StageType DEF OpenState, SkipState, WriteState, Stages
  <1>2. current' \in Snapshot \cup {Missing, Cut} /\ fresh' \in BOOLEAN
    BY DEF OpenState, SkipState, WriteState, HandoffTypeOK, fileVars
  <1>3. whole' \subseteq Capture
    BY DEF OpenState, SkipState, WriteState, HandoffTypeOK, ghostVars, Snapshot
  <1> QED BY <1>1, <1>2, <1>3 DEF OpenState, SkipState, WriteState, HandoffTypeOK, Stages,
                                  worldVars, fileVars, ghostVars

LEMMA TypeEnd ==
    ASSUME HandoffTypeOK, NEW s \in Session, LogEvent(s) \/ Drop(s)
    PROVE  HandoffTypeOK'
  <1>1. Finish(s)
    BY DEF LogEvent, Drop
  <1>2. stage' \in [Session -> Stages]
    BY <1>1, StageType DEF Finish, Stages
  <1>3. draft' \in [Session -> Snapshot] /\ closed' \subseteq Capture
    BY <1>1, NoDraftType DEF Finish, HandoffTypeOK, Snapshot
  <1>4. log' \subseteq [cap : Capture, head : Head \cup {NoGit}, todos : TodoList]
    BY DEF LogEvent, Drop, HandoffTypeOK, Snapshot
  <1> QED BY <1>1, <1>2, <1>3, <1>4 DEF Finish, HandoffTypeOK, Stages, worldVars

LEMMA TypeStep == HandoffTypeOK /\ [HandoffNext]_handoffVars => HandoffTypeOK'
  <1> SUFFICES ASSUME HandoffTypeOK, [HandoffNext]_handoffVars PROVE HandoffTypeOK'
    OBVIOUS
  <1>1. CASE SevenDays
    BY <1>1 DEF SevenDays, HandoffTypeOK, worldVars, ghostVars
  <1>2. CASE UNCHANGED handoffVars
    BY <1>2 DEF handoffVars, HandoffTypeOK, worldVars, fileVars, ghostVars
  <1> QED BY <1>1, <1>2, TypeWorld, TypeBegin, TypeRead, TypeWrite, TypeEnd
          DEF HandoffNext, Capturing, WorldMoves

(* The files, the log and every capture under way are well formed, whatever *)
(* overlaps and is killed.                                                  *)
THEOREM HandoffTypeCorrect == HandoffSpec => []HandoffTypeOK
  BY TypeInit, TypeStep, PTL DEF HandoffSpec

-----------------------------------------------------------------------------
(* The invariant *)

Begun == {c \in Capture : c <= captures}

(* Captures under way are distinct and have not ended; what is kept of one *)
(* is kept of one that has begun, and only the ended ones have an event.   *)
Identities ==
    /\ \A s \in Session : Busy(s) => draft[s].cap \in Begun /\ draft[s].cap \notin closed
    /\ \A s, t \in Session : Busy(s) /\ Busy(t) /\ draft[s].cap = draft[t].cap => s = t
    /\ \A s \in Session : ~Busy(s) => draft[s] = NoDraft
    /\ closed \subseteq Begun /\ whole \subseteq Begun /\ quiet \subseteq Begun
    /\ current \in Snapshot => current.cap \in Begun
    /\ \A e \in log : e.cap \in closed
    /\ \A c \in Capture : before[c] \subseteq closed

(* A capture whose current.json is there, and which has not ended, has only *)
(* its event left to write, and still holds what it wrote.                  *)
Mine ==
    \A s \in Session : Busy(s) /\ current \in Snapshot /\ current.cap = draft[s].cap
        => stage[s] = "event" /\ current = draft[s]

NotOlder(d) ==
    /\ d.head # NoGit => d.head >= seen[d.cap].head
    /\ d.todos # 0 => d.todos >= seen[d.cap].todos

(* Commits and todo lists only ever follow what captures have seen. *)
Past ==
    /\ \A c \in Capture : /\ seen[c].head <= head /\ seen[c].todos <= todos
                          /\ todoFile # Cut => seen[c].todos <= todoFile
    /\ todoFile # Cut => todoFile <= todos
    /\ \A s \in Session : NotOlder(draft[s]) /\ (draft[s].head # NoGit => draft[s].head <= head)
    /\ current \in Snapshot => NotOlder(current)

Events ==
    \A e \in log : current \in Snapshot /\ current.cap = e.cap =>
        /\ e.todos = current.todos
        /\ NoGit \notin {e.head, current.head} => e.head >= current.head

Newer == current \in Snapshot => \A c \in whole : current.cap \notin before[c]

Exact(d) ==
    /\ d.head = seen[d.cap].head /\ d.dirty = seen[d.cap].dirty
    /\ d.todos = seen[d.cap].todos

(* While a capture is quiet the world is as it was when the capture began, and *)
(* what it has read so far is that.                                            *)
Still(s) ==
    LET c == draft[s].cap IN
    Busy(s) /\ c \in quiet =>
        /\ head = seen[c].head /\ dirty = seen[c].dirty /\ Listed = seen[c].todos
        /\ stage[s] # "todos" => draft[s].todos = seen[c].todos
        /\ stage[s] \notin {"todos", "head"} => draft[s].head = seen[c].head
        /\ stage[s] \notin {"todos", "head", "tree"} => draft[s].dirty = seen[c].dirty

Quietness ==
    /\ \A s \in Session : Still(s)
    /\ current \in Snapshot /\ current.cap \in quiet => Exact(current)

HandoffInv ==
    HandoffTypeOK /\ Identities /\ Mine /\ Past /\ Events /\ Newer /\ Quietness

LEMMA NoDraftPast == ASSUME NEW c PROVE NotOlder([NoDraft EXCEPT !.cap = c]) /\ NotOlder(NoDraft)
  BY DEF NotOlder, NoDraft

LEMMA InvInit == HandoffInit => HandoffInv
  <1> SUFFICES ASSUME HandoffInit PROVE HandoffInv
    OBVIOUS
  <1>1. current \notin Snapshot /\ log = {} /\ quiet = {} /\ whole = {} /\ closed = {}
        /\ \A s \in Session : ~Busy(s) /\ draft[s] = NoDraft
    BY Numbers DEF HandoffInit, Busy
  <1>2. Identities /\ Mine /\ Events /\ Newer /\ Quietness
    BY <1>1 DEF HandoffInit, Identities, Mine, Events, Newer, Quietness, Still
  <1>3. Past
    <2>1. \A c \in Capture : seen[c].head = 0 /\ seen[c].todos = 0
      BY DEF HandoffInit
    <2>2. head = 0 /\ todos = 0 /\ todoFile = 0
      BY DEF HandoffInit
    <2>3. NoDraft.head = NoGit
      BY DEF NoDraft
    <2>4. \A t \in Session : NotOlder(draft[t]) /\ draft[t].head = NoGit
      BY <1>1, <2>3, NoDraftPast
    <2>5. \A c \in Capture : seen[c].head <= head /\ seen[c].todos <= todos
                             /\ seen[c].todos <= todoFile
      BY <2>1, <2>2
    <2>6. todoFile <= todos
      BY <2>2
    <2> QED BY <1>1, <2>4, <2>5, <2>6 DEF Past
  <1> QED BY <1>2, <1>3, TypeInit DEF HandoffInv

-----------------------------------------------------------------------------
(* The world moves *)

LEMMA InvWorld ==
    ASSUME HandoffInv, WorldMoves
    PROVE  HandoffInv'
  <1>1. HandoffTypeOK'
    BY TypeWorld DEF HandoffInv
  <1>2. /\ UNCHANGED <<current, fresh, log, stage, draft, captures, seen, closed, before, whole>>
        /\ quiet' = quiet \ Running
    BY DEF WorldMoves, Edit, CommitChanges, TodoOpen, TodoWrite, Disturb, fileVars
  <1>3. Begun' = Begun /\ \A s : Busy(s)' = Busy(s)
    BY <1>2 DEF Begun, Busy
  <1>4. Identities' /\ Mine' /\ Events' /\ Newer'
    BY <1>2, <1>3 DEF HandoffInv, Identities, Mine, Events, Newer
  <1>5. Quietness'
    <2>1. ASSUME NEW s \in Session, Busy(s) PROVE draft[s].cap \notin quiet'
      BY <1>2, <2>1 DEF Running, Busy
    <2> QED BY <1>2, <1>3, <2>1 DEF HandoffInv, Quietness, Still, Exact
  <1>6. Past'
    <2>1. /\ head \in Nat /\ todos \in Nat /\ (todoFile # Cut => todoFile \in Nat)
          /\ \A c \in Capture : seen[c].head \in Nat /\ seen[c].todos \in Nat
      BY Numbers DEF HandoffInv, HandoffTypeOK, Head, TodoList, World
    <2>2. head' \in Nat /\ head <= head' /\ todos' \in Nat /\ todos <= todos'
      BY <2>1 DEF WorldMoves, Edit, CommitChanges, TodoOpen, TodoWrite
    <2>3. todoFile' # Cut => todos' = todos /\ todoFile' \in {todoFile, todos}
      BY DEF WorldMoves, Edit, CommitChanges, TodoOpen, TodoWrite
    <2>4. ASSUME NEW c \in Capture
          PROVE  /\ seen'[c].head <= head' /\ seen'[c].todos <= todos'
                 /\ todoFile' # Cut => seen'[c].todos <= todoFile'
      BY <1>2, <2>1, <2>2, <2>3 DEF HandoffInv, Past
    <2>5. todoFile' # Cut => todoFile' <= todos'
      BY <2>1, <2>3 DEF HandoffInv, Past
    <2>6. ASSUME NEW s \in Session
          PROVE  NotOlder(draft[s])' /\ (draft'[s].head # NoGit => draft'[s].head <= head')
      <3>1. draft[s].head # NoGit => draft[s].head \in Nat
        BY Numbers DEF HandoffInv, HandoffTypeOK, Snapshot, Head
      <3> QED BY <1>2, <2>1, <2>2, <3>1 DEF HandoffInv, Past, NotOlder
    <2>7. current' \in Snapshot => NotOlder(current)'
      BY <1>2 DEF HandoffInv, Past, NotOlder
    <2> QED BY <2>4, <2>5, <2>6, <2>7 DEF Past
  <1> QED BY <1>1, <1>4, <1>5, <1>6 DEF HandoffInv

-----------------------------------------------------------------------------
(* A capture moves *)

(* The other captures stay where they are. *)
LEMMA OthersStay ==
    ASSUME HandoffTypeOK, NEW s \in Session, Capturing(s), NEW t \in Session \ {s}
    PROVE  stage'[t] = stage[t] /\ draft'[t] = draft[t] /\ (Busy(t)' <=> Busy(t))
  <1>1. stage'[t] = stage[t]
    BY DEF Capturing, Begin, ReadGit, ReadTodos, OpenState, SkipState, WriteState, LogEvent, Drop,
           Finish, Enter, HandoffTypeOK
  <1>2. draft'[t] = draft[t]
    <2>1. CASE Begin(s) \/ ReadTodos(s)
      BY <2>1 DEF Begin, ReadTodos, HandoffTypeOK
    <2>2. CASE ReadGit(s)
      BY <2>2 DEF ReadGit, HandoffTypeOK
    <2>3. CASE OpenState(s) \/ SkipState(s) \/ WriteState(s)
      BY <2>3 DEF OpenState, SkipState, WriteState
    <2>4. CASE LogEvent(s) \/ Drop(s)
      BY <2>4 DEF LogEvent, Drop, Finish, HandoffTypeOK
    <2> QED BY <2>1, <2>2, <2>3, <2>4 DEF Capturing
  <1> QED BY <1>1, <1>2 DEF Busy

(* It begins: its number is new. *)
LEMMA InvBegin ==
    ASSUME HandoffInv, NEW s \in Session, Begin(s)
    PROVE  HandoffInv'
  <1> DEFINE n == captures'
             now == [head |-> head, dirty |-> dirty, todos |-> Listed]
  <1>1. /\ n = captures + 1 /\ captures \in Nat /\ n \in Capture /\ n \notin Begun
        /\ Begun' = Begun \cup {n}
    BY Numbers DEF Begin, HandoffInv, HandoffTypeOK, Begun, Capture
  <1> HIDE DEF n
  <1>2. /\ HandoffTypeOK /\ HandoffTypeOK' /\ Capturing(s)
        /\ UNCHANGED <<worldVars, fileVars, closed, whole>>
        /\ seen' = [seen EXCEPT ![n] = now] /\ quiet' = quiet \cup {n}
        /\ before' = [before EXCEPT ![n] = closed]
        /\ draft' = [draft EXCEPT ![s] = [NoDraft EXCEPT !.cap = n]]
        /\ stage[s] = "idle" /\ stage'[s] = "todos"
    BY TypeBegin, StageType DEF Begin, HandoffInv, Capturing, Stages, Listed, n
  <1>3. /\ UNCHANGED <<head, dirty, todoFile, todos, current, log>>
        /\ Listed' = Listed /\ Busy(s)'
    BY <1>2 DEF worldVars, fileVars, Listed, Busy
  <1>4. draft'[s] = [NoDraft EXCEPT !.cap = n] /\ draft'[s].cap = n /\ draft'[s].head = NoGit
        /\ draft'[s].todos = 0
    BY <1>2 DEF HandoffTypeOK, NoDraft
  <1>5. \A c \in Capture : c # n => seen'[c] = seen[c] /\ before'[c] = before[c]
    BY <1>2 DEF HandoffTypeOK
  <1>6. seen'[n] = now /\ before'[n] = closed
    BY <1>1, <1>2 DEF HandoffTypeOK
  <1>7. \A t \in Session \ {s} : stage'[t] = stage[t] /\ draft'[t] = draft[t] /\ (Busy(t)' <=> Busy(t))
    BY <1>2, OthersStay
  <1>8. Identities'
    <2>1. \A t \in Session : Busy(t)' => draft'[t].cap \in Begun' /\ draft'[t].cap \notin closed'
      BY <1>1, <1>2, <1>4, <1>7 DEF HandoffInv, Identities
    <2>2. \A t, u \in Session : Busy(t)' /\ Busy(u)' /\ draft'[t].cap = draft'[u].cap => t = u
      <3>1. \A t \in Session \ {s} : Busy(t)' => draft'[t].cap # n
        BY <1>1, <1>7 DEF HandoffInv, Identities
      <3>2. ASSUME NEW t \in Session \ {s}, NEW u \in Session \ {s},
                   Busy(t)', Busy(u)', draft'[t].cap = draft'[u].cap
            PROVE  t = u
        <4>1. Busy(t) /\ Busy(u) /\ draft[t].cap = draft[u].cap
          BY <1>7, <3>2
        <4> QED BY <4>1 DEF HandoffInv, Identities
      <3> QED BY <1>4, <3>1, <3>2
    <2>3. \A t \in Session : ~Busy(t)' => draft'[t] = NoDraft
      BY <1>3, <1>7 DEF HandoffInv, Identities
    <2>4. closed' \subseteq Begun' /\ whole' \subseteq Begun' /\ quiet' \subseteq Begun'
      BY <1>1, <1>2 DEF HandoffInv, Identities
    <2>5. \A c \in Capture : before'[c] \subseteq closed'
      BY <1>2, <1>5, <1>6 DEF HandoffInv, Identities
    <2> QED BY <1>1, <1>2, <1>3, <2>1, <2>2, <2>3, <2>4, <2>5 DEF HandoffInv, Identities
  <1>9. current \in Snapshot => current.cap \in Capture /\ current.cap # n
    BY <1>1 DEF HandoffInv, Identities, Begun
  <1>10. Mine'
    BY <1>3, <1>4, <1>7, <1>9 DEF HandoffInv, Mine
  <1>11. Events' /\ Newer'
    <2>1. \A c \in whole : c \in Capture /\ c # n
      BY <1>1 DEF HandoffInv, Identities, Begun
    <2> QED BY <1>2, <1>3, <1>5, <2>1 DEF HandoffInv, Events, Newer
  <1>12. Past'
    <2>1. /\ head \in Nat /\ todos \in Nat /\ (todoFile # Cut => todoFile \in Nat)
      BY <1>2, Numbers DEF HandoffTypeOK, Head, TodoList
    <2>2. /\ now.head <= head /\ now.todos <= todos
          /\ todoFile # Cut => now.todos <= todoFile
      BY <2>1 DEF HandoffInv, Past, Listed
    <2>3. ASSUME NEW t \in Session
          PROVE  NotOlder(draft[t])' /\ (draft'[t].head # NoGit => draft'[t].head <= head')
      <3>1. CASE t = s
        BY <1>4, <3>1 DEF NotOlder
      <3>2. CASE t # s /\ Busy(t)
        <4>1. draft[t].cap \in Capture /\ draft[t].cap # n
          BY <1>1, <3>2 DEF HandoffInv, Identities, Begun
        <4> QED BY <1>3, <1>5, <1>7, <3>2, <4>1 DEF HandoffInv, Past, NotOlder
      <3>3. CASE t # s /\ ~Busy(t)
        <4>1. draft'[t].head = NoGit /\ draft'[t].todos = 0
          BY <1>7, <3>3 DEF HandoffInv, Identities, NoDraft
        <4> QED BY <4>1 DEF NotOlder
      <3> QED BY <3>1, <3>2, <3>3
    <2>4. current' \in Snapshot => NotOlder(current)'
      BY <1>3, <1>5, <1>9 DEF HandoffInv, Past, NotOlder
    <2>5. \A c \in Capture : /\ seen'[c].head <= head' /\ seen'[c].todos <= todos'
                             /\ todoFile' # Cut => seen'[c].todos <= todoFile'
      BY <1>3, <1>5, <1>6, <2>2 DEF HandoffInv, Past
    <2> QED BY <1>3, <2>3, <2>4, <2>5 DEF HandoffInv, Past
  <1>13. Quietness'
    <2>1. ASSUME NEW t \in Session PROVE Still(t)'
      <3>1. CASE t = s
        BY <1>2, <1>3, <1>4, <1>6, <3>1 DEF Still
      <3>2. CASE t # s
        <4>1. SUFFICES ASSUME Busy(t), draft[t].cap \in quiet'
                       PROVE  Still(t)'
          BY <1>7, <3>2 DEF Still
        <4>2. draft[t].cap \in Capture /\ draft[t].cap # n /\ draft[t].cap \in quiet
          BY <1>1, <1>2, <4>1 DEF HandoffInv, Identities, Begun
        <4> QED BY <1>3, <1>5, <1>7, <3>2, <4>1, <4>2 DEF HandoffInv, Quietness, Still
      <3> QED BY <3>1, <3>2
    <2>2. current' \in Snapshot /\ current'.cap \in quiet' => Exact(current)'
      BY <1>2, <1>3, <1>5, <1>9 DEF HandoffInv, Quietness, Exact
    <2> QED BY <2>1, <2>2 DEF Quietness
  <1> QED BY <1>2, <1>8, <1>10, <1>11, <1>12, <1>13 DEF HandoffInv

(* It reads: git or the todo list. *)
LEMMA InvRead ==
    ASSUME HandoffInv, NEW s \in Session, ReadGit(s) \/ ReadTodos(s)
    PROVE  HandoffInv'
  <1> DEFINE d == draft[s]
             e == draft'[s]
  <1>1. /\ HandoffTypeOK /\ HandoffTypeOK' /\ Capturing(s)
        /\ UNCHANGED <<head, dirty, todoFile, todos, current, log, captures, seen, closed,
                       before, whole>>
    BY TypeRead DEF ReadGit, ReadTodos, HandoffInv, Capturing, worldVars, fileVars, ghostVars
  <1>2. /\ stage[s] \in {"todos", "head", "tree"}
        /\ stage[s] = "todos" => stage'[s] = "head"
        /\ stage[s] = "head" => stage'[s] = "tree"
        /\ stage[s] = "tree" => stage'[s] = "open"
    BY <1>1, StageType DEF ReadGit, ReadTodos, NextPart, Stages
  <1>3. Busy(s) /\ Busy(s)' /\ Listed' = Listed /\ Begun' = Begun
    BY <1>1, <1>2 DEF Busy, Listed, Begun
  <1>4. \A t \in Session \ {s} : stage'[t] = stage[t] /\ draft'[t] = draft[t] /\ (Busy(t)' <=> Busy(t))
    BY <1>1, OthersStay
  <1>5. /\ quiet' \subseteq quiet /\ e.cap = d.cap
        /\ stage[s] = "todos" => e = [d EXCEPT !.todos = Listed]
        /\ stage[s] = "head" => \/ e = [d EXCEPT !.head = head]
                                \/ e = [d EXCEPT !.head = NoGit] /\ d.cap \notin quiet'
        /\ stage[s] = "tree" => \/ e = [d EXCEPT !.dirty = dirty]
                                \/ e = [d EXCEPT !.dirty = NoGit] /\ d.cap \notin quiet'
    <2>1. draft \in [Session -> Snapshot] /\ d \in Snapshot
      BY <1>1 DEF HandoffTypeOK
    <2>2. CASE ReadTodos(s)
      BY <2>1, <2>2 DEF ReadTodos, Listed, ghostVars, Snapshot
    <2>3. CASE ReadGit(s)
      BY <2>1, <2>3 DEF ReadGit, Snapshot
    <2> QED BY <2>2, <2>3
  <1>6. /\ d \in Snapshot /\ e \in Snapshot
        /\ stage[s] = "todos" => e.todos = Listed /\ e.head = d.head /\ e.dirty = d.dirty
        /\ stage[s] = "head" => /\ e.todos = d.todos /\ e.dirty = d.dirty
                                /\ e.head = head \/ (e.head = NoGit /\ d.cap \notin quiet')
        /\ stage[s] = "tree" => /\ e.todos = d.todos /\ e.head = d.head
                                /\ e.dirty = dirty \/ (e.dirty = NoGit /\ d.cap \notin quiet')
    <2>1. d \in Snapshot /\ e \in Snapshot
      BY <1>1 DEF HandoffTypeOK
    <2> QED BY <1>5, <2>1 DEF Snapshot
  <1> HIDE DEF d, e
  <1>7. Identities'
    <2>1. \A t \in Session : (Busy(t)' <=> Busy(t)) /\ draft'[t].cap = draft[t].cap
      BY <1>3, <1>4, <1>5 DEF d, e
    <2>2. \A t \in Session : ~Busy(t)' => draft'[t] = NoDraft
      BY <1>3, <1>4 DEF HandoffInv, Identities
    <2> QED BY <1>1, <1>3, <1>5, <2>1, <2>2 DEF HandoffInv, Identities
  <1>8. current \in Snapshot => current.cap # d.cap
    BY <1>2, <1>3 DEF HandoffInv, Mine, d
  <1>9. Mine'
    BY <1>1, <1>4, <1>5, <1>8 DEF HandoffInv, Mine, e
  <1>10. Events' /\ Newer'
    BY <1>1 DEF HandoffInv, Events, Newer
  <1>11. Past'
    <2>1. NotOlder(d) /\ (d.head # NoGit => d.head <= head) /\ d.cap \in Capture
      BY <1>1 DEF HandoffInv, Past, d, HandoffTypeOK, Snapshot
    <2>2. Listed # 0 => Listed >= seen[d.cap].todos
      <3>1. todoFile # Cut => seen[d.cap].todos <= todoFile
        BY <2>1 DEF HandoffInv, Past
      <3> QED BY <3>1 DEF Listed
    <2>3. head >= seen[d.cap].head /\ head \in Nat
      BY <1>1, <2>1, Numbers DEF HandoffInv, Past, HandoffTypeOK, Head
    <2>4. NotOlder(e) /\ (e.head # NoGit => e.head <= head)
      BY <1>2, <1>5, <1>6, <2>1, <2>2, <2>3 DEF NotOlder
    <2>5. ASSUME NEW t \in Session
          PROVE  NotOlder(draft[t])' /\ (draft'[t].head # NoGit => draft'[t].head <= head')
      <3>1. CASE t = s
        BY <1>1, <2>4, <3>1 DEF NotOlder, e
      <3>2. CASE t # s
        BY <1>1, <1>4, <3>2 DEF HandoffInv, Past, NotOlder
      <3> QED BY <3>1, <3>2
    <2>6. current' \in Snapshot => NotOlder(current)'
      BY <1>1 DEF HandoffInv, Past, NotOlder
    <2> QED BY <1>1, <2>5, <2>6 DEF HandoffInv, Past
  <1>12. Quietness'
    <2>1. ASSUME NEW t \in Session PROVE Still(t)'
      <3>1. CASE t = s
        <4>1. SUFFICES ASSUME d.cap \in quiet' PROVE Still(s)'
          BY <1>5, <3>1 DEF Still, e
        <4>2. /\ head = seen[d.cap].head /\ dirty = seen[d.cap].dirty
              /\ Listed = seen[d.cap].todos
              /\ stage[s] # "todos" => d.todos = seen[d.cap].todos
              /\ stage[s] \notin {"todos", "head"} => d.head = seen[d.cap].head
          BY <1>3, <1>5, <4>1 DEF HandoffInv, Quietness, Still, d
        <4>3. /\ stage'[s] # "todos" => e.todos = seen[d.cap].todos
              /\ stage'[s] \notin {"todos", "head"} => e.head = seen[d.cap].head
              /\ stage'[s] \notin {"todos", "head", "tree"} => e.dirty = seen[d.cap].dirty
          BY <1>2, <1>6, <4>1, <4>2
        <4> QED BY <1>1, <1>3, <1>5, <4>2, <4>3 DEF Still, e
      <3>2. CASE t # s
        BY <1>1, <1>3, <1>4, <1>5, <3>2 DEF HandoffInv, Quietness, Still
      <3> QED BY <3>1, <3>2
    <2>2. current' \in Snapshot /\ current'.cap \in quiet' => Exact(current)'
      BY <1>1, <1>5 DEF HandoffInv, Quietness, Exact
    <2> QED BY <2>1, <2>2 DEF Quietness
  <1> QED BY <1>1, <1>7, <1>9, <1>10, <1>11, <1>12 DEF HandoffInv

(* It writes current.json, or fails to. *)
LEMMA InvWrite ==
    ASSUME HandoffInv, NEW s \in Session, OpenState(s) \/ SkipState(s) \/ WriteState(s)
    PROVE  HandoffInv'
  <1> DEFINE d == draft[s]
  <1>1. /\ HandoffTypeOK /\ HandoffTypeOK' /\ Capturing(s)
        /\ UNCHANGED <<head, dirty, todoFile, todos, log, draft, captures, seen, quiet, closed,
                       before>>
    BY TypeWrite DEF OpenState, SkipState, WriteState, HandoffInv, Capturing, worldVars, fileVars,
                     ghostVars
  <1>2. /\ stage[s] \in {"open", "write"} /\ stage'[s] \in {"write", "event"}
        /\ stage'[s] = "event" \/ current' = Cut
    BY <1>1, StageType DEF OpenState, SkipState, WriteState, Stages
  <1>3. /\ Busy(s) /\ Listed' = Listed /\ Begun' = Begun
        /\ \A t \in Session : Busy(t)' <=> Busy(t)
    BY <1>1, <1>2, OthersStay DEF Busy, Listed, Begun
  <1>4. \A t \in Session \ {s} : stage'[t] = stage[t]
    BY <1>1, OthersStay
  <1>5. current \in Snapshot => current.cap # d.cap
    BY <1>2, <1>3 DEF HandoffInv, Mine
  <1>6. \/ current' = d /\ whole' = whole \cup {d.cap} /\ stage[s] = "write" /\ stage'[s] = "event"
        \/ current' = current /\ whole' = whole /\ stage'[s] = "event"
        \/ current' = Cut /\ whole' = whole
    <2>1. CASE OpenState(s)
      BY <2>1 DEF OpenState, ghostVars
    <2>2. CASE SkipState(s)
      BY <1>1, <2>2, StageType DEF SkipState, fileVars, ghostVars, Stages
    <2>3. CASE WriteState(s)
      <3>1. stage[s] = "write" /\ stage'[s] = "event" /\ current' \in {d, Cut}
        BY <1>1, <2>3, StageType DEF WriteState, Stages
      <3>2. d \in Snapshot /\ Cut \notin Snapshot
        BY <1>1, Numbers DEF HandoffTypeOK
      <3>3. whole' = IF current' = Cut THEN whole ELSE whole \cup {d.cap}
        BY <2>3 DEF WriteState
      <3>4. CASE current' = d
        BY <3>1, <3>2, <3>3, <3>4
      <3>5. CASE current' = Cut
        BY <3>3, <3>5
      <3> QED BY <3>1, <3>4, <3>5
    <2> QED BY <2>1, <2>2, <2>3
  <1>7. /\ d \in Snapshot /\ d.cap \in Begun /\ d.cap \in Capture /\ d.cap \notin closed
        /\ Cut \notin Snapshot
    BY <1>1, <1>3, Numbers DEF HandoffInv, Identities, HandoffTypeOK, Begun
  <1> HIDE DEF d
  <1>8. Identities'
    <2>1. whole' \subseteq Begun' /\ (current' \in Snapshot => current'.cap \in Begun')
      BY <1>3, <1>6, <1>7 DEF HandoffInv, Identities
    <2> QED BY <1>1, <1>3, <2>1 DEF HandoffInv, Identities
  <1>9. Mine'
    <2>1. ASSUME NEW t \in Session, Busy(t)', current' \in Snapshot,
                 current'.cap = draft'[t].cap
          PROVE  stage'[t] = "event" /\ current' = draft'[t]
      <3>1. CASE current' = d
        <4>1. t = s
          BY <1>1, <1>3, <2>1, <3>1 DEF HandoffInv, Identities, d
        <4> QED BY <1>1, <1>2, <1>6, <1>7, <3>1, <4>1 DEF d
      <3>2. CASE current' = current
        <4>1. t # s
          BY <1>1, <1>5, <2>1, <3>2 DEF d
        <4> QED BY <1>1, <1>3, <1>4, <2>1, <3>2, <4>1 DEF HandoffInv, Mine
      <3> QED BY <1>6, <1>7, <2>1, <3>1, <3>2
    <2> QED BY <2>1 DEF Mine
  <1>10. Events'
    <2>1. \A ev \in log : ev.cap # d.cap
      BY <1>7 DEF HandoffInv, Identities
    <2> QED BY <1>1, <1>6, <1>7, <2>1 DEF HandoffInv, Events
  <1>11. Newer'
    <2>1. \A c \in Capture : d.cap \notin before[c]
      BY <1>7 DEF HandoffInv, Identities
    <2>2. CASE current' = d
      BY <1>1, <1>6, <1>7, <2>1, <2>2 DEF HandoffInv, HandoffTypeOK, Newer
    <2>3. CASE current' = current /\ whole' = whole
      BY <1>1, <2>3 DEF HandoffInv, Newer
    <2> QED BY <1>6, <1>7, <2>2, <2>3 DEF Newer
  <1>12. Past'
    <2>1. current' \in Snapshot => NotOlder(current)'
      BY <1>1, <1>6, <1>7 DEF HandoffInv, Past, NotOlder, d
    <2> QED BY <1>1, <2>1 DEF HandoffInv, Past, NotOlder
  <1>13. Quietness'
    <2>1. ASSUME NEW t \in Session PROVE Still(t)'
      <3>1. CASE t = s
        BY <1>1, <1>2, <1>3, <3>1 DEF HandoffInv, Quietness, Still
      <3>2. CASE t # s
        BY <1>1, <1>3, <1>4, <3>2 DEF HandoffInv, Quietness, Still
      <3> QED BY <3>1, <3>2
    <2>2. stage[s] = "write" /\ d.cap \in quiet => Exact(d)
      BY <1>3 DEF HandoffInv, Quietness, Still, Exact, d
    <2>3. current' \in Snapshot /\ current'.cap \in quiet' => Exact(current)'
      BY <1>1, <1>6, <1>7, <2>2 DEF HandoffInv, Quietness, Exact
    <2> QED BY <2>1, <2>3 DEF Quietness
  <1> QED BY <1>1, <1>8, <1>9, <1>10, <1>11, <1>12, <1>13 DEF HandoffInv

(* It ends: its event is written, or it is given up. *)
LEMMA InvEnd ==
    ASSUME HandoffInv, NEW s \in Session, LogEvent(s) \/ Drop(s)
    PROVE  HandoffInv'
  <1> DEFINE d == draft[s]
  <1>1. /\ HandoffTypeOK /\ HandoffTypeOK' /\ Capturing(s) /\ Busy(s) /\ ~Busy(s)'
        /\ UNCHANGED <<head, dirty, todoFile, todos, current, captures, seen, quiet, before, whole>>
        /\ closed' = closed \cup {d.cap} /\ draft'[s] = NoDraft
    <2>1. Finish(s) /\ Capturing(s) /\ Busy(s)
      BY DEF LogEvent, Drop, Capturing, Busy
    <2>2. HandoffTypeOK /\ HandoffTypeOK'
      BY TypeEnd DEF HandoffInv
    <2>3. stage'[s] = "idle"
      BY <2>1, <2>2, StageType DEF Finish, Stages
    <2> QED BY <2>1, <2>2, <2>3 DEF Finish, HandoffTypeOK, worldVars, Busy
  <1>2. Listed' = Listed /\ Begun' = Begun
    BY <1>1 DEF Listed, Begun
  <1>3. \A t \in Session \ {s} : stage'[t] = stage[t] /\ draft'[t] = draft[t] /\ (Busy(t)' <=> Busy(t))
    BY <1>1, OthersStay
  <1>4. d \in Snapshot /\ d.cap \in Begun /\ d.cap \in Capture /\ d.cap \notin closed
    BY <1>1 DEF HandoffInv, Identities, HandoffTypeOK, Begun
  <1>5. \/ log' = log
        \/ /\ stage[s] = "event"
           /\ \E h \in {head, NoGit} :
                 log' = log \cup {[cap |-> d.cap, head |-> h, todos |-> d.todos]}
    BY DEF LogEvent, Drop
  <1>6. NotOlder(draft'[s]) /\ (draft'[s].head # NoGit => draft'[s].head <= head)
    <2>1. NoDraft.head = NoGit
      BY DEF NoDraft
    <2> QED BY <1>1, <2>1, NoDraftPast
  <1> HIDE DEF d
  <1>7. Identities'
    <2>1. \A t \in Session \ {s} : Busy(t) => draft[t].cap # d.cap
      BY <1>1 DEF HandoffInv, Identities, d
    <2>2. \A t \in Session : Busy(t)' => draft'[t].cap \in Begun' /\ draft'[t].cap \notin closed'
      BY <1>1, <1>2, <1>3, <2>1 DEF HandoffInv, Identities
    <2>3. \A t, u \in Session : Busy(t)' /\ Busy(u)' /\ draft'[t].cap = draft'[u].cap => t = u
      <3>1. ASSUME NEW t \in Session, NEW u \in Session, Busy(t)', Busy(u)',
                   draft'[t].cap = draft'[u].cap
            PROVE  t = u
        <4>1. Busy(t) /\ Busy(u) /\ draft[t].cap = draft[u].cap
          BY <1>1, <1>3, <3>1
        <4> QED BY <4>1 DEF HandoffInv, Identities
      <3> QED BY <3>1
    <2>4. \A t \in Session : ~Busy(t)' => draft'[t] = NoDraft
      BY <1>1, <1>3 DEF HandoffInv, Identities
    <2>5. \A e \in log' : e.cap \in closed'
      BY <1>1, <1>5 DEF HandoffInv, Identities
    <2>6. closed' \subseteq Begun' /\ \A c \in Capture : before'[c] \subseteq closed'
      BY <1>1, <1>2, <1>4 DEF HandoffInv, Identities
    <2> QED BY <1>1, <1>2, <2>2, <2>3, <2>4, <2>5, <2>6 DEF HandoffInv, Identities
  <1>8. Mine'
    BY <1>1, <1>3 DEF HandoffInv, Mine
  <1>9. Events'
    <2>1. ASSUME NEW e \in log', current \in Snapshot, current.cap = e.cap
          PROVE  /\ e.todos = current.todos
                 /\ NoGit \notin {e.head, current.head} => e.head >= current.head
      <3>1. CASE e \in log
        BY <2>1, <3>1 DEF HandoffInv, Events
      <3>2. CASE e \notin log
        <4>1. PICK h \in {head, NoGit} : e = [cap |-> d.cap, head |-> h, todos |-> d.todos]
          BY <1>5, <2>1, <3>2
        <4>2. current = d
          BY <1>1, <2>1, <4>1 DEF HandoffInv, Mine, d
        <4>3. d.head # NoGit => d.head <= head /\ d.head \in Nat /\ head \in Nat
          BY <1>1, <1>4, Numbers DEF HandoffInv, Past, d, HandoffTypeOK, Snapshot, Head
        <4> QED BY <4>1, <4>2, <4>3
      <3> QED BY <3>1, <3>2
    <2> QED BY <1>1, <2>1 DEF Events
  <1>10. Newer'
    BY <1>1 DEF HandoffInv, Newer
  <1>11. Past'
    <2>1. ASSUME NEW t \in Session
          PROVE  NotOlder(draft[t])' /\ (draft'[t].head # NoGit => draft'[t].head <= head')
      <3>1. CASE t = s
        BY <1>1, <1>6, <3>1 DEF NotOlder
      <3>2. CASE t # s
        BY <1>1, <1>3, <3>2 DEF HandoffInv, Past, NotOlder
      <3> QED BY <3>1, <3>2
    <2>2. current' \in Snapshot => NotOlder(current)'
      BY <1>1 DEF HandoffInv, Past, NotOlder
    <2> QED BY <1>1, <2>1, <2>2 DEF HandoffInv, Past
  <1>12. Quietness'
    <2>1. ASSUME NEW t \in Session PROVE Still(t)'
      BY <1>1, <1>2, <1>3 DEF HandoffInv, Quietness, Still
    <2>2. current' \in Snapshot /\ current'.cap \in quiet' => Exact(current)'
      BY <1>1 DEF HandoffInv, Quietness, Exact
    <2> QED BY <2>1, <2>2 DEF Quietness
  <1> QED BY <1>1, <1>7, <1>8, <1>9, <1>10, <1>11, <1>12 DEF HandoffInv

-----------------------------------------------------------------------------
(* Every step, and the theorems *)

LEMMA InvStep == HandoffInv /\ [HandoffNext]_handoffVars => HandoffInv'
  <1> SUFFICES ASSUME HandoffInv, [HandoffNext]_handoffVars PROVE HandoffInv'
    OBVIOUS
  <1>1. CASE SevenDays \/ UNCHANGED handoffVars
    <2>1. /\ UNCHANGED <<head, dirty, todoFile, todos, current, log, stage, draft, captures,
                         seen, quiet, closed, before, whole>>
          /\ HandoffTypeOK'
      BY <1>1, TypeStep DEF SevenDays, handoffVars, worldVars, fileVars, ghostVars, HandoffInv
    <2>2. Begun' = Begun /\ Listed' = Listed /\ \A s : Busy(s)' = Busy(s)
      BY <2>1 DEF Begun, Listed, Busy
    <2> QED BY <2>1, <2>2 DEF HandoffInv, Identities, Mine, Past, NotOlder, Events, Newer,
                              Quietness, Still, Exact
  <1> QED BY <1>1, InvWorld, InvBegin, InvRead, InvWrite, InvEnd
          DEF HandoffNext, Capturing, WorldMoves

LEMMA HandoffAlways == HandoffSpec => []HandoffInv
  BY InvInit, InvStep, PTL DEF HandoffSpec

(* What restore hands over is a snapshot some capture wrote whole. *)
LEMMA RestoredIsCurrent == Restored # Missing => current \in Snapshot /\ Restored = current
  BY DEF Restored

(* A handoff taken while the world stood still is exactly how things were, *)
(* whatever other captures did to its files and whichever were killed.     *)
THEOREM QuietIsExact == HandoffSpec => []QuietHandoffIsExact
  <1>1. HandoffInv => QuietHandoffIsExact
    <2> SUFFICES ASSUME HandoffInv, Restored # Missing, Restored.cap \in quiet
                 PROVE  Restored = [cap |-> Restored.cap, head |-> seen[Restored.cap].head,
                                    dirty |-> seen[Restored.cap].dirty,
                                    todos |-> seen[Restored.cap].todos]
      BY DEF QuietHandoffIsExact
    <2>1. current \in Snapshot /\ Restored = current
      BY RestoredIsCurrent
    <2>2. Exact(current)
      BY <2>1 DEF HandoffInv, Quietness
    <2>3. current = [cap |-> current.cap, head |-> current.head, dirty |-> current.dirty,
                     todos |-> current.todos]
      BY <2>1 DEF Snapshot
    <2> QED BY <2>1, <2>2, <2>3 DEF Exact
  <1> QED BY <1>1, HandoffAlways, PTL

(* No part of a handoff is older than its capture. *)
THEOREM NothingIsOlder == HandoffSpec => []NothingFromBefore
  <1>1. HandoffInv => NothingFromBefore
    BY RestoredIsCurrent DEF HandoffInv, Past, NotOlder, NothingFromBefore
  <1> QED BY <1>1, HandoffAlways, PTL

(* The event a capture leaves in the memory log agrees with the handoff it wrote. *)
THEOREM RecordsAgree == HandoffSpec => []EventMatchesHandoff
  <1>1. HandoffInv => EventMatchesHandoff
    BY RestoredIsCurrent DEF HandoffInv, Events, EventMatchesHandoff
  <1> QED BY <1>1, HandoffAlways, PTL

(* A capture that had ended before another began never overwrites what that one wrote. *)
THEOREM NothingResurrects == HandoffSpec => []NoResurrection
  <1>1. HandoffInv => NoResurrection
    BY RestoredIsCurrent DEF HandoffInv, Newer, NoResurrection
  <1> QED BY <1>1, HandoffAlways, PTL
=============================================================================
