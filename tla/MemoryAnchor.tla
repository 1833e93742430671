----------------------------- MODULE MemoryAnchor -----------------------------
(***************************************************************************)
(* The memory log in its repository: `memory_log.py anchor` and `verify    *)
(* --anchor` (scripts/memory_log.py), the memory step of a strict release  *)
(* gate (scripts/release_gate.sh), and what else happens to the file and   *)
(* to git meanwhile: commits, and damage from outside memory_log.py.       *)
(***************************************************************************)
EXTENDS MemoryLog

CONSTANTS
    Anchorer,     \* processes that run `memory_log.py anchor`
    NoNote,       \* a commit without a note in refs/notes/substrate-memory
    DamageKinds,  \* what may happen to the file from outside
    MaxCommits,   \* bound on the commits made
    MaxDamage     \* bound on the damages done

AllDamage == {"edit", "garble", "drop", "swap", "truncate", "delete", "forge"}

ASSUME AnchorAssumption ==
    /\ NoNote \notin Digest
    /\ DamageKinds \subseteq AllDamage
    /\ MaxCommits \in Nat /\ MaxDamage \in Nat

VARIABLES
    present,  \* events.jsonl exists
    commit,   \* HEAD; 0 before the first commit
    notes,    \* the anchored head hash of each commit
    witness,  \* history: the acknowledged events that a note's hash was read with
    apc,      \* where each process is in anchor()
    aread,    \* what it has read: the head hash, and the history beside it
    asha,     \* the commit it will annotate
    damages   \* history: the kinds of damage that were done

gitVars == <<present, commit, notes, witness, apc, aread, asha, damages>>
vars == <<memVars, gitVars>>

Commit == 1..MaxCommits
Nothing == [head |-> ZERO, events |-> {}, sound |-> FALSE]

AnchorInit ==
    /\ Init
    /\ present = FALSE
    /\ commit = 0
    /\ notes = [c \in Commit |-> NoNote]
    /\ witness = [c \in Commit |-> Nothing]
    /\ apc = [a \in Anchorer |-> "idle"]
    /\ aread = [a \in Anchorer |-> Nothing]
    /\ asha = [a \in Anchorer |-> 0]
    /\ damages = <<>>

-----------------------------------------------------------------------------
(* Appends: the first byte written creates the file. *)

MemoryStep ==
    /\ MemNext
    /\ present' = (present \/ lines' # <<>>)
    /\ UNCHANGED <<commit, notes, witness, apc, aread, asha, damages>>

-----------------------------------------------------------------------------
(* anchor(): three steps, none of them under the lock *)

AGoto(a, label) == apc' = [apc EXCEPT ![a] = label]

(* _head_hash() *)
AnchorRead(a) ==
    /\ apc[a] = "idle"
    /\ aread' = [aread EXCEPT ![a] = [head   |-> HeadHash(lines),
                                      events |-> {e \in acked : Logged(e)},
                                      sound  |-> ChainOK(lines)]]
    /\ AGoto(a, "rev-parse")
    /\ UNCHANGED <<memVars, present, commit, notes, witness, asha, damages>>

(* git rev-parse HEAD, which needs a commit *)
AnchorRevParse(a) ==
    /\ apc[a] = "rev-parse"
    /\ commit # 0
    /\ asha' = [asha EXCEPT ![a] = commit]
    /\ AGoto(a, "note")
    /\ UNCHANGED <<memVars, present, commit, notes, witness, aread, damages>>

(* git notes add -f: a note that is there is replaced. *)
AnchorNote(a) ==
    /\ apc[a] = "note"
    /\ notes' = [notes EXCEPT ![asha[a]] = aread[a].head]
    /\ witness' = [witness EXCEPT ![asha[a]] = aread[a]]
    /\ aread' = [aread EXCEPT ![a] = Nothing]
    /\ asha' = [asha EXCEPT ![a] = 0]
    /\ AGoto(a, "idle")
    /\ UNCHANGED <<memVars, present, commit, damages>>

(* git fails or times out, there is no commit, or the process is killed. *)
AnchorFail(a) ==
    /\ apc[a] # "idle"
    /\ aread' = [aread EXCEPT ![a] = Nothing]
    /\ asha' = [asha EXCEPT ![a] = 0]
    /\ AGoto(a, "idle")
    /\ UNCHANGED <<memVars, present, commit, notes, witness, damages>>

-----------------------------------------------------------------------------
(* Around the scripts *)

(* A new commit has no note of its own. *)
MakeCommit ==
    /\ commit < MaxCommits
    /\ commit' = commit + 1
    /\ UNCHANGED <<memVars, present, notes, witness, apc, aread, asha, damages>>

(* The log that append() alone would write for these payloads *)
Chain(ds) ==
    LET digest(n) == [k \in 1..n |-> <<k - 1, ds[k]>>]
    IN  [i \in 1..Len(ds) |-> [seq |-> i - 1, prev |-> digest(i - 1),
                               data |-> ds[i], hash |-> digest(i)]]

(* What each kind of damage can make of the lines: one event edited without *)
(* its hash, one line made unreadable, one lost from the middle, two lines  *)
(* exchanged, the newest lines lost, all hashes recomputed for a new        *)
(* history, the file removed.                                               *)
Damaged(kind) ==
    LET n == Len(lines) IN
    CASE kind = "edit" ->
             {[lines EXCEPT ![i].data = d] : i \in {j \in 1..n : lines[j] # Corrupt},
                                             d \in Payload}
      [] kind = "garble" -> {[lines EXCEPT ![i] = Corrupt] : i \in 1..n}
      [] kind = "drop" ->
             {SubSeq(lines, 1, i - 1) \o SubSeq(lines, i + 1, n) : i \in 1..(n - 1)}
      [] kind = "swap" ->
             {[lines EXCEPT ![i] = lines[i + 1], ![i + 1] = lines[i]] : i \in 1..(n - 1)}
      [] kind = "truncate" -> {SubSeq(lines, 1, i) : i \in 0..(n - 1)}
      [] kind = "forge" ->
             {Chain(ds) : ds \in UNION {[1..m -> Payload] : m \in 1..MaxLines}}
      [] kind = "delete" -> {<<>>}

Damage ==
    /\ Len(damages) < MaxDamage /\ present
    /\ \E kind \in DamageKinds :
          /\ lines' \in Damaged(kind)
          /\ present' = (kind # "delete")
          /\ damages' = Append(damages, kind)
    /\ open' = (open /\ lines' # <<>> /\ lines'[Len(lines')] = lines[Len(lines)])
    /\ UNCHANGED <<holder, pc, entry, acked, tears,
                   commit, notes, witness, apc, aread, asha>>

Anchoring(a) ==
    AnchorRead(a) \/ AnchorRevParse(a) \/ AnchorNote(a) \/ AnchorFail(a)

Next ==
    \/ MemoryStep
    \/ \E a \in Anchorer : Anchoring(a)
    \/ MakeCommit
    \/ Damage

AnchorSpec == AnchorInit /\ [][Next]_vars

-----------------------------------------------------------------------------
(* The readers *)

(* _anchored_head() is not None *)
Anchored == commit # 0 /\ notes[commit] # NoNote

\* Faulty variant: a note for HEAD is taken for a verified anchor.
AnchorVerifies_NotePresent == ChainOK(lines) /\ Anchored

(* `verify --anchor` exits 0 *)
AnchorVerifies == ChainOK(lines) /\ Anchored /\ notes[commit] = HeadHash(lines)

\* Faulty variant: the anchor never enters the gate.
GatePasses_PlainVerify == present => ChainOK(lines)

(* The memory step of a strict release gate passes: no file, no step; the *)
(* anchor counts as soon as any commit has a note.                        *)
GatePasses ==
    present => IF \E c \in Commit : notes[c] # NoNote
               THEN AnchorVerifies ELSE ChainOK(lines)

-----------------------------------------------------------------------------
(* Properties *)

Done == {damages[i] : i \in 1..Len(damages)}
Interior == {"edit", "garble", "drop", "swap"}

AnchoredEventsLogged == \A e \in witness[commit].events : Logged(e)

(* When `verify --anchor` passes on an anchor that was taken of a log that  *)
(* verified, every acknowledged event it was taken of is in the log: no     *)
(* truncation, deletion or recomputed history gets past it.                 *)
AnchorDetectsRewrite ==
    AnchorVerifies /\ witness[commit].sound => AnchoredEventsLogged

(* The docstring's guarantee without that condition: `anchor` is what shows *)
(* that history was not rewritten.                                          *)
AnchorProvesHistory == AnchorVerifies => AnchoredEventsLogged

(* A strict gate that passes on an anchored commit vouches for the events *)
(* the anchor was taken of, as long as the file has not been removed.     *)
GateProvesHistory ==
    GatePasses /\ Anchored /\ witness[commit].sound /\ "delete" \notin Done
        => AnchoredEventsLogged

(* One damage inside a locked log (an event edited, a line garbled, one       *)
(* dropped from between others, two exchanged) is found by a plain verify,    *)
(* also when appends follow it: no acknowledged event is lost behind a        *)
(* passing one.  A second damage may undo the trace of the first.             *)
InteriorDamageShows ==
    HasFlock /\ Len(damages) <= 1 /\ Done \subseteq Interior => NoSilentLoss

(* A verified anchor is one of exactly the log as it is: whatever changes the *)
(* file, an honest append as well as a rewrite, makes `verify --anchor` fail  *)
(* until the next anchor (memory_log.py:215 compares the heads).              *)
AnchorIsExact == [][AnchorVerifies /\ lines' # lines => ~AnchorVerifies']_vars

(* When the docstring's guarantee does hold: appends take turns, no write was *)
(* cut short, and at most one damage was done, before the anchor or after it. *)
UntornAnchorProves ==
    HasFlock /\ tears = 0 /\ Len(damages) <= 1 => AnchorProvesHistory

-----------------------------------------------------------------------------
(* The inductive invariants behind the properties of damaged logs *)

(* An event that can be read carries the number of its line. *)
Numbered == \A i \in 1..Len(lines) : lines[i] # Corrupt => lines[i].seq = i - 1

(* What append() alone makes of the file *)
Undamaged ==
    damages = <<>> =>
        /\ WrittenKept /\ Exclusive /\ LockedChain
        /\ HasFlock => Numbered
        /\ tears = 0 => ~open /\ \A i \in 1..Len(lines) : lines[i] # Corrupt

(* Behind one damage from inside, verify fails or nothing was lost. *)
DamageShows ==
    HasFlock /\ Len(damages) <= 1 /\ Done \subseteq Interior /\ ChainOK(lines) => WrittenKept

(* What an anchor was taken of verified, or the log cannot verify any more. *)
WorthyWitness(w) == w.sound \/ w.events = {} \/ ~ChainOK(lines)
WorthyWitnesses ==
    HasFlock /\ tears = 0 /\ Len(damages) <= 1 =>
        /\ \A a \in Anchorer : WorthyWitness(aread[a])
        /\ \A c \in Commit : WorthyWitness(witness[c])
=============================================================================
