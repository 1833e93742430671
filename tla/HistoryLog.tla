------------------------------ MODULE HistoryLog ------------------------------
(***************************************************************************)
(* docs/HISTORY.md: scripts/append_history.py, which adds an entry by      *)
(* replacing the file, and scripts/check_history_sha.py, which wants every *)
(* entry to name a commit that still exists.                               *)
(*                                                                         *)
(* Commits are numbered in the order they are made.  An entry is its       *)
(* header's third field with an identity; the four text fields, their      *)
(* length checks, the timestamp and the session token are left out.        *)
(***************************************************************************)
EXTENDS Naturals, Sequences, FiniteSets

CONSTANTS
    Proc,        \* agents that run append_history.py
    MaxCommits,  \* bound on the commits made
    MaxCalls,    \* bound on the calls of append_history.py
    MaxRewrites  \* bound on the commits replaced by a rebase or an amend

ASSUME HistoryAssumption ==
    MaxCommits \in Nat /\ MaxCalls \in Nat /\ MaxRewrites \in Nat

WORKING == 0                    \* "no commit yet", or git did not answer
CORRECTION == MaxCommits + 1    \* "Correction...", an entry without a SHA
HEAD == MaxCommits + 2          \* --commit-hash was not given
Commit == 1..MaxCommits

(* intent: the commit the entry is about, were the author's pending changes *)
(* committed next.  checked: the SHA is a HEAD that the guard let through.  *)
Entry == [id : Nat, sha : 0..CORRECTION, intent : 0..CORRECTION,
          checked : BOOLEAN]

VARIABLES
    entries,   \* the entries in docs/HISTORY.md
    made,      \* how many commits were ever made; the newest is HEAD
    known,     \* the commits `git log --all` lists
    future,    \* the ones dated more than a day after their entries
    dirty,     \* files other than HISTORY.md and manifest.json are modified
    rewrites,  \* how many commits were replaced
    calls,     \* how many calls were made
    pc,        \* where each process is in main()
    draft,     \* the entry it is writing
    asked,     \* its --commit-hash
    base,      \* the entries it has read in atomic_append
    acked,     \* history: entries whose call returned 0
    raced      \* history: entries put in place under a call that had read before

gitVars == <<made, known, future, dirty, rewrites>>
callVars == <<calls, pc, draft, asked, base>>
historyVars == <<entries, gitVars, callVars, acked, raced>>

Tip == made
NoDraft == [id |-> 1, sha |-> WORKING, intent |-> 0, checked |-> FALSE]

HistoryInit ==
    /\ entries = <<>>
    /\ made = 0 /\ known = {} /\ future = {} /\ dirty = FALSE /\ rewrites = 0
    /\ calls = 0
    /\ pc = [p \in Proc |-> "idle"]
    /\ draft = [p \in Proc |-> NoDraft]
    /\ asked = [p \in Proc |-> HEAD]
    /\ base = [p \in Proc |-> <<>>]
    /\ acked = {} /\ raced = {}

-----------------------------------------------------------------------------
(* The repository *)

EditFiles ==
    /\ ~dirty /\ made < MaxCommits
    /\ dirty' = TRUE
    /\ UNCHANGED <<entries, made, known, future, rewrites, callVars, acked, raced>>

(* A commit takes the pending changes.  Its author date may be wrong. *)
MakeCommit ==
    /\ dirty /\ made < MaxCommits
    /\ made' = made + 1
    /\ known' = known \cup {made'}
    /\ future' \in {future, future \cup {made'}}
    /\ dirty' = FALSE
    /\ UNCHANGED <<entries, rewrites, callVars, acked, raced>>

(* A rebase or an amend: HEAD is replaced, the old commit is gone from --all. *)
RewriteCommit ==
    /\ Tip \in known /\ made < MaxCommits /\ rewrites < MaxRewrites
    /\ made' = made + 1
    /\ known' = (known \ {Tip}) \cup {made'}
    /\ rewrites' = rewrites + 1
    /\ UNCHANGED <<entries, future, dirty, callVars, acked, raced>>

-----------------------------------------------------------------------------
(* append_history.py *)

Goto(p, label) == pc' = [pc EXCEPT ![p] = label]

(* main() with --commit-hash or without.  A SHA that is given is HEAD as the *)
(* author sees it, or the text "Correction".                                *)
CallAppend(p) ==
    /\ pc[p] = "idle" /\ calls < MaxCalls
    /\ calls' = calls + 1
    /\ \E arg \in {HEAD, Tip, CORRECTION} :
          /\ asked' = [asked EXCEPT ![p] = arg]
          /\ Goto(p, IF arg \in {HEAD, WORKING} THEN "guard" ELSE "sha")
    /\ draft' = [draft EXCEPT ![p] =
                    [NoDraft EXCEPT !.id = calls',
                                    !.intent = IF dirty THEN made + 1 ELSE made]]
    /\ UNCHANGED <<entries, gitVars, base, acked, raced>>

\* Faulty variant: pending changes do not stop the fallback to HEAD.
Guard_Lenient(p) ==
    /\ pc[p] = "guard"
    /\ draft' = [draft EXCEPT ![p].checked = TRUE]
    /\ Goto(p, "sha")
    /\ UNCHANGED <<entries, gitVars, calls, asked, base, acked, raced>>

(* _other_files_dirty: git status shows only HISTORY.md and the manifest *)
Guard(p) ==
    /\ pc[p] = "guard"
    /\ ~dirty
    /\ draft' = [draft EXCEPT ![p].checked = TRUE]
    /\ Goto(p, "sha")
    /\ UNCHANGED <<entries, gitVars, calls, asked, base, acked, raced>>

(* git status failed or timed out: the list is empty and main goes on. *)
GuardBlind(p) ==
    /\ pc[p] = "guard"
    /\ Goto(p, "sha")
    /\ UNCHANGED <<entries, gitVars, calls, draft, asked, base, acked, raced>>

\* Faulty variant: the commit that is about to be made is named.
ResolveSha_Next(p) ==
    /\ pc[p] = "sha"
    /\ draft' = [draft EXCEPT ![p].sha =
                    IF asked[p] = HEAD /\ made < MaxCommits THEN made + 1 ELSE made]
    /\ Goto(p, "read")
    /\ UNCHANGED <<entries, gitVars, calls, asked, base, acked, raced>>

\* Faulty variant: a git that does not answer leaves the field without a SHA.
ResolveSha_NoFallback(p) ==
    /\ pc[p] = "sha"
    /\ draft' = [draft EXCEPT ![p].sha = IF made = 0 THEN HEAD ELSE made]
    /\ Goto(p, "read")
    /\ UNCHANGED <<entries, gitVars, calls, asked, base, acked, raced>>

(* The SHA given, or git_short_sha(): "WORKING" without a commit, or when *)
(* git does not answer                                                    *)
ResolveSha(p) ==
    /\ pc[p] = "sha"
    /\ \E sha \in IF asked[p] = HEAD THEN {Tip, WORKING} ELSE {asked[p]} :
          draft' = [draft EXCEPT ![p].sha = sha]
    /\ Goto(p, "read")
    /\ UNCHANGED <<entries, gitVars, calls, asked, base, acked, raced>>

(* atomic_append: read the file, *)
ReadHistory(p) ==
    /\ pc[p] = "read"
    /\ base' = [base EXCEPT ![p] = entries]
    /\ Goto(p, "replace")
    /\ UNCHANGED <<entries, gitVars, calls, draft, asked, acked, raced>>

(* The call is over: its locals are gone. *)
EndCall(p) ==
    /\ Goto(p, "idle")
    /\ draft' = [draft EXCEPT ![p] = NoDraft]
    /\ asked' = [asked EXCEPT ![p] = HEAD]
    /\ base' = [base EXCEPT ![p] = <<>>]
    /\ UNCHANGED <<gitVars, calls>>

Overlapped(p) == \E q \in Proc \ {p} : pc[q] = "replace"

\* Faulty variant: the new text is the entry alone.
Replace_Alone(p) ==
    /\ pc[p] = "replace"
    /\ entries' = <<draft[p]>>
    /\ acked' = acked \cup {draft[p]}
    /\ raced' = IF Overlapped(p) THEN raced \cup {draft[p]} ELSE raced
    /\ EndCall(p)

(* write the temporary file and os.replace it; return 0. *)
Replace(p) ==
    /\ pc[p] = "replace"
    /\ entries' = Append(base[p], draft[p])
    /\ acked' = acked \cup {draft[p]}
    /\ raced' = IF Overlapped(p) THEN raced \cup {draft[p]} ELSE raced
    /\ EndCall(p)

(* The guard refuses (exit 1), an OSError (exit 2), or a kill: HISTORY.md is *)
(* as it was, and at most a temporary file is left beside it.                *)
GiveUp(p) ==
    /\ pc[p] # "idle"
    /\ EndCall(p)
    /\ UNCHANGED <<entries, acked, raced>>

Appending(p) ==
    \/ CallAppend(p) \/ Guard(p) \/ GuardBlind(p) \/ ResolveSha(p)
    \/ ReadHistory(p) \/ Replace(p) \/ GiveUp(p)

HistoryNext == EditFiles \/ MakeCommit \/ RewriteCommit \/ \E p \in Proc : Appending(p)

HistorySpec == HistoryInit /\ [][HistoryNext]_historyVars

-----------------------------------------------------------------------------
(* check_history_sha.py *)

(* One header: the bootstrap marker and corrections pass, a SHA has to *)
(* resolve to a commit that is not future-dated.                       *)
EntryOK(e) ==
    \/ e.sha \in {WORKING, CORRECTION}
    \/ e.sha \in known /\ e.sha \notin future

(* check_history_sha.py exits 0 *)
ShaCheckPasses == \A i \in 1..Len(entries) : EntryOK(entries[i])

-----------------------------------------------------------------------------
(* Properties *)

HistoryTypeOK ==
    /\ entries \in Seq(Entry)
    /\ made \in 0..MaxCommits /\ known \subseteq Commit /\ future \subseteq Commit
    /\ dirty \in BOOLEAN /\ rewrites \in 0..MaxRewrites /\ calls \in 0..MaxCalls
    /\ pc \in [Proc -> {"idle", "guard", "sha", "read", "replace"}]
    /\ draft \in [Proc -> Entry]
    /\ asked \in [Proc -> 0..HEAD]
    /\ base \in [Proc -> Seq(Entry)]
    /\ acked \subseteq Entry /\ raced \subseteq Entry

Recorded(e) == \E i \in 1..Len(entries) : entries[i] = e

(* A call that no other call's read came before keeps its entry for ever: *)
(* neither a call that dies nor one that runs later takes it back.        *)
OnlyRacesLose == \A e \in acked : Recorded(e) \/ e \in raced

(* HISTORY.md is append-only ("DO NOT EDIT prior entries"): an entry whose *)
(* call returned 0 stays in the file.                                      *)
HistoryKeepsEntries == \A e \in acked : Recorded(e)

(* The off-by-one trap: an entry that the guard let through never names the *)
(* parent of the commit that took the changes pending when it was called.   *)
NeverNamesParent ==
    \A i \in 1..Len(entries) :
        LET e == entries[i] IN
        e.checked /\ e.sha # WORKING => e.sha >= e.intent

(* Entries go stale only by what git does later, never by how they were     *)
(* written: without a replaced commit or a wrong date the check passes.     *)
DriftNeedsRewrite == rewrites = 0 /\ future = {} => ShaCheckPasses

(* Until a call is over while another has read, the file only grows, at its *)
(* end: the header's claim, where calls take turns.                         *)
GrowsUntilRaced ==
    [][raced' = {} => \A i \in 1..Len(entries) :
                         i \in 1..Len(entries') /\ entries'[i] = entries[i]]_historyVars

(* With a single agent HISTORY.md is the append-only log of AppendOnlyLog: *)
(* an entry is final once it is there, and nothing ever breaks.            *)
KeptLog == INSTANCE AppendOnlyLog WITH
    Payload <- Entry, log <- entries, final <- Len(entries), broken <- FALSE

OneAgent == \A p, q \in Proc : p = q
IsAppendOnly == KeptLog!Spec

(* The inductive invariant behind both: before the first race, whoever has *)
(* read the file holds it as it is.                                        *)
CopiesCurrent == raced = {} => \A p \in Proc : pc[p] = "replace" => base[p] = entries
=============================================================================
