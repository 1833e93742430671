---------------------------- MODULE CommitMessage ----------------------------
(***************************************************************************)
(* The two commit-msg hooks, check_finding_response.py and                 *)
(* check_postmortem_for_bug_fix.py, at the commits of one repository.      *)
(*                                                                         *)
(* git writes the tree of a commit before it opens the editor and runs the *)
(* hooks; the hooks ask the index, which others may change meanwhile.  A   *)
(* message is what the hooks tell apart in it; there is one postmortem     *)
(* whose path it may name.                                                 *)
(***************************************************************************)
EXTENDS Naturals, Sequences

CONSTANTS
    Sources,     \* the files that may be staged
    Messages,    \* what the author may write
    Hooks,       \* the commit-msg hooks that .pre-commit-config.yaml runs: none,
                 \* as it stands; the documents speak of both
    MaxLandings  \* bound on the commits that are made, amendments included

Domain == {"regex", "yaml", "ast", "hooks"}
Field == {"Bug class", "Cluster searched", "Lock-down", "Verbatim-shape verified"}
Value == {"none", "placeholder", "real"}   \* absent or empty, template text, content

Message == [blank : BOOLEAN,       \* the first line is blank
            subject : {"fix", "other", "merge", "revert"},
            optOut : Value,        \* [meta-fix-not-applicable: ...]
            fields : [Field -> Value],
            names : SUBSET Domain, \* the checklists it mentions
            waives : [Domain -> Value],
            noPostmortem : Value,  \* [no-postmortem: ...]
            refs : BOOLEAN]        \* it names the postmortem's path

Local == {"re", "yaml", "ast", "r"}    \* names in a file: the modules' own, and an alias
Call == [local : Local, scope : {"top", "inner"}, attr : {"compile", "load", "other"}]
Import == [local : Local, scope : {"top", "inner"}, module : {"re", "yaml", "ast"}]
Source == [kind : {"hooks", "py", "yaml"},
           parses : BOOLEAN,         \* ast.parse and ast.walk succeed
           imports : Seq(Import),    \* in the order of ast.walk
           calls : SUBSET Call,
           quotes : SUBSET Call,     \* calls in strings and comments
           answers : BOOLEAN]        \* its diff shows lines that read like an answer

ASSUME CommitAssumption ==
    /\ Sources \subseteq Source
    /\ Messages \subseteq Message
    /\ Hooks \subseteq {"finding", "postmortem"}
    /\ MaxLandings \in Nat

VARIABLES
    staged,    \* the files in which the index differs from HEAD
    disk,      \* the postmortem is in the working tree,
    tracked,   \* in the index,
    inHead,    \* in HEAD
    head,      \* HEAD
    commits,   \* how many were made
    pending    \* the commit under way

commitVars == <<staged, disk, tracked, inHead, head, commits, pending>>

-----------------------------------------------------------------------------
(* _detect_python_uses *)

(* Which checklist a call of an attribute of a module is about *)
CallDomain(module, attr) ==
    IF module = "re" /\ attr = "compile" THEN {"regex"}
    ELSE IF module = "yaml" /\ attr = "load" THEN {"yaml"}
    ELSE IF module = "ast" THEN {"ast"} ELSE {}

\* Faulty variant: aliases are not followed.
AliasOf_Ignored(src, local) == local

(* alias_map: over the whole tree, whatever the scope, the last import wins. *)
AliasOf(src, local) ==
    LET binds == {i \in 1..Len(src.imports) : src.imports[i].local = local} IN
    IF binds = {} THEN local
    ELSE src.imports[CHOOSE i \in binds : \A j \in binds : j <= i].module

TreeUses(src) == UNION {CallDomain(AliasOf(src, c.local), c.attr) : c \in src.calls}

(* The regex fallback sees text, and the modules' own names only. *)
TextUses(src) == UNION {CallDomain(c.local, c.attr) : c \in src.calls \cup src.quotes}

PythonUses(src) == IF src.parses THEN TreeUses(src) ELSE TextUses(src)

(* _detect_domains for one staged file; unread: git show failed for it *)
FileDomains(src, unread) ==
    (IF src.kind = "hooks" THEN {"hooks"} ELSE {})
    \cup (IF src.kind = "yaml" THEN {"yaml"}
          ELSE IF unread THEN {} ELSE PythonUses(src))

(* git diff --cached against HEAD; nothing when git fails or times out *)
DetectDomains(answered, unread) ==
    IF answered THEN UNION {FileDomains(s, s \in unread) : s \in staged} ELSE {}

-----------------------------------------------------------------------------
(* The verdicts on the text of the message file *)

(* With `git commit -v` the file also holds the diff, which git cuts off later. *)
(* The first match counts, and the message comes first.                         *)
FileText(m, verbose) ==
    LET answers == verbose /\ \E s \in staged : s.answers
        Else(v) == IF v = "none" /\ answers THEN "real" ELSE v
    IN  [m EXCEPT !.optOut = Else(@),
                  !.fields = [f \in Field |-> Else(m.fields[f])],
                  !.names = IF answers THEN Domain ELSE @,
                  !.noPostmortem = Else(@),
                  !.refs = @ \/ (verbose /\ tracked # inHead)]

(* Neither hook asks anything of these: a message that begins with a blank *)
(* line, a merge, a revert, a subject that is not a fix's.                 *)
Exempt(text) == text.blank \/ text.subject # "fix"

DomainSatisfied(text, d) == d \in text.names \/ text.waives[d] = "real"

\* Faulty variant: a placeholder is content.
FieldProblem_NonEmpty(text, f) == text.fields[f] = "none"

FieldProblem(text, f) == text.fields[f] # "real"

(* check_finding_response.py exits 0 *)
FindingPasses(text, domains) ==
    \/ Exempt(text)
    \/ text.optOut = "real"
    \/ /\ text.optOut = "none"
       /\ \A f \in Field : ~FieldProblem(text, f)
       /\ \A d \in domains : DomainSatisfied(text, d)

(* _path_is_staged_or_tracked *)
StagedOrTracked(answered) == answered /\ tracked

\* Faulty variant: the file is looked for on disk alone.
PostmortemPasses_OnDisk(text, answered) ==
    \/ Exempt(text)
    \/ text.noPostmortem = "real"
    \/ text.noPostmortem = "none" /\ text.refs /\ disk

(* check_postmortem_for_bug_fix.py exits 0 *)
PostmortemPasses(text, answered) ==
    \/ Exempt(text)
    \/ text.noPostmortem = "real"
    \/ text.noPostmortem = "none" /\ text.refs /\ disk /\ StagedOrTracked(answered)

-----------------------------------------------------------------------------
(* The author's working tree and index *)

NoCommit == [left |-> {"none"}]
Idle == pending = NoCommit

(* Files are staged between commits; what it means that the index changes *)
(* during one is shown with the postmortem.                               *)
Stage(s) ==
    /\ Idle /\ s \notin staged
    /\ staged' = staged \cup {s}
    /\ UNCHANGED <<disk, tracked, inHead, head, commits, pending>>

Unstage(s) ==
    /\ Idle /\ s \in staged
    /\ staged' = staged \ {s}
    /\ UNCHANGED <<disk, tracked, inHead, head, commits, pending>>

(* The postmortem is written or deleted, *)
WritePostmortem ==
    /\ disk' = ~disk
    /\ UNCHANGED <<staged, tracked, inHead, head, commits, pending>>

(* The tree of a commit under way is made: what the index changes by now is *)
(* seen by its hooks and not by the commit.                                 *)
IndexMoves ==
    /\ pending' = IF Idle THEN pending ELSE [pending EXCEPT !.routes = @ \cup {"moved"}]
    /\ UNCHANGED <<staged, disk, inHead, head, commits>>

(* its presence or absence is added to the index, *)
AddPostmortem ==
    /\ tracked # disk
    /\ tracked' = disk
    /\ IndexMoves

(* or it is taken from the index alone. *)
Untrack ==
    /\ tracked /\ disk
    /\ tracked' = FALSE
    /\ IndexMoves

-----------------------------------------------------------------------------
(* A commit *)

(* git makes the tree, the author writes the message, and the hooks start. *)
(* An amendment replaces HEAD; its index still differs from that HEAD.     *)
BeginCommit(m, verbose, amend) ==
    /\ Idle
    /\ commits < MaxLandings
    /\ amend \/ staged # {} \/ tracked # inHead
    /\ LET text == FileText(m, verbose) IN
       pending' = [msg |-> m, text |-> text, tree |-> staged, pm |-> tracked,
                   left |-> Hooks, routes |-> IF text # m THEN {"verbose"} ELSE {}]
    /\ UNCHANGED <<staged, disk, tracked, inHead, head, commits>>

(* A hook that fails ends the commit; the author has the message to retry. *)
Judged(hook, passes, route) ==
    /\ pending' = IF passes THEN [pending EXCEPT !.left = @ \ {hook},
                                                !.routes = @ \cup route]
                            ELSE NoCommit
    /\ UNCHANGED <<staged, disk, tracked, inHead, head, commits>>

(* main() of check_finding_response.py; git may fail to list or to show. *)
FindingHook ==
    /\ "finding" \in pending.left
    /\ \E answered \in BOOLEAN, unread \in SUBSET staged :
          Judged("finding", FindingPasses(pending.text, DetectDomains(answered, unread)),
                 IF answered /\ unread = {} THEN {} ELSE {"blind"})

(* main() of check_postmortem_for_bug_fix.py, after it: the hooks run in turn *)
PostmortemHook ==
    /\ "postmortem" \in pending.left /\ "finding" \notin pending.left
    /\ \E answered \in BOOLEAN :
          Judged("postmortem", PostmortemPasses(pending.text, answered), {})

(* What the calls of a file really are about, by Python's scopes: a function *)
(* sees its own imports, then the file's; within a scope the last one counts. *)
CallUses(src, c) ==
    LET In(scope) == {i \in 1..Len(src.imports) :
                         src.imports[i].local = c.local /\ src.imports[i].scope = scope}
        binds == IF In(c.scope) # {} THEN In(c.scope) ELSE In("top")
    IN  IF binds = {} THEN {}
        ELSE CallDomain(src.imports[CHOOSE i \in binds : \A j \in binds : j <= i].module, c.attr)

Uses(src) == (IF src.kind = "py" THEN {} ELSE {src.kind})
             \cup IF src.kind = "yaml" THEN {} ELSE UNION {CallUses(src, c) : c \in src.calls}

(* The gaps that the docstring of _detect_python_uses owns up to: a name that *)
(* stands for two modules; and an alias where only the text can be searched.  *)
OneMeaning(src) ==
    /\ \A i, j \in 1..Len(src.imports) :
          src.imports[i].local = src.imports[j].local
              => src.imports[i].module = src.imports[j].module
    /\ src.parses \/ \A i \in 1..Len(src.imports) :
                        src.imports[i].local = src.imports[i].module

(* All hooks have passed: git makes the commit. *)
Land ==
    /\ pending.left = {}
    /\ LET new == UNION {Uses(s) : s \in {t \in pending.tree : OneMeaning(t)}} IN
       head' = [msg |-> pending.msg, routes |-> pending.routes, adds |-> new]
    /\ commits' = commits + 1
    /\ staged' = staged \ pending.tree
    /\ inHead' = pending.pm
    /\ pending' = NoCommit
    /\ UNCHANGED <<disk, tracked>>

(* The author gives up. *)
AbandonCommit ==
    /\ ~Idle
    /\ pending' = NoCommit
    /\ UNCHANGED <<staged, disk, tracked, inHead, head, commits>>

CommitInit ==
    /\ staged = {}
    /\ inHead \in BOOLEAN /\ tracked = inHead /\ disk = inHead
    /\ head = NoCommit /\ commits = 0
    /\ pending = NoCommit

CommitNext ==
    \/ \E s \in Sources : Stage(s) \/ Unstage(s)
    \/ WritePostmortem \/ AddPostmortem \/ Untrack
    \/ \E m \in Messages, verbose, amend \in BOOLEAN : BeginCommit(m, verbose, amend)
    \/ FindingHook \/ PostmortemHook \/ Land \/ AbandonCommit

CommitSpec == CommitInit /\ [][CommitNext]_commitVars

-----------------------------------------------------------------------------
(* Properties *)

Route == {"blind", "verbose", "moved"}

CommitTypeOK ==
    /\ staged \subseteq Sources
    /\ disk \in BOOLEAN /\ tracked \in BOOLEAN /\ inHead \in BOOLEAN
    /\ head \in {NoCommit} \cup [msg : Messages, routes : SUBSET Route, adds : SUBSET Domain]
    /\ commits \in Nat
    /\ pending \in {NoCommit} \cup
          [msg : Messages, text : Message, tree : SUBSET Sources, pm : BOOLEAN,
           left : SUBSET Hooks, routes : SUBSET Route]

(* HEAD is a fix that git recorded under a message the hooks judged: a blank *)
(* first line, which git strips, hides the subject from them.                *)
JudgedFix == commits > 0 /\ head.msg.subject = "fix" /\ ~head.msg.blank

(* Every fix that becomes HEAD carries the four fields or a reasoned opt-out, *)
(* and names a postmortem or says why there is none, however often the author *)
(* retried or amended; but for `commit -v`, whose diff may give the answer.   *)
FixesCarryAnswers ==
    JudgedFix /\ "verbose" \notin head.routes =>
        /\ head.msg.optOut = "real" \/ \A f \in Field : head.msg.fields[f] = "real"
        /\ head.msg.noPostmortem = "real" \/ head.msg.refs

(* A fix's message answers for every checklist that what it adds calls for (an *)
(* amendment is asked about what it adds alone), unless git failed under the   *)
(* hook, which then sees nothing, or the diff answered.                        *)
FixesCovered ==
    JudgedFix /\ head.routes \subseteq {"moved"} /\ head.msg.optOut # "real"
        => \A d \in head.adds : DomainSatisfied(head.msg, d)

(* A fix that does not opt out lands together with the postmortem it names, or *)
(* after it: a reference never dangles, unless the index changed under the     *)
(* hooks, which ask the index for what the commit's tree, made before, lacks,  *)
(* or the opt-out was the diff's.                                              *)
PostmortemLands ==
    JudgedFix /\ head.msg.noPostmortem # "real" /\ ~inHead
        => head.routes \cap {"moved", "verbose"} # {}

(* CONTRIBUTING.md:58: "When you fix a bug, the commit-msg hook will require *)
(* four fields".                                                             *)
FixesNeedFields ==
    commits > 0 /\ head.msg.subject = "fix" =>
        head.msg.optOut = "real" \/ \A f \in Field : head.msg.fields[f] = "real"
=============================================================================
