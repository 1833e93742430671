---------------------------- MODULE CommitProofs -----------------------------
(***************************************************************************)
(* Proofs about CommitMessage and RegressionPins for every set of files,   *)
(* messages and lessons and any number of commits.  That a fix answers     *)
(* needs both hooks to run.                                                *)
(***************************************************************************)
EXTENDS CommitMessage, RegressionPins, WellFoundedInduction, TLAPS

BothHooks == Hooks = {"finding", "postmortem"}

-----------------------------------------------------------------------------
(* Operators *)

(* A nonempty set of positions in a list has a last one. *)
LEMMA LastExists ==
    ASSUME NEW n \in Nat, NEW S \in SUBSET (1..n), S # {}
    PROVE  \E i \in S : \A j \in S : j <= i
  <1> DEFINE T == {k \in Nat : n - k \in S}
             R == {ss \in Nat \X Nat : ss[1] < ss[2]}
  <1>1. T \subseteq Nat /\ T # {}
    <2>1. PICK i \in S : TRUE
      OBVIOUS
    <2>2. n - i \in Nat /\ n - (n - i) = i
      BY <2>1
    <2> QED BY <2>1, <2>2
  <1>2. IsWellFoundedOn(R, Nat)
    BY NatLessThanWellFounded DEF OpToRel
  <1> HIDE DEF T
  <1>3. PICK k \in T : \A l \in T : <<l, k>> \notin R
    BY <1>1, <1>2, WFMin
  <1>4. ASSUME NEW l \in T
        PROVE  k <= l
    <2>1. k \in Nat /\ l \in Nat /\ <<l, k>> \notin R
      BY <1>1, <1>3
    <2>2. ~(l < k)
      BY <2>1
    <2> QED BY <2>1, <2>2
  <1> USE DEF T
  <1>5. \A j \in S : n - j \in T
    OBVIOUS
  <1>6. ASSUME NEW j \in S
        PROVE  j <= n - k
    <2>1. k <= n - j
      BY <1>4, <1>5
    <2> QED BY <1>1, <2>1
  <1> QED BY <1>3, <1>6

(* A text that git's diff has been added to is still a message. *)
LEMMA FileTextType ==
    ASSUME NEW m \in Message, NEW verbose \in BOOLEAN
    PROVE  FileText(m, verbose) \in Message
  BY DEF FileText, Message, Value, Field, Domain

(* Calls are about the four checklists. *)
LEMMA UsesType ==
    ASSUME NEW s \in Source
    PROVE  Uses(s) \subseteq Domain
  <1>1. \A module, attr : CallDomain(module, attr) \subseteq Domain
    BY DEF CallDomain, Domain
  <1>2. \A c : CallUses(s, c) \subseteq Domain
    BY <1>1 DEF CallUses
  <1>3. s.kind = "py" \/ s.kind \in Domain
    BY DEF Source, Domain
  <1> QED BY <1>2, <1>3 DEF Uses

(* In a file where every name has one meaning the hook sees all that the file *)
(* really uses.                                                               *)
LEMMA UsesDetected ==
    ASSUME NEW s \in Source, OneMeaning(s)
    PROVE  Uses(s) \subseteq FileDomains(s, FALSE)
  <1>1. ASSUME NEW c \in s.calls, NEW d \in CallUses(s, c)
        PROVE  d \in PythonUses(s)
    <2> DEFINE All == {i \in 1..Len(s.imports) : s.imports[i].local = c.local}
               In(scope) == {i \in 1..Len(s.imports) :
                                s.imports[i].local = c.local /\ s.imports[i].scope = scope}
               binds == IF In(c.scope) # {} THEN In(c.scope) ELSE In("top")
    <2>1. Len(s.imports) \in Nat /\ binds \subseteq All /\ All \in SUBSET (1..Len(s.imports))
      BY DEF Source
    <2>2. binds # {}
      BY <1>1 DEF CallUses
    <2>3. PICK k \in binds : d \in CallDomain(s.imports[k].module, c.attr)
      <3>1. \E i \in binds : \A j \in binds : j <= i
        BY <2>1, <2>2, LastExists
      <3> QED BY <1>1, <2>2, <3>1 DEF CallUses
    <2>4. CASE s.parses
      <3> HIDE DEF All, binds
      <3>1. All # {}
        BY <2>1, <2>2
      <3>2. \E i \in All : \A j \in All : j <= i
        BY <2>1, <3>1, LastExists
      <3> USE DEF All, binds
      <3>3. PICK i \in All : AliasOf(s, c.local) = s.imports[i].module
        BY <3>1, <3>2 DEF AliasOf
      <3>4. s.imports[i].module = s.imports[k].module
        BY <2>1, <2>3, <3>3 DEF OneMeaning
      <3> QED BY <1>1, <2>3, <2>4, <3>3, <3>4 DEF PythonUses, TreeUses
    <2>5. CASE ~s.parses
      <3>1. c.local = s.imports[k].module
        BY <2>1, <2>3, <2>5 DEF OneMeaning
      <3> QED BY <1>1, <2>3, <2>5, <3>1 DEF PythonUses, TextUses
    <2> QED BY <2>4, <2>5
  <1>2. Uses(s) \subseteq {"hooks", "yaml"} \cup PythonUses(s)
    BY <1>1 DEF Uses, Source
  <1> QED BY <1>1 DEF Uses, FileDomains, Source
-----------------------------------------------------------------------------
(* Types *)

PendingCommit ==
    [msg : Messages, text : Message, tree : SUBSET Sources, pm : BOOLEAN,
     left : SUBSET Hooks, routes : SUBSET Route]

(* What is no commit is not one with an empty list of hooks. *)
LEMMA NoCommitLeft == NoCommit.left # {} /\ "finding" \notin NoCommit.left
                      /\ "postmortem" \notin NoCommit.left
  BY DEF NoCommit

LEMMA CommitTypeInit == CommitInit => CommitTypeOK
  BY CommitAssumption DEF CommitInit, CommitTypeOK, CommitAssumption

(* The index of the postmortem changes, before or during a commit. *)
LEMMA TypeMoves ==
    ASSUME CommitTypeOK, IndexMoves, tracked' \in BOOLEAN
    PROVE  CommitTypeOK'
  <1>1. CASE Idle
    BY <1>1 DEF CommitTypeOK, IndexMoves, Idle
  <1>2. CASE ~Idle
    <2>1. pending \in PendingCommit /\ pending' = [pending EXCEPT !.routes = @ \cup {"moved"}]
      BY <1>2 DEF CommitTypeOK, IndexMoves, Idle, PendingCommit
    <2>2. pending' \in PendingCommit
      BY <2>1 DEF PendingCommit, Route
    <2> QED BY <2>2 DEF CommitTypeOK, IndexMoves, PendingCommit
  <1> QED BY <1>1, <1>2

(* A hook judges. *)
LEMMA TypeJudged ==
    ASSUME CommitTypeOK, NEW hook \in pending.left, pending # NoCommit,
           NEW passes, NEW route \in SUBSET Route, Judged(hook, passes, route)
    PROVE  CommitTypeOK'
  <1>1. pending \in PendingCommit
    BY DEF CommitTypeOK, PendingCommit
  <1>2. CASE passes
    <2>1. pending' = [pending EXCEPT !.left = @ \ {hook}, !.routes = @ \cup route]
      BY <1>2 DEF Judged
    <2>2. pending' \in PendingCommit
      BY <1>1, <2>1 DEF PendingCommit
    <2> QED BY <2>2 DEF CommitTypeOK, Judged, PendingCommit
  <1>3. CASE ~passes
    BY <1>3 DEF CommitTypeOK, Judged
  <1> QED BY <1>2, <1>3

LEMMA CommitTypeStep == CommitTypeOK /\ [CommitNext]_commitVars => CommitTypeOK'
  <1> SUFFICES ASSUME CommitTypeOK, [CommitNext]_commitVars PROVE CommitTypeOK'
    OBVIOUS
  <1>1. ASSUME NEW s \in Sources, Stage(s) \/ Unstage(s) PROVE CommitTypeOK'
    BY <1>1 DEF CommitTypeOK, Stage, Unstage
  <1>2. ASSUME WritePostmortem PROVE CommitTypeOK'
    BY <1>2 DEF CommitTypeOK, WritePostmortem
  <1>3. ASSUME AddPostmortem \/ Untrack PROVE CommitTypeOK'
    <2>1. IndexMoves /\ tracked' \in BOOLEAN
      BY <1>3 DEF AddPostmortem, Untrack, CommitTypeOK
    <2> QED BY <2>1, TypeMoves
  <1>4. ASSUME NEW m \in Messages, NEW verbose \in BOOLEAN, NEW amend \in BOOLEAN,
               BeginCommit(m, verbose, amend)
        PROVE  CommitTypeOK'
    <2> DEFINE text == FileText(m, verbose)
    <2>1. text \in Message
      BY CommitAssumption, FileTextType DEF CommitAssumption
    <2>2. pending' = [msg |-> m, text |-> text, tree |-> staged, pm |-> tracked,
                      left |-> Hooks, routes |-> IF text # m THEN {"verbose"} ELSE {}]
      BY <1>4 DEF BeginCommit
    <2> HIDE DEF text
    <2>3. pending' \in PendingCommit
      BY <2>1, <2>2 DEF PendingCommit, CommitTypeOK, Route
    <2> QED BY <1>4, <2>3 DEF CommitTypeOK, BeginCommit, PendingCommit
  <1>5. ASSUME FindingHook PROVE CommitTypeOK'
    <2>1. PICK answered \in BOOLEAN, unread \in SUBSET staged :
             Judged("finding", FindingPasses(pending.text, DetectDomains(answered, unread)),
                    IF answered /\ unread = {} THEN {} ELSE {"blind"})
      BY <1>5 DEF FindingHook
    <2>2. "finding" \in pending.left /\ pending # NoCommit
      BY <1>5, NoCommitLeft DEF FindingHook
    <2>3. (IF answered /\ unread = {} THEN {} ELSE {"blind"}) \in SUBSET Route
      BY DEF Route
    <2> QED BY <2>1, <2>2, <2>3, TypeJudged
  <1>6. ASSUME PostmortemHook PROVE CommitTypeOK'
    <2>1. PICK answered \in BOOLEAN :
             Judged("postmortem", PostmortemPasses(pending.text, answered), {})
      BY <1>6 DEF PostmortemHook
    <2>2. "postmortem" \in pending.left /\ pending # NoCommit /\ {} \in SUBSET Route
      BY <1>6, NoCommitLeft DEF PostmortemHook
    <2> QED BY <2>1, <2>2, TypeJudged
  <1>7. ASSUME Land PROVE CommitTypeOK'
    <2> DEFINE new == UNION {Uses(s) : s \in {t \in pending.tree : OneMeaning(t)}}
    <2>1. pending \in PendingCommit
      BY <1>7, NoCommitLeft DEF Land, CommitTypeOK, PendingCommit
    <2>2. new \in SUBSET Domain
      BY <2>1, CommitAssumption, UsesType DEF CommitAssumption, PendingCommit
    <2>3. head' = [msg |-> pending.msg, routes |-> pending.routes, adds |-> new]
      BY <1>7 DEF Land
    <2> HIDE DEF new
    <2>4. head' \in [msg : Messages, routes : SUBSET Route, adds : SUBSET Domain]
      BY <2>1, <2>2, <2>3 DEF PendingCommit
    <2>5. inHead' \in BOOLEAN /\ commits' = commits + 1
      BY <1>7, <2>1 DEF Land, PendingCommit
    <2> QED BY <1>7, <2>4, <2>5 DEF CommitTypeOK, Land
  <1>8. ASSUME AbandonCommit PROVE CommitTypeOK'
    BY <1>8 DEF CommitTypeOK, AbandonCommit
  <1>9. ASSUME UNCHANGED commitVars PROVE CommitTypeOK'
    BY <1>9 DEF CommitTypeOK, commitVars
  <1> QED BY <1>1, <1>2, <1>3, <1>4, <1>5, <1>6, <1>7, <1>8, <1>9 DEF CommitNext

(* Every commit under way and every HEAD is well formed, whatever the files, *)
(* the messages and the hooks that run.                                      *)
THEOREM CommitTypeCorrect == CommitSpec => []CommitTypeOK
  BY CommitTypeInit, CommitTypeStep, PTL DEF CommitSpec

-----------------------------------------------------------------------------
(* What the hooks that have passed have seen *)

(* Where its tree and its text are what the hooks were shown *)
SeesCommit ==
    /\ pending.tree = staged
    /\ "verbose" \notin pending.routes => pending.text = pending.msg
    /\ "moved" \notin pending.routes => tracked = pending.pm

(* The checklists that the tree of the commit calls for, as far as the hook can tell *)
Called == UNION {FileDomains(s, FALSE) : s \in pending.tree}

FindingSeen ==
    "finding" \notin pending.left =>
        \E domains : /\ FindingPasses(pending.text, domains)
                     /\ "blind" \notin pending.routes => Called \subseteq domains

PostmortemSeen ==
    "postmortem" \notin pending.left =>
        \/ Exempt(pending.text)
        \/ pending.text.noPostmortem = "real"
        \/ pending.text.refs /\ ("moved" \notin pending.routes => pending.pm)

(* FixesCarryAnswers, FixesCovered and PostmortemLands speak of HEAD alone; the *)
(* rest says what a commit that is about to become HEAD has passed.             *)
CommitInv ==
    /\ CommitTypeOK
    /\ ~Idle => SeesCommit /\ FindingSeen /\ PostmortemSeen
    /\ FixesCarryAnswers /\ FixesCovered /\ PostmortemLands

HeadProperties == FixesCarryAnswers /\ FixesCovered /\ PostmortemLands

LEMMA HeadStays ==
    ASSUME HeadProperties, UNCHANGED <<head, inHead, commits>>
    PROVE  HeadProperties'
  BY DEF HeadProperties, FixesCarryAnswers, FixesCovered, PostmortemLands, JudgedFix

LEMMA CommitInvInit == BothHooks /\ CommitInit => CommitInv
  BY CommitTypeInit DEF CommitInit, CommitInv, Idle, FixesCarryAnswers, FixesCovered,
                  PostmortemLands, JudgedFix

(* git makes the tree and shows the hooks the text: none has passed yet. *)
LEMMA BeginSeen ==
    ASSUME CommitInv, BothHooks, NEW m \in Messages, NEW verbose \in BOOLEAN,
           NEW amend \in BOOLEAN, BeginCommit(m, verbose, amend)
    PROVE  (SeesCommit /\ FindingSeen /\ PostmortemSeen)'
  <1> DEFINE text == FileText(m, verbose)
  <1>1. /\ pending' = [msg |-> m, text |-> text, tree |-> staged, pm |-> tracked,
                       left |-> Hooks, routes |-> IF text # m THEN {"verbose"} ELSE {}]
        /\ staged' = staged /\ tracked' = tracked
    BY DEF BeginCommit
  <1> HIDE DEF text
  <1>2. SeesCommit'
    BY <1>1 DEF SeesCommit
  <1>3. "finding" \in pending'.left /\ "postmortem" \in pending'.left
    BY <1>1 DEF BothHooks
  <1> QED BY <1>2, <1>3 DEF FindingSeen, PostmortemSeen

(* The index of the postmortem changes. *)
LEMMA MovesSeen ==
    ASSUME CommitInv, ~Idle, IndexMoves
    PROVE  (SeesCommit /\ FindingSeen /\ PostmortemSeen)'
  <1>1. pending \in PendingCommit
    BY DEF CommitInv, CommitTypeOK, Idle, PendingCommit
  <1>2. /\ pending' = [pending EXCEPT !.routes = @ \cup {"moved"}]
        /\ staged' = staged
    BY DEF IndexMoves
  <1>3. /\ pending'.msg = pending.msg /\ pending'.text = pending.text
        /\ pending'.tree = pending.tree /\ pending'.left = pending.left
        /\ pending'.pm = pending.pm /\ pending'.routes = pending.routes \cup {"moved"}
    BY <1>1, <1>2 DEF PendingCommit
  <1>4. SeesCommit'
    BY <1>2, <1>3 DEF SeesCommit, CommitInv
  <1>5. FindingSeen'
    <2>1. Called' = Called
      BY <1>3 DEF Called
    <2> QED BY <1>3, <2>1 DEF FindingSeen, CommitInv
  <1>6. PostmortemSeen'
    BY <1>3 DEF PostmortemSeen, CommitInv, Exempt
  <1> QED BY <1>4, <1>5, <1>6

(* The finding hook passes: unless git failed it saw the whole commit. *)
LEMMA FindingHookSeen ==
    ASSUME CommitInv, FindingHook
    PROVE  (~Idle => SeesCommit /\ FindingSeen /\ PostmortemSeen)'
  <1>1. PICK answered \in BOOLEAN, unread \in SUBSET staged :
           Judged("finding", FindingPasses(pending.text, DetectDomains(answered, unread)),
                  IF answered /\ unread = {} THEN {} ELSE {"blind"})
    BY DEF FindingHook
  <1> DEFINE domains == DetectDomains(answered, unread)
             passes == FindingPasses(pending.text, domains)
             route == IF answered /\ unread = {} THEN {} ELSE {"blind"}
  <1>2. pending \in PendingCommit /\ ~Idle
    BY NoCommitLeft DEF FindingHook, CommitInv, CommitTypeOK, PendingCommit, Idle
  <1>3. CASE ~passes
    BY <1>1, <1>3 DEF Judged, Idle
  <1>4. CASE passes
    <2>1. /\ pending' = [pending EXCEPT !.left = @ \ {"finding"}, !.routes = @ \cup route]
          /\ staged' = staged /\ tracked' = tracked
      BY <1>1, <1>4 DEF Judged
    <2>2. "blind" \notin route => Called \subseteq domains
      <3>1. SUFFICES ASSUME "blind" \notin route PROVE Called \subseteq domains
        OBVIOUS
      <3>2. answered /\ unread = {} /\ pending.tree = staged
        BY <1>2, <3>1 DEF CommitInv, SeesCommit
      <3>3. domains = UNION {FileDomains(s, s \in {}) : s \in staged}
        BY <3>2 DEF DetectDomains
      <3>4. \A s : FileDomains(s, s \in {}) = FileDomains(s, FALSE)
        BY DEF FileDomains
      <3> QED BY <3>2, <3>3, <3>4 DEF Called
    <2> HIDE DEF domains, route
    <2>3. /\ pending'.msg = pending.msg /\ pending'.text = pending.text
          /\ pending'.tree = pending.tree /\ pending'.left = pending.left \ {"finding"}
          /\ pending'.pm = pending.pm /\ pending'.routes = pending.routes \cup route
      BY <1>2, <2>1 DEF PendingCommit
    <2>4. "verbose" \notin pending'.routes => "verbose" \notin pending.routes
      BY <2>3
    <2>5. SeesCommit'
      BY <1>2, <2>1, <2>3, <2>4 DEF SeesCommit, CommitInv
    <2>6. FindingPasses(pending'.text, domains) /\ Called' = Called
      BY <1>4, <2>3 DEF Called
    <2>7. FindingSeen'
      BY <2>2, <2>3, <2>6 DEF FindingSeen
    <2>8. PostmortemSeen'
      BY <1>2, <2>3 DEF PostmortemSeen, CommitInv, Exempt
    <2> QED BY <2>5, <2>7, <2>8
  <1> QED BY <1>3, <1>4

(* The postmortem hook passes: without an opt-out the index has what is named. *)
LEMMA PostmortemHookSeen ==
    ASSUME CommitInv, PostmortemHook
    PROVE  (~Idle => SeesCommit /\ FindingSeen /\ PostmortemSeen)'
  <1>1. PICK answered \in BOOLEAN :
           Judged("postmortem", PostmortemPasses(pending.text, answered), {})
    BY DEF PostmortemHook
  <1> DEFINE passes == PostmortemPasses(pending.text, answered)
  <1>2. pending \in PendingCommit /\ ~Idle
    BY NoCommitLeft DEF PostmortemHook, CommitInv, CommitTypeOK, PendingCommit, Idle
  <1>3. CASE ~passes
    BY <1>1, <1>3 DEF Judged, Idle
  <1>4. CASE passes
    <2>1. /\ pending' = [pending EXCEPT !.left = @ \ {"postmortem"}, !.routes = @ \cup {}]
          /\ staged' = staged /\ tracked' = tracked
      BY <1>1, <1>4 DEF Judged
    <2>2. /\ pending'.msg = pending.msg /\ pending'.text = pending.text
          /\ pending'.tree = pending.tree /\ pending'.left = pending.left \ {"postmortem"}
          /\ pending'.pm = pending.pm /\ pending'.routes = pending.routes
      BY <1>2, <2>1 DEF PendingCommit
    <2>3. SeesCommit'
      BY <1>2, <2>1, <2>2 DEF SeesCommit, CommitInv
    <2>4. FindingSeen'
      <3>1. Called' = Called
        BY <2>2 DEF Called
      <3> QED BY <1>2, <2>2, <3>1 DEF FindingSeen, CommitInv
    <2>5. PostmortemSeen'
      <3>1. "moved" \notin pending.routes => tracked = pending.pm
        BY <1>2 DEF CommitInv, SeesCommit
      <3>2. \/ Exempt(pending.text) \/ pending.text.noPostmortem = "real"
            \/ pending.text.refs /\ tracked
        BY <1>4 DEF PostmortemPasses, StagedOrTracked
      <3> QED BY <2>2, <3>1, <3>2 DEF PostmortemSeen, Exempt
    <2> QED BY <2>3, <2>4, <2>5
  <1> QED BY <1>3, <1>4

(* Both hooks have passed: what lands has what they asked for. *)
LEMMA LandAnswers ==
    ASSUME CommitInv, Land
    PROVE  HeadProperties'
  <1>1. pending \in PendingCommit /\ ~Idle
    BY NoCommitLeft DEF Land, CommitInv, CommitTypeOK, PendingCommit, Idle
  <1> DEFINE new == UNION {Uses(s) : s \in {t \in pending.tree : OneMeaning(t)}}
             msg == pending.msg
  <1>2. /\ head' = [msg |-> msg, routes |-> pending.routes, adds |-> new]
        /\ inHead' = pending.pm
        /\ pending.left = {}
    BY DEF Land
  <1> HIDE DEF new
  <1>3. head'.msg = msg /\ head'.routes = pending.routes /\ head'.adds = new
    BY <1>2
  <1>4. SeesCommit /\ FindingSeen /\ PostmortemSeen
    BY <1>1 DEF CommitInv
  <1>5. PICK domains : /\ FindingPasses(pending.text, domains)
                       /\ "blind" \notin pending.routes => Called \subseteq domains
    BY <1>2, <1>4 DEF FindingSeen
  <1>6. \/ Exempt(pending.text) \/ pending.text.noPostmortem = "real"
        \/ pending.text.refs /\ ("moved" \notin pending.routes => pending.pm)
    BY <1>2, <1>4 DEF PostmortemSeen
  <1>7. ASSUME JudgedFix', "verbose" \notin pending.routes
        PROVE  ~Exempt(pending.text) /\ pending.text = msg
    BY <1>3, <1>4, <1>7 DEF JudgedFix, SeesCommit, Exempt
  <1>8. FixesCarryAnswers'
    <2>1. SUFFICES ASSUME JudgedFix', "verbose" \notin pending.routes
                   PROVE  /\ msg.optOut = "real" \/ \A f \in Field : msg.fields[f] = "real"
                          /\ msg.noPostmortem = "real" \/ msg.refs
      BY <1>3 DEF FixesCarryAnswers
    <2>2. ~Exempt(pending.text) /\ pending.text = msg
      BY <1>7, <2>1
    <2>3. FindingPasses(msg, domains) /\ ~Exempt(msg)
      BY <1>5, <2>2
    <2>4. msg.optOut = "real" \/ \A f \in Field : msg.fields[f] = "real"
      BY <2>3 DEF FindingPasses, FieldProblem
    <2> QED BY <1>6, <2>2, <2>4
  <1>9. FixesCovered'
    <2>1. SUFFICES ASSUME JudgedFix', pending.routes \subseteq {"moved"}, msg.optOut # "real",
                          NEW d \in new
                   PROVE  DomainSatisfied(msg, d)
      BY <1>3 DEF FixesCovered
    <2>2. "verbose" \notin pending.routes /\ "blind" \notin pending.routes
      BY <2>1
    <2>3. ~Exempt(pending.text) /\ pending.text = msg
      BY <1>7, <2>1, <2>2
    <2>4. \A e \in domains : DomainSatisfied(msg, e)
      BY <1>5, <2>1, <2>3 DEF FindingPasses
    <2>5. PICK s \in pending.tree : OneMeaning(s) /\ d \in Uses(s)
      BY <2>1 DEF new
    <2>6. s \in Source
      BY <1>1, CommitAssumption DEF PendingCommit, CommitAssumption
    <2>7. d \in FileDomains(s, FALSE)
      BY <2>5, <2>6, UsesDetected
    <2>8. d \in domains
      BY <1>5, <2>2, <2>7 DEF Called
    <2> QED BY <2>4, <2>8
  <1>10. PostmortemLands'
    <2>1. SUFFICES ASSUME JudgedFix', msg.noPostmortem # "real", ~pending.pm,
                          pending.routes \cap {"moved", "verbose"} = {}
                   PROVE  FALSE
      BY <1>2, <1>3 DEF PostmortemLands
    <2>2. ~Exempt(pending.text) /\ pending.text = msg
      BY <1>7, <2>1
    <2> QED BY <1>6, <2>1, <2>2
  <1> QED BY <1>8, <1>9, <1>10 DEF HeadProperties

LEMMA CommitInvStep == BothHooks /\ CommitInv /\ [CommitNext]_commitVars => CommitInv'
  <1> SUFFICES ASSUME BothHooks, CommitInv, [CommitNext]_commitVars PROVE CommitInv'
    OBVIOUS
  <1> DEFINE Seen == SeesCommit /\ FindingSeen /\ PostmortemSeen
  <1>1. CommitTypeOK'
    BY CommitTypeStep DEF CommitInv
  <1>2. (~Idle => Seen)'
    <2>1. ASSUME NEW s \in Sources, Stage(s) \/ Unstage(s) PROVE (~Idle => Seen)'
      BY <2>1 DEF Stage, Unstage, Idle
    <2>2. ASSUME WritePostmortem \/ UNCHANGED commitVars PROVE (~Idle => Seen)'
      <3>1. pending' = pending /\ staged' = staged /\ tracked' = tracked
        BY <2>2 DEF WritePostmortem, commitVars
      <3> QED BY <3>1 DEF CommitInv, Idle, SeesCommit, FindingSeen, PostmortemSeen, Called
    <2>3. ASSUME AddPostmortem \/ Untrack PROVE (~Idle => Seen)'
      <3>1. IndexMoves
        BY <2>3 DEF AddPostmortem, Untrack
      <3> QED BY <3>1, MovesSeen DEF IndexMoves, Idle
    <2>4. ASSUME NEW m \in Messages, NEW verbose \in BOOLEAN, NEW amend \in BOOLEAN,
                 BeginCommit(m, verbose, amend)
          PROVE  (~Idle => Seen)'
      BY <2>4, BeginSeen
    <2>5. ASSUME FindingHook PROVE (~Idle => Seen)'
      BY <2>5, FindingHookSeen
    <2>6. ASSUME PostmortemHook PROVE (~Idle => Seen)'
      BY <2>6, PostmortemHookSeen
    <2>7. ASSUME Land \/ AbandonCommit PROVE (~Idle => Seen)'
      BY <2>7 DEF Land, AbandonCommit, Idle
    <2> HIDE DEF Seen
    <2> QED BY <2>1, <2>2, <2>3, <2>4, <2>5, <2>6, <2>7 DEF CommitNext
  <1>3. HeadProperties'
    <2>1. HeadProperties
      BY DEF CommitInv, HeadProperties
    <2>2. CASE Land
      BY <2>2, LandAnswers
    <2>3. CASE ~Land
      <3>1. UNCHANGED <<head, inHead, commits>>
        BY <2>3 DEF CommitNext, commitVars, Stage, Unstage, WritePostmortem, AddPostmortem,
                    Untrack, IndexMoves, BeginCommit, FindingHook, PostmortemHook, Judged,
                    AbandonCommit
      <3> QED BY <2>1, <3>1, HeadStays
    <2> QED BY <2>2, <2>3
  <1> QED BY <1>1, <1>2, <1>3 DEF CommitInv, HeadProperties

LEMMA CommitInvariant == BothHooks => (CommitSpec => []CommitInv)
  <1> SUFFICES ASSUME BothHooks PROVE CommitSpec => []CommitInv
    OBVIOUS
  <1>1. CommitInit => CommitInv
    BY CommitInvInit
  <1>2. CommitInv /\ [CommitNext]_commitVars => CommitInv'
    BY CommitInvStep
  <1> QED BY <1>1, <1>2, PTL DEF CommitSpec

(* With both hooks run, every fix that becomes HEAD carries the answers that *)
(* check_finding_response.py and check_postmortem_for_bug_fix.py ask for, if *)
(* the diff in the editor did not answer, through any retries and amendments. *)
THEOREM FixesAnswer == BothHooks => (CommitSpec => []FixesCarryAnswers)
  <1>1. CommitInv => FixesCarryAnswers
    BY DEF CommitInv
  <1> QED BY <1>1, CommitInvariant, PTL

(* And it covers every checklist that what it adds calls for, as Python reads *)
(* the files: _detect_python_uses misses no use by a name of one meaning.     *)
THEOREM ChecklistsCovered == BothHooks => (CommitSpec => []FixesCovered)
  <1>1. CommitInv => FixesCovered
    BY DEF CommitInv
  <1> QED BY <1>1, CommitInvariant, PTL

(* And the postmortem that it names is in it, if the index stood still. *)
THEOREM NoDanglingPostmortem == BothHooks => (CommitSpec => []PostmortemLands)
  <1>1. CommitInv => PostmortemLands
    BY DEF CommitInv
  <1> QED BY <1>1, CommitInvariant, PTL
-----------------------------------------------------------------------------
(* The lessons' pins *)

(* Trees that agree on the files that may test a validator pair it alike. *)
LEMMA SamePair ==
    ASSUME NEW one, NEW other, NEW v \in Validators, \A t \in TestsOf(v) : one[t] = other[t]
    PROVE  /\ PairedSuite(one, v) = PairedSuite(other, v)
           /\ \A k : Exercised(one, v, k) <=> Exercised(other, v, k)
  <1> DEFINE name(n) == <<"test">> \o SubSeq(v, 1, n)
             ns == Candidates(one, v)
             last == CHOOSE i \in ns : \A j \in ns : j <= i
  <1>1. ASSUME NEW n \in 1..Len(v), name(n) \in TestFiles
        PROVE  one[name(n)] = other[name(n)]
    BY <1>1 DEF TestsOf
  <1>2. Candidates(other, v) = ns
    BY <1>1, Zenon DEF Candidates
  <1>3. PairedSuite(one, v) = PairedSuite(other, v)
    <2>1. CASE ns = {}
      BY <1>2, <2>1, Zenon DEF PairedSuite
    <2>2. CASE ns # {}
      <3>1. Len(v) \in Nat /\ ns \in SUBSET (1..Len(v))
        BY PinsAssumption DEF PinsAssumption, Candidates
      <3>2. last \in ns
        <4> HIDE DEF ns
        <4> QED BY <2>2, <3>1, LastExists
      <3>3. last \in 1..Len(v) /\ name(last) \in TestFiles
        BY <3>2, Zenon DEF Candidates
      <3>4. one[name(last)] = other[name(last)]
        <4> HIDE DEF last
        <4> QED BY <1>1, <3>3
      <3>5. PairedSuite(one, v) = one[name(last)]
        BY <2>2 DEF PairedSuite
      <3>6. PairedSuite(other, v) = other[name(last)]
        BY <1>2, <2>2 DEF PairedSuite
      <3> QED BY <3>4, <3>5, <3>6, Zenon
    <2> QED BY <2>1, <2>2
  <1> QED BY <1>3, Zenon DEF Exercised

(* What the hook finds covered is exercised. *)
LEMMA CoveredIsExercised ==
    ASSUME NEW tree, NEW v, PairedSuite(tree, v) # Gone,
           NEW k, FieldCovered(PairedSuite(tree, v), k)
    PROVE  Exercised(tree, v, k)
  BY DEF FieldCovered, FieldShapes, Fixtures, Exercised

(* RegressionPins keeps its types. *)
THEOREM PinsTypeCorrect == PinsSpec => []PinsTypeOK
  <1>1. PinsInit => PinsTypeOK
    BY DEF PinsInit, PinsTypeOK, May, Paths
  <1>2. PinsTypeOK /\ [PinsNext]_pinsVars => PinsTypeOK'
    <2> SUFFICES ASSUME PinsTypeOK, [PinsNext]_pinsVars PROVE PinsTypeOK'
      OBVIOUS
    <2>1. ASSUME NEW p \in Paths, NEW content \in May(p), Write(p, content)
          PROVE  PinsTypeOK'
      BY <2>1 DEF PinsTypeOK, Write, May
    <2>2. ASSUME NEW files \in SUBSET Paths, NEW answers \in BOOLEAN, Record(files, answers)
          PROVE  PinsTypeOK'
      <3>1. DOMAIN kept' = Paths /\ \A p \in Paths : kept'[p] \in May(p)
        BY <2>2 DEF PinsTypeOK, Record, May
      <3>2. since' \in [Validators \cup {Postmortem} -> SUBSET Paths]
        BY <2>2 DEF PinsTypeOK, Record
      <3> QED BY <2>2, <3>1, <3>2 DEF PinsTypeOK, Record, May
    <2>3. CASE UNCHANGED pinsVars
      BY <2>3 DEF PinsTypeOK, pinsVars, May
    <2> QED BY <2>1, <2>2, <2>3 DEF PinsNext
  <1> QED BY <1>1, <1>2, PTL DEF PinsSpec

PinsInv == PinsTypeOK /\ CoverageErodes /\ ClaimsErode

(* A commit leaves CoverageErodes standing. *)
LEMMA RecordCovers ==
    ASSUME PinsTypeOK, CoverageErodes,
           NEW files \in SUBSET Paths, NEW answers \in BOOLEAN, Record(files, answers)
    PROVE  CoverageErodes'
  <1> DEFINE onDisk == OnDisk(files)
             given == {p \in files : work[p] # Gone}
             now == [p \in Paths |-> IF p \in files THEN work[p] ELSE kept[p]]
             judged == given \cap (Validators \cup {Postmortem})
  <1>1. kept' = now /\ CoveragePasses(onDisk, given)
    BY DEF Record
  <1>2. \A p \in Validators : since'[p] = IF p \in judged THEN {q \in Paths : onDisk[q] # now[q]}
                                          ELSE since[p] \cup files
    BY DEF Record, PinsTypeOK
  <1> SUFFICES ASSUME NEW v \in Validators, now[v] # Gone, now[v].yaml,
                      NEW k \in YamlFields(now[v]), since'[v] \cap TestsOf(v) = {}
               PROVE  Exercised(now, v, k)
    BY <1>1, Zenon DEF CoverageErodes, Exercised
  <1>3. v \in Paths /\ TestsOf(v) \subseteq Paths
    BY DEF Paths, TestsOf
  <1>4. CASE v \in judged
    <2>1. onDisk[v] = now[v] /\ now[v] = work[v] /\ v \in given \cap Validators
      BY <1>3, <1>4 DEF OnDisk
    <2>2. \A t \in TestsOf(v) : onDisk[t] = now[t]
      BY <1>2, <1>3, <1>4
    <2>3. IsValidator(onDisk[v]) /\ k \in YamlFields(onDisk[v])
      BY <2>1 DEF IsValidator, YamlFields
    <2> HIDE DEF onDisk, now, given
    <2>4. PairedSuite(onDisk, v) # Gone /\ FieldCovered(PairedSuite(onDisk, v), k)
      BY <1>1, <2>1, <2>3 DEF CoveragePasses
    <2>5. Exercised(onDisk, v, k)
      BY <2>4, CoveredIsExercised
    <2> QED BY <2>2, <2>5, SamePair
  <1>5. CASE v \notin judged
    <2>1. v \notin files /\ now[v] = kept[v]
      BY <1>3, <1>5
    <2>2. since[v] \cap TestsOf(v) = {} /\ files \cap TestsOf(v) = {}
      BY <1>2, <1>5
    <2>3. Exercised(kept, v, k)
      BY <2>1, <2>2 DEF CoverageErodes
    <2>4. \A t \in TestsOf(v) : kept[t] = now[t]
      BY <1>3, <2>2
    <2> HIDE DEF now
    <2> QED BY <2>3, <2>4, SamePair
  <1> QED BY <1>4, <1>5

(* A claim that the hook finds stands. *)
LEMMA ResolvedStands ==
    ASSUME NEW tree, NEW g \in Pinned, NEW answers, Resolves(tree, g, Collected(tree, answers))
    PROVE  Stands(tree, g)
  BY DEF Resolves, Collected, FileHasSymbol, Stands, Standing, Pinned

(* A claim stands alike in trees that are the same where it looks. *)
LEMMA StandsAlike ==
    ASSUME NEW one, NEW other, NEW g \in Pinned,
           \A t \in TestFiles \cup {g.script} : t # NoFile => one[t] = other[t],
           \A t \in TestFiles : one[t] = other[t], Stands(one, g)
    PROVE  Stands(other, g)
  BY DEF Stands, Standing, Pinned

(* A commit leaves ClaimsErode standing. *)
LEMMA RecordClaims ==
    ASSUME PinsTypeOK, ClaimsErode,
           NEW files \in SUBSET Paths, NEW answers \in BOOLEAN, Record(files, answers)
    PROVE  ClaimsErode'
  <1> DEFINE onDisk == OnDisk(files)
             given == {p \in files : work[p] # Gone}
             now == [p \in Paths |-> IF p \in files THEN work[p] ELSE kept[p]]
             judged == given \cap (Validators \cup {Postmortem})
  <1>1. kept' = now /\ (Postmortem \in given => LessonsPass(onDisk, answers))
    BY DEF Record
  <1>2. since'[Postmortem] = IF Postmortem \in judged THEN {q \in Paths : onDisk[q] # now[q]}
                             ELSE since[Postmortem] \cup files
    BY DEF Record, PinsTypeOK
  <1> SUFFICES ASSUME now[Postmortem] # Gone, NEW g \in now[Postmortem].gates,
                      since'[Postmortem] \cap (TestFiles \cup {g.script}) = {}
               PROVE  Stands(now, g)
    BY <1>1, Zenon DEF ClaimsErode
  <1>3. Postmortem \in Paths /\ TestFiles \subseteq Paths
    BY DEF Paths
  <1>4. g \in Pinned
    <2>1. now[Postmortem] \in May(Postmortem)
      BY <1>3 DEF PinsTypeOK
    <2>2. now[Postmortem] \in Lesson
      BY <2>1, PinsAssumption DEF PinsAssumption, May
    <2> QED BY <2>2 DEF Lesson
  <1>5. g.script # NoFile => g.script \in Paths
    BY <1>4 DEF Pinned, Paths
  <1>6. CASE Postmortem \in judged
    <2>1. onDisk[Postmortem] = now[Postmortem]
      BY <1>3, <1>6 DEF OnDisk
    <2>2. \A t \in TestFiles \cup {g.script} : t # NoFile => onDisk[t] = now[t]
      BY <1>2, <1>3, <1>5, <1>6
    <2>3. \A t \in TestFiles : onDisk[t] = now[t]
      BY <1>2, <1>3, <1>6
    <2>4. LessonsPass(onDisk, answers)
      BY <1>1, <1>6
    <2> HIDE DEF onDisk, now
    <2>5. Resolves(onDisk, g, Collected(onDisk, answers))
      BY <2>1, <2>4 DEF LessonsPass
    <2>6. Stands(onDisk, g)
      BY <1>4, <2>5, ResolvedStands
    <2> QED BY <1>4, <2>2, <2>3, <2>6, StandsAlike
  <1>7. CASE Postmortem \notin judged
    <2>1. now[Postmortem] = kept[Postmortem]
      BY <1>3, <1>7
    <2>2. /\ since[Postmortem] \cap (TestFiles \cup {g.script}) = {}
          /\ files \cap (TestFiles \cup {g.script}) = {}
      BY <1>2, <1>7
    <2>3. Stands(kept, g)
      BY <2>1, <2>2, Zenon DEF ClaimsErode
    <2>4. \A t \in TestFiles \cup {g.script} : t # NoFile => kept[t] = now[t]
      BY <1>3, <1>5, <2>2
    <2>5. \A t \in TestFiles : kept[t] = now[t]
      BY <1>3, <2>2
    <2> HIDE DEF now
    <2> QED BY <1>4, <2>3, <2>4, <2>5, StandsAlike
  <1> QED BY <1>6, <1>7

(* Both properties are inductive as they stand. *)
LEMMA PinsInvariant == PinsSpec => []PinsInv
  <1>1. PinsInit => PinsInv
    <2>1. PinsInit => PinsTypeOK
      BY DEF PinsInit, PinsTypeOK, May, Paths
    <2>2. PinsInit => CoverageErodes /\ ClaimsErode
      BY DEF PinsInit, CoverageErodes, ClaimsErode, Paths
    <2> QED BY <2>1, <2>2 DEF PinsInv
  <1>2. PinsTypeOK /\ PinsTypeOK' /\ PinsInv /\ [PinsNext]_pinsVars => PinsInv'
    <2> SUFFICES ASSUME PinsTypeOK, PinsTypeOK', PinsInv, [PinsNext]_pinsVars PROVE PinsInv'
      OBVIOUS
    <2>1. CASE UNCHANGED <<kept, since>>
      BY <2>1 DEF PinsInv, CoverageErodes, ClaimsErode, Exercised, Stands, Standing
    <2>2. ASSUME NEW files \in SUBSET Paths, NEW answers \in BOOLEAN, Record(files, answers)
          PROVE  PinsInv'
      BY <2>2, RecordCovers, RecordClaims DEF PinsInv
    <2> QED BY <2>1, <2>2 DEF PinsNext, Write, pinsVars
  <1> QED BY <1>1, <1>2, PinsTypeCorrect, PTL DEF PinsSpec

(* check_validator_input_coverage.py keeps every field that a validator in HEAD *)
(* reads exercised, until a test file that may be the validator's own changes.  *)
THEOREM OnlyTestsErode == PinsSpec => []CoverageErodes
  <1>1. PinsInv => CoverageErodes
    BY DEF PinsInv
  <1> QED BY <1>1, PinsInvariant, PTL

(* check_postmortem_gates_resolved.py keeps what a postmortem in HEAD claims    *)
(* standing, until its script or some test file changes.                       *)
THEOREM ClaimsWereFound == PinsSpec => []ClaimsErode
  <1>1. PinsInv => ClaimsErode
    BY DEF PinsInv
  <1> QED BY <1>1, PinsInvariant, PTL
=============================================================================
