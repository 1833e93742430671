--------------------------- MODULE HistoryLogProofs ---------------------------
(***************************************************************************)
(* Proofs about HistoryLog for every set of agents and any number of       *)
(* commits, calls and rebases.                                             *)
(***************************************************************************)
EXTENDS HistoryLog, TLAPS

Labels == {"idle", "guard", "sha", "read", "replace"}

-----------------------------------------------------------------------------
(* Types *)

LEMMA Numbers ==
    /\ MaxCommits \in Nat /\ MaxCalls \in Nat /\ MaxRewrites \in Nat
    /\ WORKING \in 0..CORRECTION /\ CORRECTION \in 0..CORRECTION
    /\ CORRECTION \in 0..HEAD /\ HEAD \in 0..HEAD /\ HEAD # WORKING /\ HEAD # CORRECTION
    /\ \A n \in 0..MaxCommits : n \in 0..CORRECTION /\ n \in 0..HEAD /\ n # HEAD
                                /\ n # CORRECTION
  BY HistoryAssumption DEF HistoryAssumption, WORKING, CORRECTION, HEAD

LEMMA NoDraftType == NoDraft \in Entry
  BY Numbers DEF NoDraft, Entry, WORKING, CORRECTION

LEMMA HistoryTypeInit == HistoryInit => HistoryTypeOK
  <1> SUFFICES ASSUME HistoryInit PROVE HistoryTypeOK
    OBVIOUS
  <1>1. made \in 0..MaxCommits /\ rewrites \in 0..MaxRewrites /\ calls \in 0..MaxCalls
    BY Numbers DEF HistoryInit
  <1>2. draft \in [Proc -> Entry] /\ asked \in [Proc -> 0..HEAD]
    BY Numbers, NoDraftType DEF HistoryInit
  <1>3. entries \in Seq(Entry) /\ base \in [Proc -> Seq(Entry)]
    BY DEF HistoryInit
  <1>4. /\ known \subseteq Commit /\ future \subseteq Commit /\ dirty \in BOOLEAN
        /\ acked \subseteq Entry /\ raced \subseteq Entry
    BY DEF HistoryInit
  <1>5. pc \in [Proc -> Labels]
    BY DEF HistoryInit, Labels
  <1> QED BY <1>1, <1>2, <1>3, <1>4, <1>5 DEF HistoryTypeOK, Labels

LEMMA TypeRepository ==
    ASSUME HistoryTypeOK, EditFiles \/ MakeCommit \/ RewriteCommit
    PROVE  HistoryTypeOK'
  <1>1. /\ UNCHANGED <<entries, callVars, acked, raced>>
        /\ dirty' \in BOOLEAN
    BY DEF EditFiles, MakeCommit, RewriteCommit, HistoryTypeOK
  <1>2. made' \in 0..MaxCommits /\ rewrites' \in 0..MaxRewrites
    BY Numbers DEF EditFiles, MakeCommit, RewriteCommit, HistoryTypeOK
  <1>3. made' = made \/ made' \in Commit
    BY Numbers DEF EditFiles, MakeCommit, RewriteCommit, HistoryTypeOK, Commit
  <1>4. known' \subseteq known \cup {made'} /\ future' \subseteq future \cup {made'}
        /\ (made' = made => known' = known /\ future' = future)
    BY Numbers DEF EditFiles, MakeCommit, RewriteCommit, HistoryTypeOK
  <1>5. known' \subseteq Commit /\ future' \subseteq Commit
    BY <1>3, <1>4 DEF HistoryTypeOK
  <1> QED BY <1>1, <1>2, <1>5 DEF HistoryTypeOK, callVars

LEMMA TypeAppending ==
    ASSUME HistoryTypeOK, NEW p \in Proc, Appending(p)
    PROVE  HistoryTypeOK'
  <1>1. ASSUME CallAppend(p) PROVE HistoryTypeOK'
    <2> DEFINE new == [NoDraft EXCEPT !.id = calls',
                                      !.intent = IF dirty THEN made + 1 ELSE made]
    <2>1. calls' \in 0..MaxCalls /\ calls' \in Nat
      BY <1>1, Numbers DEF CallAppend, HistoryTypeOK
    <2>2. (IF dirty THEN made + 1 ELSE made) \in 0..CORRECTION
      BY Numbers DEF HistoryTypeOK, CORRECTION
    <2>3. new \in Entry
      BY <2>1, <2>2, NoDraftType DEF Entry
    <2> HIDE DEF new
    <2>4. draft' = [draft EXCEPT ![p] = new]
      BY <1>1 DEF CallAppend, new
    <2>5. PICK arg \in {HEAD, Tip, CORRECTION} :
             /\ asked' = [asked EXCEPT ![p] = arg]
             /\ Goto(p, IF arg \in {HEAD, WORKING} THEN "guard" ELSE "sha")
      BY <1>1 DEF CallAppend
    <2>6. asked' \in [Proc -> 0..HEAD]
      <3>1. arg \in 0..HEAD
        BY Numbers DEF HistoryTypeOK, Tip
      <3> QED BY <2>5, <3>1 DEF HistoryTypeOK
    <2>7. pc' \in [Proc -> Labels]
      BY <2>5 DEF Goto, HistoryTypeOK, Labels
    <2>8. draft' \in [Proc -> Entry]
      BY <2>3, <2>4 DEF HistoryTypeOK
    <2> QED BY <1>1, <2>1, <2>6, <2>7, <2>8
            DEF CallAppend, HistoryTypeOK, Labels, gitVars
  <1>2. ASSUME Guard(p) \/ GuardBlind(p) PROVE HistoryTypeOK'
    <2>1. draft' \in [Proc -> Entry]
      <3>1. draft[p] \in Entry /\ [draft[p] EXCEPT !.checked = TRUE] \in Entry
        BY DEF HistoryTypeOK, Entry
      <3>2. CASE Guard(p)
        BY <3>1, <3>2 DEF Guard, HistoryTypeOK
      <3>3. CASE GuardBlind(p)
        BY <3>3 DEF GuardBlind, HistoryTypeOK
      <3> QED BY <1>2, <3>2, <3>3
    <2>2. pc' \in [Proc -> Labels]
      BY <1>2 DEF Guard, GuardBlind, Goto, HistoryTypeOK, Labels
    <2> QED BY <1>2, <2>1, <2>2 DEF Guard, GuardBlind, HistoryTypeOK, Labels, gitVars
  <1>3. ASSUME ResolveSha(p) PROVE HistoryTypeOK'
    <2>1. PICK sha \in IF asked[p] = HEAD THEN {Tip, WORKING} ELSE {asked[p]} :
             draft' = [draft EXCEPT ![p].sha = sha]
      BY <1>3 DEF ResolveSha
    <2>2. sha \in 0..CORRECTION
      <3>1. asked[p] \in 0..HEAD
        BY DEF HistoryTypeOK
      <3>2. asked[p] = HEAD \/ asked[p] \in 0..CORRECTION
        BY <3>1, Numbers DEF HEAD, CORRECTION
      <3> QED BY <2>1, <3>2, Numbers DEF Tip, HistoryTypeOK
    <2>3. draft' \in [Proc -> Entry]
      BY <2>1, <2>2 DEF HistoryTypeOK, Entry
    <2>4. pc' \in [Proc -> Labels]
      BY <1>3 DEF ResolveSha, Goto, HistoryTypeOK, Labels
    <2> QED BY <1>3, <2>3, <2>4 DEF ResolveSha, HistoryTypeOK, Labels, gitVars
  <1>4. ASSUME ReadHistory(p) PROVE HistoryTypeOK'
    <2>1. base' \in [Proc -> Seq(Entry)]
      BY <1>4 DEF ReadHistory, HistoryTypeOK
    <2>2. pc' \in [Proc -> Labels]
      BY <1>4 DEF ReadHistory, Goto, HistoryTypeOK, Labels
    <2> QED BY <1>4, <2>1, <2>2 DEF ReadHistory, HistoryTypeOK, Labels, gitVars
  <1>5. ASSUME Replace(p) \/ GiveUp(p) PROVE HistoryTypeOK'
    <2>1. EndCall(p)
      BY <1>5 DEF Replace, GiveUp
    <2>2. /\ draft' \in [Proc -> Entry] /\ asked' \in [Proc -> 0..HEAD]
          /\ base' \in [Proc -> Seq(Entry)] /\ pc' \in [Proc -> Labels]
      BY <2>1, Numbers, NoDraftType DEF EndCall, Goto, HistoryTypeOK, Labels
    <2>3. /\ entries' \in Seq(Entry)
          /\ acked' \subseteq Entry /\ raced' \subseteq Entry
      <3>1. base[p] \in Seq(Entry) /\ draft[p] \in Entry
        BY DEF HistoryTypeOK
      <3>2. Append(base[p], draft[p]) \in Seq(Entry)
        BY <3>1
      <3> QED BY <1>5, <3>1, <3>2 DEF Replace, GiveUp, HistoryTypeOK
    <2> QED BY <2>1, <2>2, <2>3 DEF EndCall, HistoryTypeOK, Labels, gitVars
  <1> QED BY <1>1, <1>2, <1>3, <1>4, <1>5 DEF Appending

LEMMA HistoryTypeStep == HistoryTypeOK /\ [HistoryNext]_historyVars => HistoryTypeOK'
  <1> SUFFICES ASSUME HistoryTypeOK, [HistoryNext]_historyVars PROVE HistoryTypeOK'
    OBVIOUS
  <1>1. CASE UNCHANGED historyVars
    BY <1>1 DEF HistoryTypeOK, historyVars, gitVars, callVars
  <1> QED BY <1>1, TypeRepository, TypeAppending DEF HistoryNext

(* HISTORY.md and every call of append_history.py are well formed, whoever *)
(* appends and whatever git does meanwhile.                                *)
THEOREM HistoryTypeCorrect == HistorySpec => []HistoryTypeOK
  BY HistoryTypeInit, HistoryTypeStep, PTL DEF HistorySpec

-----------------------------------------------------------------------------
(* The invariant *)

(* What the guard let through does not name a commit before its changes', *)
NamesRight(e) == e.checked /\ e.sha # WORKING => e.sha >= e.intent

(* and no entry names a commit that was never made. *)
NamesMade(e) == e.sha \in 0..made \/ e.sha = CORRECTION

Sound(s) == \A i \in 1..Len(s) : NamesRight(s[i]) /\ NamesMade(s[i])

Holds(s, e) == \E i \in 1..Len(s) : s[i] = e

(* An entry that was put in place without a race *)
Safe(e) == e \in acked /\ e \notin raced

(* The commit that holds what is pending, once it is made *)
Newest == IF dirty THEN made + 1 ELSE made

(* A call's changes are committed or pending; committed once the guard passed. *)
AboutNow(p) ==
    pc[p] # "idle" =>
        /\ draft[p].intent <= Newest
        /\ draft[p].checked => draft[p].intent <= made /\ asked[p] \in {HEAD, WORKING}

AsksMade(p) ==
    /\ pc[p] = "guard" => asked[p] \in {HEAD, WORKING}
    /\ pc[p] = "sha" => asked[p] \in {HEAD, CORRECTION} \/ asked[p] \in 0..made

(* A call that has read holds what was then safe: whatever another puts in    *)
(* place after that counts as raced.  OnlyRacesLose alone is not inductive,   *)
(* since a call's own copy is what it writes.                                 *)
CallSound(p) ==
    /\ AboutNow(p) /\ AsksMade(p)
    /\ pc[p] \in {"read", "replace"} => NamesRight(draft[p]) /\ NamesMade(draft[p])
    /\ Sound(base[p])
    /\ pc[p] = "replace" => \A e \in Entry : Safe(e) => Holds(base[p], e)

(* Without a rebase git lists every commit that was made. *)
AllKnown == rewrites = 0 => known = 1..made

HistoryInv ==
    /\ HistoryTypeOK
    /\ Sound(entries)
    /\ \A e \in Entry : Safe(e) => Holds(entries, e)
    /\ AllKnown
    /\ \A p \in Proc : CallSound(p)

LEMMA HistoryInvInit == HistoryInit => HistoryInv
  <1> SUFFICES ASSUME HistoryInit PROVE HistoryInv
    OBVIOUS
  <1>1. Sound(entries) /\ (\A p \in Proc : Sound(base[p]))
    BY DEF HistoryInit, Sound
  <1>2. \A p \in Proc : AboutNow(p) /\ AsksMade(p) /\ pc[p] = "idle"
    BY DEF HistoryInit, AboutNow, AsksMade
  <1>3. \A e \in Entry : ~Safe(e)
    BY DEF HistoryInit, Safe
  <1>4. AllKnown
    BY DEF HistoryInit, AllKnown
  <1> QED BY <1>1, <1>2, <1>3, <1>4, HistoryTypeInit DEF HistoryInv, CallSound

(* Commits are only ever added to the ones made. *)
LEMMA StaysMade ==
    ASSUME HistoryTypeOK, made' \in Nat, made <= made', NEW e, NamesMade(e)
    PROVE  NamesMade(e)'
  BY Numbers DEF NamesMade, HistoryTypeOK

LEMMA InvRepository ==
    ASSUME HistoryInv, EditFiles \/ MakeCommit \/ RewriteCommit
    PROVE  HistoryInv'
  <1>1. HistoryTypeOK'
    BY TypeRepository DEF HistoryInv
  <1>2. UNCHANGED <<entries, pc, draft, asked, base, acked, raced>>
    BY DEF EditFiles, MakeCommit, RewriteCommit, callVars
  <1>3. made \in Nat /\ made' \in Nat /\ made <= made'
    BY <1>1, Numbers DEF EditFiles, MakeCommit, RewriteCommit, HistoryInv, HistoryTypeOK
  <1>4. \A e : NamesMade(e) => NamesMade(e)'
    BY <1>3, StaysMade DEF HistoryInv
  <1>5. Sound(entries)' /\ \A e \in Entry : Safe(e)' => Holds(entries, e)'
    <2>1. \A e \in Entry : Safe(e)' <=> Safe(e)
      BY <1>2 DEF Safe
    <2> QED BY <1>2, <1>4, <2>1 DEF HistoryInv, Sound, NamesRight, Holds
  <1>6. AllKnown'
    <2>1. CASE EditFiles
      BY <2>1 DEF EditFiles, AllKnown, HistoryInv
    <2>2. CASE MakeCommit
      BY <1>3, <2>2 DEF MakeCommit, AllKnown, HistoryInv
    <2>3. CASE RewriteCommit
      BY <2>3 DEF RewriteCommit, AllKnown, HistoryInv, HistoryTypeOK
    <2> QED BY <2>1, <2>2, <2>3
  <1>7. ASSUME NEW p \in Proc PROVE CallSound(p)'
    <2>1. CallSound(p) /\ draft[p] \in Entry /\ dirty \in BOOLEAN
      BY DEF HistoryInv, HistoryTypeOK
    <2>2. draft[p].intent \in Nat
      BY <2>1, Numbers DEF Entry, CORRECTION
    <2>3. Newest \in Nat /\ Newest' \in Nat /\ Newest <= Newest'
      <3>1. CASE EditFiles
        BY <1>3, <3>1 DEF EditFiles, Newest
      <3>2. CASE MakeCommit
        BY <1>3, <3>2 DEF MakeCommit, Newest
      <3>3. CASE RewriteCommit
        BY <1>3, <3>3 DEF RewriteCommit, Newest
      <3> QED BY <3>1, <3>2, <3>3
    <2>4. AboutNow(p)'
      <3>1. pc[p] # "idle" => draft[p].intent <= Newest
        BY <2>1 DEF CallSound, AboutNow
      <3>2. pc[p] # "idle" => draft[p].intent <= Newest'
        BY <2>2, <2>3, <3>1
      <3>3. pc[p] # "idle" /\ draft[p].checked =>
               draft[p].intent <= made' /\ asked[p] \in {HEAD, WORKING}
        BY <1>3, <2>1, <2>2 DEF CallSound, AboutNow
      <3> QED BY <1>2, <3>2, <3>3 DEF AboutNow
    <2>5. AsksMade(p)'
      BY <1>2, <1>3, <2>1 DEF CallSound, AsksMade
    <2>6. Sound(base[p])'
      BY <1>2, <1>4, <2>1 DEF CallSound, Sound, NamesRight
    <2>7. pc'[p] = "replace" => \A e \in Entry : Safe(e)' => Holds(base[p], e)'
      BY <1>2, <2>1 DEF CallSound, Safe, Holds
    <2>8. pc'[p] \in {"read", "replace"} => NamesRight(draft[p])' /\ NamesMade(draft[p])'
      BY <1>2, <1>3, <2>1 DEF CallSound, NamesRight, NamesMade
    <2> QED BY <2>4, <2>5, <2>6, <2>7, <2>8 DEF CallSound
  <1> QED BY <1>1, <1>5, <1>6, <1>7 DEF HistoryInv

(* A step of p leaves the other calls as they are. *)
LEMMA OthersStay ==
    ASSUME HistoryInv, NEW p \in Proc, Appending(p), NEW q \in Proc \ {p}
    PROVE  /\ pc'[q] = pc[q] /\ draft'[q] = draft[q] /\ asked'[q] = asked[q]
           /\ base'[q] = base[q]
           /\ UNCHANGED gitVars
  <1> USE DEF HistoryInv, HistoryTypeOK, gitVars, Goto
  <1>1. ASSUME CallAppend(p)
        PROVE  pc'[q] = pc[q] /\ asked'[q] = asked[q]
    BY <1>1 DEF CallAppend
  <1>2. CASE CallAppend(p)
    BY <1>1, <1>2 DEF CallAppend
  <1>3. CASE Guard(p)
    BY <1>3 DEF Guard
  <1>4. CASE GuardBlind(p)
    BY <1>4 DEF GuardBlind
  <1>5. CASE ResolveSha(p)
    BY <1>5 DEF ResolveSha
  <1>6. CASE ReadHistory(p)
    BY <1>6 DEF ReadHistory
  <1>7. CASE Replace(p) \/ GiveUp(p)
    BY <1>7 DEF Replace, GiveUp, EndCall
  <1> QED BY <1>2, <1>3, <1>4, <1>5, <1>6, <1>7 DEF Appending

(* What is safe and not yet in another call's copy is raced by that call. *)
LEMMA OthersSound ==
    ASSUME HistoryInv, NEW p \in Proc, Appending(p), NEW q \in Proc \ {p}
    PROVE  CallSound(q)'
  <1>1. /\ pc'[q] = pc[q] /\ draft'[q] = draft[q] /\ asked'[q] = asked[q]
        /\ base'[q] = base[q] /\ made' = made /\ dirty' = dirty
    BY OthersStay DEF gitVars
  <1>2. CallSound(q)
    BY DEF HistoryInv
  <1>3. ASSUME pc[q] = "replace", NEW e \in Entry, Safe(e)' PROVE Safe(e)
    <2>1. CASE Replace(p)
      BY <1>3, <2>1 DEF Replace, Overlapped, Safe
    <2>2. CASE ~Replace(p)
      BY <1>3, <2>2 DEF Appending, CallAppend, Guard, GuardBlind, ResolveSha, ReadHistory,
                        GiveUp, Safe
    <2> QED BY <2>1, <2>2
  <1>4. AboutNow(q)' /\ AsksMade(q)'
    BY <1>1, <1>2 DEF CallSound, AboutNow, AsksMade, Newest
  <1>5. pc'[q] \in {"read", "replace"} => NamesRight(draft[q])' /\ NamesMade(draft[q])'
    BY <1>1, <1>2 DEF CallSound, NamesRight, NamesMade
  <1>6. Sound(base[q])'
    BY <1>1, <1>2 DEF CallSound, Sound, NamesRight, NamesMade
  <1>7. pc'[q] = "replace" => \A e \in Entry : Safe(e)' => Holds(base[q], e)'
    BY <1>1, <1>2, <1>3 DEF CallSound, Holds
  <1> QED BY <1>4, <1>5, <1>6, <1>7 DEF CallSound

(* The call that moves *)
LEMMA CallerSound ==
    ASSUME HistoryInv, NEW p \in Proc, Appending(p)
    PROVE  CallSound(p)'
  <1> DEFINE d == draft[p]
  <1>0. /\ CallSound(p) /\ d \in Entry /\ made \in Nat
        /\ made \in 0..MaxCommits /\ d.intent \in Nat
    BY Numbers DEF HistoryInv, HistoryTypeOK, Entry, CORRECTION
  <1>1. ASSUME Replace(p) \/ GiveUp(p) PROVE CallSound(p)'
    <2>1. pc'[p] = "idle" /\ base'[p] = <<>>
      BY <1>1 DEF Replace, GiveUp, EndCall, Goto, HistoryInv, HistoryTypeOK
    <2> QED BY <2>1 DEF CallSound, AboutNow, AsksMade, Sound
  <1>2. ASSUME CallAppend(p) PROVE CallSound(p)'
    <2>1. PICK arg \in {HEAD, Tip, CORRECTION} :
             /\ asked' = [asked EXCEPT ![p] = arg]
             /\ Goto(p, IF arg \in {HEAD, WORKING} THEN "guard" ELSE "sha")
      BY <1>2 DEF CallAppend
    <2>2. /\ asked'[p] = arg /\ pc'[p] \in {"guard", "sha"}
          /\ pc'[p] = "guard" => arg \in {HEAD, WORKING}
      BY <2>1 DEF Goto, HistoryInv, HistoryTypeOK
    <2>3. /\ draft'[p] = [NoDraft EXCEPT !.id = calls', !.intent = Newest]
          /\ made' = made /\ dirty' = dirty /\ base' = base
      BY <1>2 DEF CallAppend, gitVars, Newest, HistoryInv, HistoryTypeOK
    <2>4. draft'[p].intent = Newest /\ draft'[p].checked = FALSE /\ Newest' = Newest
          /\ Newest \in Nat
      BY <1>0, <2>3 DEF NoDraft, Newest
    <2>5. AboutNow(p)'
      BY <2>4 DEF AboutNow
    <2>6. AsksMade(p)'
      BY <1>0, <2>1, <2>2, <2>3 DEF AsksMade, Tip
    <2>7. Sound(base[p])'
      BY <1>0, <2>3 DEF CallSound, Sound, NamesRight, NamesMade
    <2> QED BY <2>2, <2>5, <2>6, <2>7 DEF CallSound
  <1>3. ASSUME Guard(p) PROVE CallSound(p)'
    <2>1. /\ draft'[p] = [d EXCEPT !.checked = TRUE] /\ pc[p] = "guard" /\ pc'[p] = "sha"
          /\ asked'[p] = asked[p] /\ base'[p] = base[p] /\ made' = made
          /\ ~dirty /\ dirty' = dirty
      BY <1>3 DEF Guard, Goto, gitVars, HistoryInv, HistoryTypeOK
    <2>2. draft'[p].intent = d.intent /\ Newest = made /\ Newest' = Newest
      BY <1>0, <2>1 DEF Entry, Newest
    <2>3. d.intent <= made /\ asked[p] \in {HEAD, WORKING}
      BY <1>0, <2>1, <2>2 DEF CallSound, AboutNow, AsksMade
    <2>4. AboutNow(p)' /\ AsksMade(p)'
      BY <1>0, <2>1, <2>2, <2>3 DEF AboutNow, AsksMade, WORKING
    <2>5. Sound(base[p])'
      BY <1>0, <2>1 DEF CallSound, Sound, NamesRight, NamesMade
    <2> QED BY <2>1, <2>4, <2>5 DEF CallSound
  <1>4. ASSUME GuardBlind(p) PROVE CallSound(p)'
    <2>1. /\ draft'[p] = d /\ pc[p] = "guard" /\ pc'[p] = "sha"
          /\ asked'[p] = asked[p] /\ base'[p] = base[p] /\ made' = made /\ dirty' = dirty
      BY <1>4 DEF GuardBlind, Goto, gitVars, HistoryInv, HistoryTypeOK
    <2>2. AboutNow(p)' /\ AsksMade(p)'
      BY <1>0, <2>1 DEF CallSound, AboutNow, AsksMade, Newest, WORKING
    <2>3. Sound(base[p])'
      BY <1>0, <2>1 DEF CallSound, Sound, NamesRight, NamesMade
    <2> QED BY <2>1, <2>2, <2>3 DEF CallSound
  <1>5. ASSUME ResolveSha(p) PROVE CallSound(p)'
    <2>1. PICK sha \in IF asked[p] = HEAD THEN {Tip, WORKING} ELSE {asked[p]} :
             draft' = [draft EXCEPT ![p].sha = sha]
      BY <1>5 DEF ResolveSha
    <2>2. /\ draft'[p] = [d EXCEPT !.sha = sha] /\ pc[p] = "sha" /\ pc'[p] = "read"
          /\ asked'[p] = asked[p] /\ base'[p] = base[p] /\ made' = made /\ dirty' = dirty
      BY <1>5, <2>1 DEF ResolveSha, Goto, gitVars, HistoryInv, HistoryTypeOK
    <2>3. /\ draft'[p].intent = d.intent /\ draft'[p].checked = d.checked
          /\ draft'[p].sha = sha
      BY <1>0, <2>2 DEF Entry
    <2>4. AboutNow(p)' /\ AsksMade(p)'
      BY <1>0, <2>2, <2>3 DEF CallSound, AboutNow, AsksMade, Newest
    <2>5. NamesMade(draft[p])'
      BY <1>0, <2>1, <2>2, <2>3, Numbers DEF CallSound, AsksMade, NamesMade, Tip, WORKING
    <2>6. NamesRight(draft[p])'
      <3>1. SUFFICES ASSUME d.checked, sha # WORKING PROVE sha >= d.intent
        BY <2>3 DEF NamesRight
      <3>2. asked[p] \in {HEAD, WORKING} /\ d.intent <= made
        BY <1>0, <2>2, <3>1 DEF CallSound, AboutNow
      <3>3. sha = made
        BY <2>1, <3>1, <3>2 DEF Tip
      <3> QED BY <1>0, <3>2, <3>3
    <2>7. Sound(base[p])'
      BY <1>0, <2>2 DEF CallSound, Sound, NamesRight, NamesMade
    <2> QED BY <2>2, <2>4, <2>5, <2>6, <2>7 DEF CallSound
  <1>6. ASSUME ReadHistory(p) PROVE CallSound(p)'
    <2>1. /\ draft'[p] = d /\ pc[p] = "read" /\ pc'[p] = "replace"
          /\ asked'[p] = asked[p] /\ base'[p] = entries /\ made' = made /\ dirty' = dirty
          /\ acked' = acked /\ raced' = raced
      BY <1>6 DEF ReadHistory, Goto, gitVars, HistoryInv, HistoryTypeOK
    <2>2. AboutNow(p)' /\ AsksMade(p)'
      BY <1>0, <2>1 DEF CallSound, AboutNow, AsksMade, Newest
    <2>3. Sound(base[p])' /\ \A e \in Entry : Safe(e)' => Holds(base[p], e)'
      BY <2>1 DEF HistoryInv, Sound, NamesRight, NamesMade, Safe, Holds
    <2>4. NamesRight(draft[p])' /\ NamesMade(draft[p])'
      BY <1>0, <2>1 DEF CallSound, NamesRight, NamesMade
    <2> QED BY <2>2, <2>3, <2>4 DEF CallSound
  <1> QED BY <1>1, <1>2, <1>3, <1>4, <1>5, <1>6 DEF Appending

(* What an append writes is what it has read, and its own entry. *)
LEMMA Appended ==
    ASSUME NEW s \in Seq(Entry), NEW d \in Entry
    PROVE  /\ \A e \in Entry : Holds(s, e) \/ e = d => Holds(Append(s, d), e)
           /\ Sound(s) /\ NamesRight(d) /\ NamesMade(d) => Sound(Append(s, d))
  <1>1. /\ Len(Append(s, d)) = Len(s) + 1 /\ Len(s) \in Nat
        /\ \A i \in 1..Len(s) : Append(s, d)[i] = s[i]
        /\ Append(s, d)[Len(s) + 1] = d
    OBVIOUS
  <1>2. \A e \in Entry : Holds(s, e) \/ e = d => Holds(Append(s, d), e)
    BY <1>1 DEF Holds
  <1>3. Sound(s) /\ NamesRight(d) /\ NamesMade(d) => Sound(Append(s, d))
    <2>1. SUFFICES ASSUME Sound(s), NamesRight(d), NamesMade(d),
                          NEW i \in 1..Len(Append(s, d))
                   PROVE  NamesRight(Append(s, d)[i]) /\ NamesMade(Append(s, d)[i])
      BY DEF Sound
    <2>2. CASE i \in 1..Len(s)
      BY <1>1, <2>1, <2>2 DEF Sound
    <2>3. CASE i = Len(s) + 1
      BY <1>1, <2>1, <2>3
    <2> QED BY <1>1, <2>2, <2>3
  <1> QED BY <1>2, <1>3

LEMMA InvAppending ==
    ASSUME HistoryInv, NEW p \in Proc, Appending(p)
    PROVE  HistoryInv'
  <1>1. HistoryTypeOK'
    BY TypeAppending DEF HistoryInv
  <1>2. \A q \in Proc : CallSound(q)'
    BY OthersSound, CallerSound
  <1>3. UNCHANGED gitVars
    BY DEF Appending, CallAppend, Guard, GuardBlind, ResolveSha, ReadHistory, Replace, GiveUp,
           EndCall
  <1>4. AllKnown'
    BY <1>3 DEF AllKnown, gitVars, HistoryInv
  <1>5. Sound(entries)' /\ \A e \in Entry : Safe(e)' => Holds(entries, e)'
    <2>1. CASE Replace(p)
      <3>1. base[p] \in Seq(Entry) /\ draft[p] \in Entry /\ CallSound(p) /\ made' = made
        BY <1>3 DEF HistoryInv, HistoryTypeOK, gitVars
      <3>2. /\ pc[p] = "replace" /\ entries' = Append(base[p], draft[p])
            /\ acked' = acked \cup {draft[p]} /\ raced \subseteq raced'
        BY <2>1 DEF Replace
      <3>3. Sound(entries')
        BY <3>1, <3>2, Appended DEF CallSound
      <3>4. ASSUME NEW e \in Entry, Safe(e)' PROVE Holds(entries', e)
        <4>1. Safe(e) \/ e = draft[p]
          BY <3>2, <3>4 DEF Safe
        <4>2. Holds(base[p], e) \/ e = draft[p]
          BY <3>1, <3>2, <4>1 DEF CallSound
        <4> QED BY <3>1, <3>2, <4>2, Appended
      <3> QED BY <3>1, <3>3, <3>4 DEF Sound, NamesRight, NamesMade, Holds
    <2>2. CASE ~Replace(p)
      <3>1. UNCHANGED <<entries, acked, raced>>
        BY <2>2 DEF Appending, CallAppend, Guard, GuardBlind, ResolveSha, ReadHistory, GiveUp
      <3> QED BY <1>3, <3>1 DEF HistoryInv, Sound, NamesRight, NamesMade, Safe, Holds, gitVars
    <2> QED BY <2>1, <2>2
  <1> QED BY <1>1, <1>2, <1>4, <1>5 DEF HistoryInv

LEMMA HistoryInvStep == HistoryInv /\ [HistoryNext]_historyVars => HistoryInv'
  <1> SUFFICES ASSUME HistoryInv, [HistoryNext]_historyVars PROVE HistoryInv'
    OBVIOUS
  <1>1. CASE UNCHANGED historyVars
    <2>1. UNCHANGED <<entries, made, known, dirty, rewrites, pc, draft, asked, base, acked, raced>>
      BY <1>1 DEF historyVars, gitVars, callVars
    <2>2. HistoryTypeOK'
      BY <1>1, HistoryTypeStep DEF HistoryInv
    <2> QED BY <2>1, <2>2 DEF HistoryInv, Sound, NamesRight, NamesMade, Safe, Holds, AllKnown,
                              CallSound, AboutNow, AsksMade, Newest
  <1> QED BY <1>1, InvRepository, InvAppending DEF HistoryNext

LEMMA HistoryInvariant == HistorySpec => []HistoryInv
  BY HistoryInvInit, HistoryInvStep, PTL DEF HistorySpec

(* An entry that is put in place while no other call holds a copy of the file *)
(* stays, whatever later calls, kills and races do.                           *)
THEOREM OnlyARaceLoses == HistorySpec => []OnlyRacesLose
  <1>1. HistoryInv => OnlyRacesLose
    BY DEF HistoryInv, HistoryTypeOK, OnlyRacesLose, Safe, Holds, Recorded
  <1> QED BY <1>1, HistoryInvariant, PTL

(* The guard of append_history.py closes the off-by-one trap: an entry that it *)
(* let through never names the parent of the commit of its changes.            *)
THEOREM GuardNamesRight == HistorySpec => []NeverNamesParent
  <1>1. HistoryInv => NeverNamesParent
    BY DEF HistoryInv, NeverNamesParent, Sound, NamesRight
  <1> QED BY <1>1, HistoryInvariant, PTL

(* check_history_sha.py fails for nothing that append_history.py writes, unless *)
(* git has since replaced a commit, or a commit was misdated.                   *)
THEOREM OnlyGitMakesStale == HistorySpec => []DriftNeedsRewrite
  <1>1. HistoryInv => DriftNeedsRewrite
    <2> SUFFICES ASSUME HistoryInv, rewrites = 0, future = {}, NEW i \in 1..Len(entries)
                 PROVE  EntryOK(entries[i])
      BY DEF DriftNeedsRewrite, ShaCheckPasses
    <2>1. NamesMade(entries[i]) /\ known = 1..made /\ made \in Nat
      BY Numbers DEF HistoryInv, HistoryTypeOK, Sound, AllKnown
    <2> QED BY <2>1 DEF NamesMade, EntryOK, WORKING
  <1> QED BY <1>1, HistoryInvariant, PTL

-----------------------------------------------------------------------------
(* The file before the first race *)

(* Only the end of a call touches the file, and it counts as raced when *)
(* another call has read by then.                                       *)
LEMMA OthersKeep ==
    ASSUME [HistoryNext]_historyVars, \A p \in Proc : ~Replace(p)
    PROVE  UNCHANGED <<entries, raced>>
  BY DEF HistoryNext, historyVars, EditFiles, MakeCommit, RewriteCommit, Appending, CallAppend,
         Guard, GuardBlind, ResolveSha, ReadHistory, GiveUp

LEMMA CopiesStep ==
    ASSUME HistoryTypeOK, CopiesCurrent, [HistoryNext]_historyVars
    PROVE  CopiesCurrent'
  <1> SUFFICES ASSUME raced' = {}, NEW q \in Proc, pc'[q] = "replace"
               PROVE  base'[q] = entries'
    BY DEF CopiesCurrent
  <1> USE DEF HistoryTypeOK, Goto
  <1>1. ASSUME NEW p \in Proc, Replace(p)
        PROVE  FALSE
    <2>1. ~Overlapped(p)
      BY <1>1 DEF Replace
    <2>2. pc'[q] = "idle"
      BY <1>1, <2>1 DEF Replace, EndCall, Overlapped
    <2> QED BY <2>2
  <1>2. ASSUME NEW p \in Proc, ReadHistory(p)
        PROVE  base'[q] = entries'
    BY <1>2 DEF ReadHistory, CopiesCurrent
  <1>3. ASSUME NEW p \in Proc, CallAppend(p) \/ Guard(p) \/ GuardBlind(p) \/ ResolveSha(p)
        PROVE  base'[q] = entries'
    BY <1>3 DEF CallAppend, Guard, GuardBlind, ResolveSha, CopiesCurrent
  <1>4. ASSUME NEW p \in Proc, GiveUp(p)
        PROVE  base'[q] = entries'
    BY <1>4 DEF GiveUp, EndCall, CopiesCurrent
  <1>5. CASE EditFiles \/ MakeCommit \/ RewriteCommit \/ UNCHANGED historyVars
    BY <1>5 DEF EditFiles, MakeCommit, RewriteCommit, historyVars, callVars, CopiesCurrent
  <1> QED BY <1>1, <1>2, <1>3, <1>4, <1>5 DEF HistoryNext, Appending

LEMMA CopiesInvariant == HistorySpec => []CopiesCurrent
  <1>1. HistoryInit => CopiesCurrent
    BY DEF HistoryInit, CopiesCurrent
  <1>2. HistoryTypeOK /\ CopiesCurrent /\ [HistoryNext]_historyVars => CopiesCurrent'
    BY CopiesStep
  <1> QED BY <1>1, <1>2, HistoryTypeCorrect, PTL DEF HistorySpec

(* Before the first race a call that ends adds one entry behind the others. *)
LEMMA ReplaceExtends ==
    ASSUME HistoryTypeOK, CopiesCurrent, raced' = {}, NEW p \in Proc, Replace(p)
    PROVE  entries' = Append(entries, draft[p]) /\ draft[p] \in Entry
  BY DEF Replace, CopiesCurrent, HistoryTypeOK

(* As long as no call ends while another has read, no entry of HISTORY.md is *)
(* lost, moved or changed.                                                   *)
THEOREM GrowsUntilRace == HistorySpec => GrowsUntilRaced
  <1>1. ASSUME HistoryTypeOK, CopiesCurrent, [HistoryNext]_historyVars, raced' = {},
               NEW i \in 1..Len(entries)
        PROVE  i \in 1..Len(entries') /\ entries'[i] = entries[i]
    <2>1. CASE UNCHANGED entries
      BY <2>1
    <2>2. ASSUME NEW p \in Proc, Replace(p)
          PROVE  i \in 1..Len(entries') /\ entries'[i] = entries[i]
      <3>1. entries' = Append(entries, draft[p]) /\ entries \in Seq(Entry)
        BY <1>1, <2>2, ReplaceExtends DEF HistoryTypeOK
      <3> QED BY <3>1
    <2> QED BY <1>1, <2>1, <2>2, OthersKeep
  <1>2. HistoryTypeOK /\ CopiesCurrent /\ [HistoryNext]_historyVars
           => [raced' = {} => \A i \in 1..Len(entries) :
                 i \in 1..Len(entries') /\ entries'[i] = entries[i]]_historyVars
    BY <1>1
  <1> QED BY <1>2, HistoryTypeCorrect, CopiesInvariant, PTL DEF HistorySpec, GrowsUntilRaced

-----------------------------------------------------------------------------
(* A single agent *)

LEMMA NeverRaced == OneAgent => (HistorySpec => [](raced = {}))
  <1> SUFFICES ASSUME OneAgent PROVE HistorySpec => [](raced = {})
    OBVIOUS
  <1>1. HistoryInit => raced = {}
    BY DEF HistoryInit
  <1>2. raced = {} /\ [HistoryNext]_historyVars => (raced = {})'
    <2>1. ASSUME NEW p \in Proc, Replace(p), raced = {} PROVE raced' = {}
      BY <2>1 DEF Replace, Overlapped, OneAgent
    <2> QED BY <2>1, OthersKeep
  <1> QED BY <1>1, <1>2, PTL DEF HistorySpec

(* An agent that works alone loses none of the entries it has added: what the *)
(* header of HISTORY.md promises holds for it.                                *)
THEOREM OneAgentKeeps == OneAgent => (HistorySpec => []HistoryKeepsEntries)
  <1>1. raced = {} /\ OnlyRacesLose => HistoryKeepsEntries
    BY DEF OnlyRacesLose, HistoryKeepsEntries
  <1> QED BY <1>1, NeverRaced, OnlyARaceLoses, PTL

(* Its HISTORY.md implements the append-only log that the memory log is too. *)
THEOREM OneAgentRefines == OneAgent => (HistorySpec => IsAppendOnly)
  <1> SUFFICES ASSUME OneAgent PROVE HistorySpec => IsAppendOnly
    OBVIOUS
  <1> USE DEF KeptLog!Init, KeptLog!Next, KeptLog!Extend, KeptLog!logVars
  <1>1. HistoryInit => KeptLog!Init
    BY DEF HistoryInit
  <1>2. ASSUME HistoryTypeOK, CopiesCurrent, raced = {}, raced' = {}, [HistoryNext]_historyVars
        PROVE  [KeptLog!Next]_(KeptLog!logVars)
    <2>1. CASE UNCHANGED entries
      BY <2>1
    <2>2. ASSUME NEW p \in Proc, Replace(p)
          PROVE  KeptLog!Extend(draft[p]) /\ draft[p] \in Entry
      <3>1. entries' = Append(entries, draft[p]) /\ entries \in Seq(Entry) /\ draft[p] \in Entry
        BY <1>2, <2>2, ReplaceExtends DEF HistoryTypeOK
      <3>2. Len(entries') = Len(entries) + 1
        BY <3>1
      <3> QED BY <3>1, <3>2
    <2> QED BY <1>2, <2>1, <2>2, OthersKeep
  <1>3. HistoryTypeOK /\ CopiesCurrent /\ raced = {} /\ (raced = {})' /\ [HistoryNext]_historyVars
           => [KeptLog!Next]_(KeptLog!logVars)
    BY <1>2
  <1>4. HistorySpec => [](raced = {})
    BY NeverRaced
  <1> QED BY <1>1, <1>3, <1>4, HistoryTypeCorrect, CopiesInvariant, PTL
          DEF HistorySpec, IsAppendOnly, KeptLog!Spec
=============================================================================
