--------------------------- MODULE MemoryLogProofs ---------------------------
(***************************************************************************)
(* Proofs about MemoryLog and MemoryAnchor for every set of processes and  *)
(* payloads, every bound, with or without flock, and about the refinement  *)
(* of AppendOnlyLog.                                                       *)
(***************************************************************************)
EXTENDS MemoryAnchor, WellFoundedInduction, TLAPS

-----------------------------------------------------------------------------
(* Facts about lines and text *)

(* What is written behind the log leaves every line as it is, except that an *)
(* open last line becomes unreadable.                                        *)
LEMMA AddTextKeepsLines ==
    ASSUME TypeOK, NEW text, NEW closed, AddText(text, closed)
    PROVE  /\ Len(lines') \in {Len(lines), Len(lines) + 1}
           /\ \A i \in 1..Len(lines) :
                 \/ lines'[i] = lines[i]
                 \/ open /\ i = Len(lines) /\ lines'[i] = Corrupt
  <1>1. CASE open
    BY <1>1 DEF TypeOK, AddText
  <1>2. CASE ~open
    BY <1>2 DEF TypeOK, AddText
  <1> QED BY <1>1, <1>2 DEF TypeOK

(* Behind closed lines the text is the new last line; behind an open one it *)
(* leaves an unreadable last line.                                          *)
LEMMA AddTextLast ==
    ASSUME TypeOK, InFlight, NEW text, NEW closed, AddText(text, closed)
    PROVE  /\ open => /\ Len(lines') = Len(lines)
                      /\ lines'[Len(lines)] = Corrupt
                      /\ Len(lines) \in 1..Len(lines')
           /\ ~open => /\ Len(lines') = Len(lines) + 1
                       /\ lines'[Len(lines')] = text
  BY DEF TypeOK, InFlight, AddText

(* Text that is an event or not JSON keeps the log a sequence of such lines. *)
LEMMA AddTextType ==
    ASSUME TypeOK, NEW text \in Event \cup {Corrupt}, NEW closed \in BOOLEAN,
           AddText(text, closed)
    PROVE  lines' \in Seq(Event \cup {Corrupt}) /\ open' \in BOOLEAN
  BY DEF TypeOK, AddText

(* The head of a well-typed log is a digest. *)
LEMMA HeadHashType ==
    ASSUME TypeOK
    PROVE  HeadHash(lines) \in Digest
  <1>1. ZERO \in Digest
    BY DEF ZERO, Digest
  <1>2. CASE lines = <<>>
    BY <1>1, <1>2 DEF HeadHash, HashBefore
  <1>3. CASE lines # <<>>
    <2>1. lines[Len(lines)] \in Event \cup {Corrupt} /\ Len(lines) + 1 # 1
      BY <1>3 DEF TypeOK
    <2> QED BY <1>1, <2>1 DEF HeadHash, HashBefore, HashOf, Event, TypeOK
  <1> QED BY <1>2, <1>3

(* What append() builds is an event. *)
LEMMA NewEventType ==
    ASSUME TypeOK, NEW d \in Payload
    PROVE  NewEvent(lines, d) \in Event
  <1>1. HeadHash(lines) \in Digest /\ Len(lines) \in Nat
    BY HeadHashType DEF TypeOK
  <1>2. EventHash(HeadHash(lines), Len(lines), d) \in Digest
    BY <1>1 DEF EventHash, Digest
  <1> QED BY <1>1, <1>2 DEF NewEvent, Event

-----------------------------------------------------------------------------
(* Type correctness *)

LEMMA TypeInit == Init => TypeOK /\ InFlight
  <1> SUFFICES ASSUME Init PROVE TypeOK /\ InFlight
    OBVIOUS
  <1> USE MemoryAssumption
  <1>1. lines \in Seq(Event \cup {Corrupt}) /\ tears \in Nat
    BY DEF Init
  <1>2. open \in BOOLEAN /\ ~open
    BY DEF Init
  <1>3. holder \in Proc \cup {NoProc} /\ acked \subseteq Event
    BY DEF Init
  <1>4. /\ pc \in [Proc -> {"idle", "lock", "read", "write", "return"}]
        /\ entry \in [Proc -> Event \cup {Corrupt}]
        /\ \A p \in Proc : pc[p] = "idle"
    BY DEF Init
  <1> QED BY <1>1, <1>2, <1>3, <1>4 DEF TypeOK, InFlight

LEMMA TypeStep == TypeOK /\ InFlight /\ [MemNext]_memVars => (TypeOK /\ InFlight)'
  <1> SUFFICES ASSUME TypeOK, InFlight, [MemNext]_memVars
               PROVE  TypeOK' /\ InFlight'
    OBVIOUS
  <1> USE MemoryAssumption
  <1>1. ASSUME NEW p \in Proc, Start(p)
        PROVE  TypeOK' /\ InFlight'
    BY <1>1 DEF Start, Goto, TypeOK, InFlight
  <1>2. ASSUME NEW p \in Proc, AcquireFlock(p)
        PROVE  TypeOK' /\ InFlight'
    BY <1>2 DEF AcquireFlock, Goto, TypeOK, InFlight
  <1>3. ASSUME NEW p \in Proc, SkipFlock(p)
        PROVE  TypeOK' /\ InFlight'
    BY <1>3 DEF SkipFlock, Goto, TypeOK, InFlight
  <1>4. ASSUME NEW p \in Proc, Read(p)
        PROVE  TypeOK' /\ InFlight'
    <2>1. PICK d \in Payload : entry' = [entry EXCEPT ![p] = NewEvent(lines, d)]
      BY <1>4 DEF Read
    <2>2. NewEvent(lines, d) \in Event
      BY NewEventType
    <2> QED BY <1>4, <2>1, <2>2 DEF Read, Goto, TypeOK, InFlight
  <1>5. ASSUME NEW p \in Proc, Write(p)
        PROVE  TypeOK' /\ InFlight'
    <2>1. entry[p] \in Event /\ AddText(entry[p], TRUE)
      BY <1>5 DEF Write, InFlight
    <2>2. lines' \in Seq(Event \cup {Corrupt}) /\ open' \in BOOLEAN /\ ~open'
      BY <2>1, AddTextType DEF AddText
    <2> QED BY <1>5, <2>2 DEF Write, Goto, TypeOK, InFlight
  <1>6. ASSUME NEW p \in Proc, Return(p)
        PROVE  TypeOK' /\ InFlight'
    <2>1. entry[p] \in Event
      BY <1>6 DEF Return, InFlight
    <2> QED BY <1>6, <2>1 DEF Return, Goto, Release, Forget, TypeOK, InFlight
  <1>7. ASSUME NEW p \in Proc, Fail(p)
        PROVE  TypeOK' /\ InFlight'
    BY <1>7 DEF Fail, Goto, Release, Forget, TypeOK, InFlight
  <1>8. ASSUME NEW p \in Proc, Tear(p)
        PROVE  TypeOK' /\ InFlight'
    <2>1. PICK text \in Event \cup {Corrupt} : AddText(text, FALSE)
      BY <1>8 DEF Tear, InFlight
    <2>2. lines' \in Seq(Event \cup {Corrupt}) /\ open' \in BOOLEAN
      BY <2>1, AddTextType
    <2>3. lines' # <<>>
      <3>1. Len(lines) \in Nat /\ Len(lines') \in Nat
        BY <2>2 DEF TypeOK
      <3>2. \/ Len(lines) \in 1..Len(lines')
            \/ Len(lines') = Len(lines) + 1
        BY <2>1, AddTextLast, Zenon
      <3>3. Len(lines') # 0
        BY <3>1, <3>2
      <3> QED BY <3>3
    <2> QED BY <1>8, <2>2, <2>3
            DEF Tear, Goto, Release, Forget, TypeOK, InFlight
  <1>9. CASE UNCHANGED memVars
    BY <1>9 DEF memVars, TypeOK, InFlight
  <1> QED BY <1>1, <1>2, <1>3, <1>4, <1>5, <1>6, <1>7, <1>8, <1>9
          DEF MemNext, Appender

(* Every variable keeps its type, and a call that has built its event holds *)
(* one until it ends.                                                       *)
THEOREM TypeCorrect == Spec => [](TypeOK /\ InFlight)
  BY TypeInit, TypeStep, PTL DEF Spec
-----------------------------------------------------------------------------
(* No silent loss *)

(* An event that is kept stays kept whatever is written behind it. *)
LEMMA KeptStays ==
    ASSUME TypeOK, InFlight, NEW text, NEW closed, AddText(text, closed),
           NEW e, Kept(e)
    PROVE  Kept(e)'
  <1>1. PICK i \in 1..Len(lines) :
           lines[i] = Corrupt \/ (lines[i] = e /\ (open => i < Len(lines)))
    BY DEF Kept
  <1>2. /\ Len(lines) \in Nat
        /\ Len(lines') \in {Len(lines), Len(lines) + 1}
        /\ \/ lines'[i] = lines[i]
           \/ open /\ i = Len(lines) /\ lines'[i] = Corrupt
    <2>1. Len(lines) \in Nat
      BY DEF TypeOK
    <2>2. /\ Len(lines') \in {Len(lines), Len(lines) + 1}
          /\ \A j \in 1..Len(lines) :
                \/ lines'[j] = lines[j]
                \/ open /\ j = Len(lines) /\ lines'[j] = Corrupt
      BY AddTextKeepsLines
    <2>3. i \in 1..Len(lines)
      BY <1>1
    <2> QED BY <2>1, <2>2, <2>3, Zenon
  <1>3. i \in 1..Len(lines')
    BY <1>2
  <1>4. CASE lines'[i] = Corrupt
    BY <1>3, <1>4 DEF Kept
  <1>5. CASE lines'[i] = e /\ (open => i < Len(lines))
    <2>1. ~open => Len(lines') = Len(lines) + 1
      BY AddTextLast
    <2>2. i < Len(lines')
      BY <1>2, <1>5, <2>1
    <2> QED BY <1>3, <1>5, <2>2 DEF Kept
  <1> QED BY <1>1, <1>2, <1>4, <1>5

(* A line written whole is kept. *)
LEMMA WrittenIsKept ==
    ASSUME TypeOK, InFlight, NEW e, AddText(e, TRUE)
    PROVE  Kept(e)'
  <1>1. ~open' /\ Len(lines) \in Nat
    <2>1. Len(lines) \in Nat
      BY DEF TypeOK
    <2> QED BY <2>1, Zenon DEF AddText
  <1>2. CASE open
    <2>1. lines'[Len(lines)] = Corrupt /\ Len(lines) \in 1..Len(lines')
      BY <1>2, AddTextLast
    <2> QED BY <2>1 DEF Kept
  <1>3. CASE ~open
    <2>1. Len(lines') = Len(lines) + 1 /\ lines'[Len(lines')] = e
      BY <1>3, AddTextLast
    <2>2. Len(lines') \in 1..Len(lines')
      BY <1>1, <2>1
    <2> QED BY <1>1, <2>1, <2>2 DEF Kept
  <1> QED BY <1>2, <1>3

(* Nothing changes for a kept event in a step that leaves the file alone. *)
LEMMA KeptUnchanged ==
    ASSUME UNCHANGED <<lines, open>>, NEW e, Kept(e)
    PROVE  Kept(e)'
  BY DEF Kept

(* One step keeps every event whose write is complete. *)
LEMMA WrittenKeptStep ==
    ASSUME TypeOK, InFlight, WrittenKept, [MemNext]_memVars
    PROVE  WrittenKept'
  <1> USE DEF WrittenKept
  <1>1. ASSUME UNCHANGED <<lines, open, acked>>,
               \A p \in Proc : pc'[p] = "return"
                    => pc[p] = "return" /\ entry'[p] = entry[p]
        PROVE  WrittenKept'
    BY <1>1, KeptUnchanged
  <1>2. ASSUME NEW p \in Proc, Start(p) \/ AcquireFlock(p) \/ SkipFlock(p)
        PROVE  WrittenKept'
    BY <1>1, <1>2 DEF Start, AcquireFlock, SkipFlock, Goto, TypeOK
  <1>3. ASSUME NEW p \in Proc, Read(p)
        PROVE  WrittenKept'
    BY <1>1, <1>3 DEF Read, Goto, TypeOK
  <1>4. ASSUME NEW p \in Proc, Write(p)
        PROVE  WrittenKept'
    <2>1. AddText(entry[p], TRUE)
      BY <1>4 DEF Write
    <2>2. Kept(entry[p])'
      <3>1. \A e : e = entry[p] => Kept(e)'
        BY <2>1, WrittenIsKept
      <3>2. entry'[p] = entry[p]
        BY <1>4 DEF Write
      <3> QED BY <3>1, <3>2
    <2>3. \A e : Kept(e) => Kept(e)'
      BY <2>1, KeptStays
    <2> QED BY <1>4, <2>2, <2>3 DEF Write, Goto, TypeOK
  <1>5. ASSUME NEW p \in Proc, Return(p)
        PROVE  WrittenKept'
    <2>1. \A e : Kept(e) => Kept(e)'
      BY <1>5, KeptUnchanged DEF Return
    <2>2. Kept(entry[p]) /\ acked' = acked \cup {entry[p]}
      BY <1>5 DEF Return
    <2>3. \A q \in Proc : pc'[q] = "return"
                            => pc[q] = "return" /\ entry'[q] = entry[q]
      BY <1>5 DEF Return, Goto, Forget, TypeOK
    <2> QED BY <2>1, <2>2, <2>3
  <1>6. ASSUME NEW p \in Proc, Fail(p)
        PROVE  WrittenKept'
    BY <1>1, <1>6 DEF Fail, Goto, Forget, TypeOK
  <1>7. ASSUME NEW p \in Proc, Tear(p)
        PROVE  WrittenKept'
    <2>1. PICK text : AddText(text, FALSE)
      BY <1>7 DEF Tear
    <2>2. \A e : Kept(e) => Kept(e)'
      BY <2>1, KeptStays
    <2>3. \A q \in Proc : pc'[q] = "return"
                            => pc[q] = "return" /\ entry'[q] = entry[q]
      BY <1>7 DEF Tear, Goto, Forget, TypeOK
    <2> QED BY <1>7, <2>2, <2>3 DEF Tear
  <1>8. CASE UNCHANGED memVars
    BY <1>1, <1>8 DEF memVars
  <1> QED BY <1>2, <1>3, <1>4, <1>5, <1>6, <1>7, <1>8 DEF MemNext, Appender

(* The README's first claim: an append that returned 0 can always be read   *)
(* back, or verify reports a break.  Locked or not, torn or not.            *)
THEOREM Durable == Spec => []NoSilentLoss
  <1>1. Init => WrittenKept
    BY DEF Init, WrittenKept
  <1>2. TypeOK /\ InFlight /\ WrittenKept /\ [MemNext]_memVars => WrittenKept'
    BY WrittenKeptStep
  <1>3. WrittenKept => NoSilentLoss
    BY DEF WrittenKept, NoSilentLoss, Kept, Logged, ChainOK, LineOK
  <1> QED BY <1>1, <1>2, <1>3, TypeCorrect, PTL DEF Spec
-----------------------------------------------------------------------------
(* A break is permanent, an acknowledged line does not move *)

(* verify's verdict on a line depends on the lines up to it alone. *)
LEMMA LineOKLocal ==
    ASSUME NEW ls, NEW ms, NEW i \in Nat \ {0},
           \A j \in 1..i : ms[j] = ls[j]
    PROVE  LineOK(ms, i) <=> LineOK(ls, i)
  <1>1. ms[i] = ls[i] /\ (i # 1 => ms[i - 1] = ls[i - 1])
    OBVIOUS
  <1>2. HashBefore(ms, i) = HashBefore(ls, i)
    BY <1>1 DEF HashBefore
  <1> QED BY <1>1, <1>2 DEF LineOK

(* Writing behind the log repairs no line. *)
LEMMA AddTextRepairsNothing ==
    ASSUME TypeOK, NEW text, NEW closed, AddText(text, closed),
           ~ChainOK(lines)
    PROVE  ~ChainOK(lines')
  <1>1. PICK i \in 1..Len(lines) : ~LineOK(lines, i)
    BY DEF ChainOK
  <1>2. /\ Len(lines) \in Nat
        /\ Len(lines') \in {Len(lines), Len(lines) + 1}
        /\ \A j \in 1..Len(lines) :
              \/ lines'[j] = lines[j]
              \/ open /\ j = Len(lines) /\ lines'[j] = Corrupt
    <2>1. Len(lines) \in Nat
      BY DEF TypeOK
    <2> QED BY <2>1, AddTextKeepsLines
  <1>3. i \in Nat \ {0} /\ i \in 1..Len(lines')
    BY <1>2
  <1>4. CASE \A j \in 1..i : lines'[j] = lines[j]
    <2>1. ~LineOK(lines', i)
      BY <1>1, <1>3, <1>4, LineOKLocal
    <2> QED BY <1>3, <2>1 DEF ChainOK
  <1>5. CASE \E j \in 1..i : lines'[j] # lines[j]
    <2>1. PICK j \in 1..i : lines'[j] # lines[j]
      BY <1>5
    <2>2. j \in 1..Len(lines) /\ j \in 1..Len(lines')
      BY <1>1, <1>3, <2>1, <1>2
    <2>3. lines'[j] = Corrupt
      BY <1>2, <2>1, <2>2
    <2> QED BY <2>2, <2>3 DEF ChainOK, LineOK
  <1> QED BY <1>4, <1>5

LEMMA BreakStays ==
    ASSUME TypeOK, [MemNext]_memVars, ~ChainOK(lines)
    PROVE  ~ChainOK(lines')
  <1>1. CASE UNCHANGED lines
    BY <1>1 DEF ChainOK, LineOK, HashBefore
  <1>2. ASSUME NEW p \in Proc, Write(p)
        PROVE  ~ChainOK(lines')
    BY <1>2, AddTextRepairsNothing DEF Write
  <1>3. ASSUME NEW p \in Proc, Tear(p)
        PROVE  ~ChainOK(lines')
    <2>1. PICK text : AddText(text, FALSE)
      BY <1>3 DEF Tear
    <2> QED BY <2>1, AddTextRepairsNothing
  <1> QED BY <1>1, <1>2, <1>3
          DEF MemNext, Appender, memVars, Start, AcquireFlock, SkipFlock,
              Read, Return, Fail

(* No append, however it ends, hides an earlier break from verify. *)
THEOREM BreakIsPermanent == Spec => BrokenStaysBroken
  <1>1. TypeOK /\ [MemNext]_memVars => (~ChainOK(lines) => ~ChainOK(lines)')
    BY BreakStays
  <1> QED BY <1>1, TypeCorrect, PTL DEF Spec, BrokenStaysBroken

(* An acknowledged event keeps its line. *)
THEOREM AcknowledgedStays == Spec => AckedStays
  <1> DEFINE Stays == \A e \in acked, i \in 1..Len(lines) :
                 lines[i] = e /\ (open => i < Len(lines))
                    => i \in 1..Len(lines') /\ lines'[i] = e
  <1>1. ASSUME TypeOK, NEW text, NEW closed, AddText(text, closed)
        PROVE  Stays
    <2> SUFFICES ASSUME NEW i \in 1..Len(lines), open => i < Len(lines)
                 PROVE  i \in 1..Len(lines') /\ lines'[i] = lines[i]
      OBVIOUS
    <2>1. Len(lines) \in Nat
      BY <1>1 DEF TypeOK
    <2>2. Len(lines') \in {Len(lines), Len(lines) + 1}
      BY <1>1, AddTextKeepsLines
    <2>3. lines'[i] = lines[i] \/ (open /\ i = Len(lines))
      BY <1>1, AddTextKeepsLines
    <2> QED BY <2>1, <2>2, <2>3
  <1>2. ASSUME TypeOK, [MemNext]_memVars
        PROVE  Stays
    <2>1. CASE UNCHANGED lines
      BY <2>1
    <2>2. ASSUME NEW p \in Proc, Write(p)
          PROVE  Stays
      BY <1>1, <1>2, <2>2 DEF Write
    <2>3. ASSUME NEW p \in Proc, Tear(p)
          PROVE  Stays
      <3>1. PICK text : AddText(text, FALSE)
        BY <2>3 DEF Tear
      <3> QED BY <1>1, <1>2, <3>1
    <2> QED BY <1>2, <2>1, <2>2, <2>3
            DEF MemNext, Appender, memVars, Start, AcquireFlock, SkipFlock,
                Read, Return, Fail
  <1>3. TypeOK /\ [MemNext]_memVars => Stays
    BY <1>2
  <1> QED BY <1>3, TypeCorrect, PTL DEF Spec, AckedStays
-----------------------------------------------------------------------------
(* The lock keeps the chain *)

(* Only the holder is past the lock, and what it read is still the file. *)
LEMMA ExclusiveStep ==
    ASSUME TypeOK, InFlight, Exclusive, HasFlock, [MemNext]_memVars
    PROVE  Exclusive'
  <1> USE DEF Exclusive
  <1>1. ASSUME NEW p \in Proc, Start(p)
        PROVE  Exclusive'
    BY <1>1 DEF Start, Goto, TypeOK
  <1>2. ASSUME NEW p \in Proc, AcquireFlock(p)
        PROVE  Exclusive'
    <2>1. \A q \in Proc : pc[q] \notin {"read", "write", "return"}
      BY <1>2, MemoryAssumption DEF AcquireFlock
    <2> QED BY <1>2, <2>1 DEF AcquireFlock, Goto, TypeOK
  <1>3. ASSUME NEW p \in Proc, SkipFlock(p)
        PROVE  Exclusive'
    BY <1>3 DEF SkipFlock
  <1>4. ASSUME NEW p \in Proc, Read(p)
        PROVE  Exclusive'
    <2>1. PICK d \in Payload : entry' = [entry EXCEPT ![p] = NewEvent(lines, d)]
      BY <1>4 DEF Read
    <2>2. entry'[p] = NewEvent(lines', entry'[p].data)
      <3>1. entry'[p] = NewEvent(lines, d) /\ lines' = lines
        BY <1>4, <2>1 DEF Read, TypeOK
      <3>2. NewEvent(lines, d).data = d
        BY DEF NewEvent
      <3> QED BY <3>1, <3>2
    <2>3. ASSUME NEW q \in Proc, q # p
          PROVE  pc'[q] = pc[q] /\ entry'[q] = entry[q]
      BY <1>4, <2>1, <2>3 DEF Read, Goto, TypeOK
    <2>4. pc[p] = "read" /\ UNCHANGED <<lines, holder>>
      BY <1>4 DEF Read
    <2> QED BY <2>2, <2>3, <2>4
  <1>5. ASSUME NEW p \in Proc, Write(p) \/ Return(p) \/ Fail(p) \/ Tear(p)
        PROVE  Exclusive'
    <2>1. pc'[p] \in {"return", "idle"} /\ (pc'[p] = "return" => pc[p] = "write" /\ holder' = holder)
      BY <1>5 DEF Write, Return, Fail, Tear, Goto, TypeOK
    <2>2. ASSUME NEW q \in Proc, q # p
          PROVE  /\ pc'[q] = pc[q] /\ entry'[q] = entry[q]
                 /\ holder = q => holder' = q
      BY <1>5, <2>2 DEF Write, Return, Fail, Tear, Goto, Release, Forget, TypeOK
    <2>3. CASE UNCHANGED lines
      BY <2>1, <2>2, <2>3
    <2>4. CASE pc[p] = "write"
      <3>1. \A q \in Proc : q # p => pc[q] \notin {"read", "write", "return"}
        BY <2>4
      <3> QED BY <2>1, <2>2, <2>4, <3>1
    <2> QED BY <1>5, <2>3, <2>4 DEF Write, Return, Fail, Tear
  <1>6. CASE UNCHANGED memVars
    BY <1>6 DEF memVars
  <1> QED BY <1>1, <1>2, <1>3, <1>4, <1>5, <1>6 DEF MemNext, Appender

(* Writing the event built from the file, or a fragment, keeps the chain. *)
LEMMA AddTextKeepsChain ==
    ASSUME TypeOK, InFlight, HasFlock, LockedChain, NEW d, NEW text, NEW closed,
           AddText(text, closed), text \in {Corrupt, NewEvent(lines, d)}
    PROVE  LockedChain'
  <1>1. Len(lines) \in Nat
    BY DEF TypeOK
  <1>2. SUFFICES ASSUME NEW i \in 1..Len(lines'),
                        \A j \in 1..i : lines'[j] # Corrupt
                 PROVE  LineOK(lines', i)
    BY DEF LockedChain
  <1>3. Len(lines') \in {Len(lines), Len(lines) + 1}
    BY AddTextKeepsLines
  <1>4. \A j \in 1..i : j <= Len(lines) => lines'[j] = lines[j]
    BY <1>1, <1>2, <1>3, AddTextKeepsLines
  <1>5. CASE i <= Len(lines)
    <2>1. \A j \in 1..i : lines'[j] = lines[j] /\ lines[j] # Corrupt
      BY <1>2, <1>4, <1>5
    <2>2. LineOK(lines, i)
      BY <1>1, <1>3, <1>5, <2>1 DEF LockedChain
    <2>3. i \in Nat \ {0}
      BY <1>1, <1>3
    <2> QED BY <2>1, <2>2, <2>3, LineOKLocal
  <1>6. CASE i = Len(lines) + 1
    <2>1. ~open
      BY <1>1, <1>6, AddTextLast
    <2>2. Len(lines') = Len(lines) + 1 /\ lines'[i] = text
      BY <1>6, <2>1, AddTextLast
    <2>3. lines'[i] = NewEvent(lines, d)
      BY <1>1, <1>2, <1>6, <2>2
    <2>4. lines'[i].seq = Len(lines) /\ lines'[i].prev = HeadHash(lines)
          /\ lines'[i].data = d
          /\ lines'[i].hash = EventHash(HeadHash(lines), Len(lines), d)
      BY <2>3 DEF NewEvent
    <2>5. HashBefore(lines', i) = HeadHash(lines)
      <3>1. CASE i = 1
        BY <1>1, <1>6, <3>1 DEF HashBefore, HeadHash
      <3>2. CASE i # 1
        <4>1. lines'[i - 1] = lines[i - 1]
          BY <1>1, <1>4, <1>6, <3>2
        <4> QED BY <1>6, <3>2, <4>1 DEF HashBefore, HeadHash
      <3> QED BY <3>1, <3>2
    <2>6. i - 1 = Len(lines) /\ lines'[i] # Corrupt
      <3>1. i \in 1..i
        BY <1>1, <1>6
      <3> QED BY <1>1, <1>2, <1>6, <3>1
    <2> QED BY <2>4, <2>5, <2>6 DEF LineOK
  <1> QED BY <1>1, <1>3, <1>5, <1>6

LEMMA LockedChainStep ==
    ASSUME TypeOK, InFlight, Exclusive, LockedChain, [MemNext]_memVars
    PROVE  Exclusive' /\ LockedChain'
  <1>1. CASE ~HasFlock
    BY <1>1 DEF Exclusive, LockedChain
  <1>2. CASE HasFlock
    <2>1. Exclusive'
      BY <1>2, ExclusiveStep
    <2>2. ASSUME UNCHANGED lines
          PROVE  LockedChain'
      BY <2>2 DEF LockedChain
    <2>3. ASSUME NEW p \in Proc, Write(p) \/ Tear(p)
          PROVE  LockedChain'
      <3>1. entry[p] = NewEvent(lines, entry[p].data)
        BY <1>2, <2>3 DEF Exclusive, Write, Tear
      <3>2. PICK text \in {Corrupt, entry[p]}, closed \in BOOLEAN :
               AddText(text, closed)
        BY <2>3, Zenon DEF Write, Tear
      <3>3. text \in {Corrupt, NewEvent(lines, entry[p].data)}
        BY <3>1, <3>2
      <3> QED BY <1>2, <3>2, <3>3, AddTextKeepsChain
    <2> QED BY <2>1, <2>2, <2>3
            DEF MemNext, Appender, memVars, Start, AcquireFlock, SkipFlock,
                Read, Return, Fail
  <1> QED BY <1>1, <1>2

(* The chain of a locked log is broken by cut-short writes alone: appends   *)
(* that race for the lock, or die holding it, never break it.               *)
THEOREM LockKeepsChain == Spec => []LockedChain
  <1>1. Init => Exclusive /\ LockedChain
    BY DEF Init, Exclusive, LockedChain
  <1>2. TypeOK /\ InFlight /\ Exclusive /\ LockedChain /\ [MemNext]_memVars
           => Exclusive' /\ LockedChain'
    BY LockedChainStep
  <1> QED BY <1>1, <1>2, TypeCorrect, PTL DEF Spec

(* However calls fail, are killed or cut short, the lock is free or held by a *)
(* call that is still under way: what AppendsEnd needs besides fairness.      *)
THEOREM LockIsReleased == Spec => []HolderRuns
  <1>1. Init => HolderRuns
    BY DEF Init, HolderRuns
  <1>2. ASSUME TypeOK, HolderRuns, [MemNext]_memVars
        PROVE  HolderRuns'
    <2> USE DEF HolderRuns
    <2>1. ASSUME NEW p \in Proc, Start(p)
          PROVE  HolderRuns'
      BY <1>2, <2>1 DEF Start, Goto, TypeOK
    <2>2. ASSUME NEW p \in Proc, AcquireFlock(p)
          PROVE  HolderRuns'
      BY <1>2, <2>2 DEF AcquireFlock, Goto, TypeOK
    <2>3. ASSUME NEW p \in Proc, SkipFlock(p) \/ Read(p) \/ Write(p)
          PROVE  HolderRuns'
      BY <1>2, <2>3 DEF SkipFlock, Read, Write, Goto, TypeOK
    <2>4. ASSUME NEW p \in Proc, Return(p) \/ Fail(p) \/ Tear(p)
          PROVE  HolderRuns'
      BY <1>2, <2>4 DEF Return, Fail, Tear, Goto, Release, TypeOK
    <2>5. CASE UNCHANGED memVars
      BY <1>2, <2>5 DEF memVars
    <2> QED BY <1>2, <2>1, <2>2, <2>3, <2>4, <2>5 DEF MemNext, Appender
  <1>3. TypeOK /\ HolderRuns /\ [MemNext]_memVars => HolderRuns'
    BY <1>2
  <1> QED BY <1>1, <1>3, TypeCorrect, PTL DEF Spec
-----------------------------------------------------------------------------
(* The file implements the append-only log *)

(* A nonempty set of numbers has a least one. *)
LEMMA FirstExists ==
    ASSUME NEW S \in SUBSET Nat, S # {}
    PROVE  \E i \in S : \A j \in S : i <= j
  <1> DEFINE R == {ss \in Nat \X Nat : ss[1] < ss[2]}
  <1>1. IsWellFoundedOn(R, Nat)
    BY NatLessThanWellFounded DEF OpToRel
  <1>2. PICK i \in S : \A j \in S : <<j, i>> \notin R
    BY <1>1, WFMin
  <1>3. ASSUME NEW j \in S PROVE i <= j
    <2>1. i \in Nat /\ j \in Nat /\ ~(j < i)
      BY <1>2
    <2> QED BY <2>1
  <1> QED BY <1>3

(* The first n lines verify, and no more of them. *)
Verified(ls, n) ==
    /\ \A i \in 1..n : LineOK(ls, i)
    /\ n < Len(ls) => ~LineOK(ls, n + 1)

(* There is one longest prefix that verifies. *)
LEMMA TrustedIs ==
    ASSUME NEW ls, Len(ls) \in Nat, NEW n \in 0..Len(ls), Verified(ls, n)
    PROVE  Trusted(ls) = n
  <1>1. ASSUME NEW m \in 0..Len(ls), Verified(ls, m)
        PROVE  m = n
    <2>1. ~(m < n)
      <3> SUFFICES ASSUME m < n PROVE FALSE
        OBVIOUS
      <3>1. m + 1 \in 1..n /\ m < Len(ls)
        OBVIOUS
      <3> QED BY <1>1, <3>1 DEF Verified
    <2>2. ~(n < m)
      <3> SUFFICES ASSUME n < m PROVE FALSE
        OBVIOUS
      <3>1. n + 1 \in 1..m /\ n < Len(ls)
        OBVIOUS
      <3> QED BY <1>1, <3>1 DEF Verified
    <2> QED BY <2>1, <2>2
  <1>2. Trusted(ls) = CHOOSE m \in 0..Len(ls) : Verified(ls, m)
    BY DEF Trusted, Verified
  <1> QED BY <1>1, <1>2

(* And it is the whole log where verify exits 0. *)
LEMMA TrustedExists ==
    ASSUME NEW ls, Len(ls) \in Nat
    PROVE  /\ Trusted(ls) \in 0..Len(ls)
           /\ Verified(ls, Trusted(ls))
           /\ ChainOK(ls) <=> Trusted(ls) = Len(ls)
  <1>1. CASE ChainOK(ls)
    <2>1. Verified(ls, Len(ls))
      BY <1>1 DEF ChainOK, Verified
    <2> QED BY <1>1, <2>1, TrustedIs
  <1>2. CASE ~ChainOK(ls)
    <2> DEFINE Bad == {i \in 1..Len(ls) : ~LineOK(ls, i)}
    <2>1. Bad \in SUBSET Nat /\ Bad # {}
      BY <1>2 DEF ChainOK
    <2>2. PICK i \in Bad : \A j \in Bad : i <= j
      <3> HIDE DEF Bad
      <3> QED BY <2>1, FirstExists
    <2>3. i \in 1..Len(ls) /\ ~LineOK(ls, i)
      OBVIOUS
    <2>4. ASSUME NEW j \in 1..(i - 1) PROVE LineOK(ls, j)
      <3>1. j \in 1..Len(ls) /\ ~(i <= j)
        BY <2>3
      <3> QED BY <2>2, <3>1
    <2>5. i - 1 \in 0..Len(ls) /\ i - 1 # Len(ls) /\ (i - 1) + 1 = i
      BY <2>3
    <2>6. Verified(ls, i - 1)
      BY <2>3, <2>4, <2>5 DEF Verified
    <2>7. Trusted(ls) = i - 1
      BY <2>5, <2>6, TrustedIs
    <2> QED BY <1>2, <2>5, <2>6, <2>7
  <1> QED BY <1>1, <1>2

(* The reader's view of the file *)
Entries(ls) == [i \in 1..Trusted(ls) |-> ls[i].data]
Final(ls, cut) == IF cut /\ Trusted(ls) = Len(ls) THEN Trusted(ls) - 1 ELSE Trusted(ls)

(* Text behind a log that verifies is one more entry, or a break; behind one *)
(* that does not, it is nothing.                                             *)
LEMMA AddTextRefines ==
    ASSUME TypeOK, TypeOK', InFlight, NEW text, NEW closed \in BOOLEAN, AddText(text, closed)
    PROVE  [Abstract!Next]_(Abstract!logVars)
  <1> DEFINE n == Trusted(lines)
  <1>1. Len(lines) \in Nat /\ Len(lines') \in Nat
    BY DEF TypeOK
  <1>2. /\ n \in 0..Len(lines) /\ Verified(lines, n) /\ (ChainOK(lines) <=> n = Len(lines))
        /\ ChainOK(lines') <=> Trusted(lines') = Len(lines')
    BY <1>1, TrustedExists
  <1> HIDE DEF n
  <1>3. ASSUME NEW m \in 0..Len(lines), NEW k \in 0..Len(lines'), m <= n, k <= m,
               \A j \in 1..m : lines'[j] = lines[j]
        PROVE  \A i \in 1..k : LineOK(lines', i)
    <2> SUFFICES ASSUME NEW i \in 1..k PROVE LineOK(lines', i)
      OBVIOUS
    <2>1. i \in Nat \ {0} /\ i \in 1..n /\ \A j \in 1..i : lines'[j] = lines[j]
      BY <1>2, <1>3
    <2>2. LineOK(lines, i)
      BY <1>2, <2>1 DEF Verified
    <2> QED BY <2>1, <2>2, LineOKLocal
  <1>4. CASE n < Len(lines)
    <2>1. \A j \in 1..n : lines'[j] = lines[j]
      BY <1>1, <1>2, <1>4, AddTextKeepsLines
    <2>2. n \in 0..Len(lines') /\ n < Len(lines')
      BY <1>1, <1>2, <1>4, AddTextKeepsLines
    <2>3. ~LineOK(lines', n + 1)
      <3>1. ~LineOK(lines, n + 1)
        BY <1>2, <1>4 DEF Verified
      <3>2. n + 1 \in 1..Len(lines)
        BY <1>1, <1>2, <1>4
      <3>3. CASE lines'[n + 1] = lines[n + 1]
        <4>1. n + 1 \in Nat \ {0} /\ \A j \in 1..(n + 1) : lines'[j] = lines[j]
          BY <1>1, <1>2, <2>1, <3>3
        <4> QED BY <3>1, <4>1, LineOKLocal
      <3>4. CASE lines'[n + 1] = Corrupt
        BY <3>4 DEF LineOK
      <3> QED BY <3>2, <3>3, <3>4, AddTextKeepsLines
    <2>4. Verified(lines', n)
      <3>1. n \in 0..Len(lines) /\ n <= n
        BY <1>1, <1>2
      <3> QED BY <1>3, <2>1, <2>2, <2>3, <3>1 DEF Verified
    <2>5. Trusted(lines') = n
      BY <1>1, <2>2, <2>4, TrustedIs
    <2>6. Entries(lines') = Entries(lines)
      <3>1. Entries(lines') = [i \in 1..n |-> lines'[i].data]
        BY <2>5 DEF Entries
      <3>2. Entries(lines) = [i \in 1..n |-> lines[i].data]
        BY DEF Entries, n
      <3>3. [i \in 1..n |-> lines'[i].data] = [i \in 1..n |-> lines[i].data]
        BY <2>1
      <3> QED BY <3>1, <3>2, <3>3
    <2>7. Final(lines', open') = Final(lines, open)
      <3>1. Final(lines, open) = n
        BY <1>1, <1>2, <1>4 DEF Final, n
      <3>2. Final(lines', open') = n
        BY <1>1, <2>2, <2>5 DEF Final
      <3> QED BY <3>1, <3>2
    <2>8. ~ChainOK(lines) /\ ~ChainOK(lines')
      BY <1>1, <1>2, <1>4, <2>2, <2>5
    <2> QED BY <2>6, <2>7, <2>8 DEF Abstract!logVars, Entries, Final
  <1>5. CASE n = Len(lines) /\ open
    <2>1. /\ Len(lines') = Len(lines) /\ lines'[Len(lines)] = Corrupt /\ Len(lines) # 0
          /\ \A j \in 1..(n - 1) : lines'[j] = lines[j]
      BY <1>1, <1>5, AddTextLast, AddTextKeepsLines
    <2>2. Verified(lines', n - 1)
      <3>1. n - 1 \in 0..Len(lines) /\ n - 1 \in 0..Len(lines') /\ n - 1 <= n
        BY <1>1, <1>5, <2>1
      <3>2. \A i \in 1..(n - 1) : LineOK(lines', i)
        BY <1>3, <2>1, <3>1
      <3>3. ~LineOK(lines', (n - 1) + 1)
        BY <1>1, <1>5, <2>1 DEF LineOK
      <3> QED BY <3>2, <3>3 DEF Verified
    <2>3. Trusted(lines') = n - 1
      BY <1>1, <1>5, <2>1, <2>2, TrustedIs
    <2>4. ChainOK(lines) /\ ~ChainOK(lines')
      BY <1>1, <1>2, <1>5, <2>1, <2>3
    <2>5. Final(lines, open) = n - 1 /\ Final(lines', open') = n - 1
      BY <1>1, <1>5, <2>1, <2>3 DEF Final, n
    <2>6. Entries(lines') = SubSeq(Entries(lines), 1, n - 1)
      <3>1. Entries(lines) = [i \in 1..n |-> lines[i].data]
        BY DEF Entries, n
      <3>2. Entries(lines') = [i \in 1..(n - 1) |-> lines'[i].data]
        BY <2>3 DEF Entries
      <3>3. [i \in 1..(n - 1) |-> lines'[i].data] = [i \in 1..(n - 1) |-> lines[i].data]
        BY <2>1
      <3>4. SubSeq([i \in 1..n |-> lines[i].data], 1, n - 1)
              = [i \in 1..(n - 1) |-> lines[i].data]
        BY <1>1, <1>5, <2>1
      <3> QED BY <3>1, <3>2, <3>3, <3>4
    <2>7. Abstract!Break
      BY <2>4, <2>5, <2>6 DEF Abstract!Break, Entries, Final
    <2> QED BY <2>7 DEF Abstract!Next
  <1>6. CASE n = Len(lines) /\ ~open
    <2>1. /\ Len(lines') = Len(lines) + 1
          /\ \A j \in 1..n : lines'[j] = lines[j]
      BY <1>1, <1>6, AddTextLast, AddTextKeepsLines
    <2>2. ChainOK(lines) /\ Final(lines, open) = n
      BY <1>2, <1>6 DEF Final, n
    <2>3. Entries(lines) = [i \in 1..n |-> lines[i].data]
      BY DEF Entries, n
    <2>4. \A i \in 1..n : LineOK(lines', i)
      <3>1. n \in 0..Len(lines) /\ n \in 0..Len(lines') /\ n <= n
        BY <1>1, <1>6, <2>1
      <3> QED BY <1>3, <2>1, <3>1
    <2>5. CASE LineOK(lines', n + 1)
      <3>1. Verified(lines', n + 1)
        BY <1>1, <1>6, <2>1, <2>4, <2>5 DEF Verified
      <3>2. Trusted(lines') = n + 1
        BY <1>1, <1>6, <2>1, <3>1, TrustedIs
      <3>3. ChainOK(lines') /\ Final(lines', open') \in {n, n + 1}
        BY <1>1, <1>2, <1>6, <2>1, <3>2 DEF Final
      <3>4. lines'[n + 1].data \in Payload
        <4>1. lines'[n + 1] # Corrupt /\ lines'[n + 1] \in Event \cup {Corrupt}
          BY <1>1, <1>6, <2>1, <2>5 DEF LineOK, TypeOK
        <4> QED BY <4>1 DEF Event
      <3>5. Entries(lines') = Append(Entries(lines), lines'[n + 1].data)
        <4>1. Entries(lines') = [i \in 1..(n + 1) |-> lines'[i].data]
          BY <3>2 DEF Entries
        <4>2. [i \in 1..(n + 1) |-> lines'[i].data]
                = Append([i \in 1..n |-> lines[i].data], lines'[n + 1].data)
          BY <1>1, <1>6, <2>1
        <4> QED BY <2>3, <4>1, <4>2
      <3>6. Len(Entries(lines)) = n
        BY <1>1, <1>6, <2>3
      <3>7. PICK d \in Payload : d = lines'[n + 1].data
        BY <3>4
      <3>8. Abstract!Extend(d)
        BY <2>2, <3>3, <3>5, <3>6, <3>7 DEF Abstract!Extend, Entries, Final
      <3> QED BY <3>8 DEF Abstract!Next
    <2>6. CASE ~LineOK(lines', n + 1)
      <3>1. Verified(lines', n)
        BY <2>4, <2>6 DEF Verified
      <3>2. Trusted(lines') = n
        BY <1>1, <1>6, <2>1, <3>1, TrustedIs
      <3>3. ~ChainOK(lines') /\ Final(lines', open') = n
        BY <1>1, <1>2, <1>6, <2>1, <3>2 DEF Final
      <3>4. Entries(lines') = SubSeq(Entries(lines), 1, n)
        <4>1. Entries(lines') = [i \in 1..n |-> lines'[i].data]
          BY <3>2 DEF Entries
        <4>2. [i \in 1..n |-> lines'[i].data] = [i \in 1..n |-> lines[i].data]
          BY <2>1
        <4>3. SubSeq([i \in 1..n |-> lines[i].data], 1, n) = [i \in 1..n |-> lines[i].data]
          BY <1>1, <1>6
        <4> QED BY <2>3, <4>1, <4>2, <4>3
      <3>5. Abstract!Break
        BY <2>2, <3>3, <3>4 DEF Abstract!Break, Entries, Final
      <3> QED BY <3>5 DEF Abstract!Next
    <2> QED BY <2>5, <2>6
  <1> QED BY <1>1, <1>2, <1>4, <1>5, <1>6

(* memory_log.py implements the append-only log: appends add entries or break *)
(* the chain for good, and take back at most the entry whose line was open.   *)
THEOREM LogIsAppendOnly == Spec => ImplementsAppendOnlyLog
  <1>1. Init => Abstract!Init
    <2> SUFFICES ASSUME Init PROVE Abstract!Init
      OBVIOUS
    <2>1. lines = <<>> /\ ~open /\ Len(lines) = 0
      BY DEF Init
    <2>2. ChainOK(lines)
      BY <2>1 DEF ChainOK
    <2>3. Trusted(lines) = 0
      BY <2>1, <2>2, TrustedExists
    <2>4. Entries(lines) = <<>>
      BY <2>3 DEF Entries
    <2>5. Final(lines, open) = 0
      BY <2>1, <2>3 DEF Final
    <2> QED BY <2>2, <2>4, <2>5 DEF Abstract!Init, Entries, Final
  <1>2. ASSUME TypeOK, InFlight, TypeOK', [MemNext]_memVars
        PROVE  [Abstract!Next]_(Abstract!logVars)
    <2>1. CASE UNCHANGED <<lines, open>>
      BY <2>1 DEF Abstract!logVars, Trusted, ChainOK, LineOK, HashBefore
    <2>2. ASSUME NEW p \in Proc, Write(p)
          PROVE  [Abstract!Next]_(Abstract!logVars)
      BY <1>2, <2>2, AddTextRefines DEF Write
    <2>3. ASSUME NEW p \in Proc, Tear(p)
          PROVE  [Abstract!Next]_(Abstract!logVars)
      <3>1. PICK text : AddText(text, FALSE)
        BY <2>3 DEF Tear
      <3> QED BY <1>2, <3>1, AddTextRefines
    <2> QED BY <1>2, <2>1, <2>2, <2>3
            DEF MemNext, Appender, memVars, Start, AcquireFlock, SkipFlock,
                Read, Return, Fail
  <1>3. TypeOK /\ InFlight /\ TypeOK' /\ [MemNext]_memVars
           => [Abstract!Next]_(Abstract!logVars)
    BY <1>2
  <1> QED BY <1>1, <1>3, TypeCorrect, PTL DEF Spec, ImplementsAppendOnlyLog, Abstract!Spec
-----------------------------------------------------------------------------
(* A head's hash determines the log *)

Line == Event \cup {Corrupt}
Pairs(ls, n) == [k \in 1..n |-> <<k - 1, ls[k].data>>]

(* In a log that verifies each hash is the chain of all the pairs up to it. *)
LEMMA HashIsHistory ==
    ASSUME NEW ls \in Seq(Line), ChainOK(ls)
    PROVE  \A i \in 1..Len(ls) : ls[i].hash = Pairs(ls, i) /\ ls[i].prev = Pairs(ls, i - 1)
  <1> DEFINE Bad == {i \in 1..Len(ls) : ls[i].hash # Pairs(ls, i)}
  <1>1. Len(ls) \in Nat
    OBVIOUS
  <1>2. ASSUME NEW i \in 1..Len(ls), i # 1 => ls[i - 1].hash = Pairs(ls, i - 1)
        PROVE  ls[i].hash = Pairs(ls, i) /\ ls[i].prev = Pairs(ls, i - 1)
    <2>1. /\ ls[i].seq = i - 1 /\ ls[i].prev = HashBefore(ls, i)
          /\ ls[i].hash = Append(ls[i].prev, <<i - 1, ls[i].data>>)
      BY DEF ChainOK, LineOK, EventHash
    <2>2. i # 1 => ls[i - 1] # Corrupt
      BY <1>1 DEF ChainOK, LineOK
    <2>3. ls[i].prev = Pairs(ls, i - 1)
      <3>1. CASE i = 1
        BY <2>1, <3>1 DEF HashBefore, ZERO, Pairs
      <3>2. CASE i # 1
        BY <1>2, <2>1, <2>2, <3>2 DEF HashBefore, HashOf
      <3> QED BY <3>1, <3>2
    <2>4. Pairs(ls, i) = Append(Pairs(ls, i - 1), <<i - 1, ls[i].data>>)
      BY <1>1 DEF Pairs
    <2> QED BY <2>1, <2>3, <2>4
  <1>3. Bad = {}
    <2> SUFFICES ASSUME Bad # {} PROVE FALSE
      OBVIOUS
    <2>1. PICK i \in Bad : \A j \in Bad : i <= j
      <3>1. Bad \in SUBSET Nat
        BY <1>1
      <3> HIDE DEF Bad
      <3> QED BY <3>1, FirstExists
    <2>2. i # 1 => ls[i - 1].hash = Pairs(ls, i - 1)
      <3> SUFFICES ASSUME i # 1 PROVE i - 1 \notin Bad /\ i - 1 \in 1..Len(ls)
        OBVIOUS
      <3>1. i - 1 \in 1..Len(ls) /\ ~(i <= i - 1)
        BY <1>1
      <3> QED BY <2>1, <3>1
    <2> QED BY <1>2, <2>2
  <1>4. \A i \in 1..Len(ls) : ls[i].hash = Pairs(ls, i)
    BY <1>3
  <1>5. ASSUME NEW i \in 1..Len(ls)
        PROVE  ls[i].hash = Pairs(ls, i) /\ ls[i].prev = Pairs(ls, i - 1)
    <2>1. i # 1 => i - 1 \in 1..Len(ls)
      BY <1>1
    <2> QED BY <1>2, <1>4, <2>1
  <1> QED BY <1>5

(* Two logs that verify and have one head are one log. *)
LEMMA HeadDetermines ==
    ASSUME NEW ls \in Seq(Line), NEW ms \in Seq(Line), ChainOK(ls), ChainOK(ms),
           HeadHash(ls) = HeadHash(ms)
    PROVE  Len(ls) = Len(ms) /\ \A i \in 1..Len(ls) : ls[i] = ms[i]
  <1>1. ASSUME NEW ns \in Seq(Line), ChainOK(ns)
        PROVE  HeadHash(ns) = Pairs(ns, Len(ns))
    <2>1. Len(ns) \in Nat
      OBVIOUS
    <2>2. CASE Len(ns) = 0
      BY <2>2 DEF HeadHash, HashBefore, ZERO, Pairs
    <2>3. CASE Len(ns) # 0
      <3>1. Len(ns) \in 1..Len(ns) /\ Len(ns) + 1 # 1 /\ (Len(ns) + 1) - 1 = Len(ns)
        BY <2>1, <2>3
      <3>2. ns[Len(ns)] # Corrupt /\ ns[Len(ns)].hash = Pairs(ns, Len(ns))
        BY <1>1, <3>1, HashIsHistory DEF ChainOK, LineOK
      <3> QED BY <3>1, <3>2 DEF HeadHash, HashBefore, HashOf
    <2> QED BY <2>2, <2>3
  <1>2. Pairs(ls, Len(ls)) = Pairs(ms, Len(ms)) /\ Len(ls) \in Nat /\ Len(ms) \in Nat
    BY <1>1
  <1>3. Len(ls) = Len(ms)
    <2>1. Len(Pairs(ls, Len(ls))) = Len(ls) /\ Len(Pairs(ms, Len(ms))) = Len(ms)
      BY <1>2 DEF Pairs
    <2> QED BY <1>2, <2>1
  <1>4. ASSUME NEW i \in 1..Len(ls)
        PROVE  ls[i].data = ms[i].data
    <2>1. Pairs(ls, Len(ls))[i] = <<i - 1, ls[i].data>>
      BY DEF Pairs
    <2>2. Pairs(ms, Len(ms))[i] = <<i - 1, ms[i].data>>
      BY <1>3 DEF Pairs
    <2> QED BY <1>2, <2>1, <2>2
  <1>5. ASSUME NEW i \in 1..Len(ls)
        PROVE  ls[i] = ms[i]
    <2>1. i \in 1..Len(ms)
      BY <1>3
    <2>2. /\ ls[i] \in Event /\ ms[i] \in Event
          /\ ls[i].seq = i - 1 /\ ms[i].seq = i - 1
      BY <2>1 DEF ChainOK, LineOK, Line
    <2>3. Pairs(ls, i) = Pairs(ms, i) /\ Pairs(ls, i - 1) = Pairs(ms, i - 1)
      BY <1>2, <1>4 DEF Pairs
    <2>4. ls[i].hash = ms[i].hash /\ ls[i].prev = ms[i].prev
      <3>1. ls[i].hash = Pairs(ls, i) /\ ls[i].prev = Pairs(ls, i - 1)
        BY HashIsHistory
      <3>2. ms[i].hash = Pairs(ms, i) /\ ms[i].prev = Pairs(ms, i - 1)
        BY <2>1, HashIsHistory
      <3> QED BY <2>3, <3>1, <3>2
    <2> QED BY <1>4, <2>2, <2>4 DEF Event
  <1> QED BY <1>3, <1>5

-----------------------------------------------------------------------------
(* The invariant of the repository *)

Witness == [head : Digest, events : SUBSET Event, sound : BOOLEAN]

AnchorTypeOK ==
    /\ TypeOK /\ InFlight
    /\ present \in BOOLEAN /\ commit \in 0..MaxCommits
    /\ notes \in [Commit -> Digest \cup {NoNote}]
    /\ witness \in [Commit -> Witness]
    /\ apc \in [Anchorer -> {"idle", "rev-parse", "note"}]
    /\ aread \in [Anchorer -> Witness]
    /\ asha \in [Anchorer -> 0..MaxCommits]
    /\ \A a \in Anchorer : apc[a] = "note" => asha[a] \in Commit
    /\ damages \in Seq(DamageKinds)

(* A log that verified once had this head, and these events on its lines. *)
Sound(w) == w.sound =>
    \E ls \in Seq(Line) : /\ ChainOK(ls) /\ HeadHash(ls) = w.head
                          /\ \A e \in w.events : \E i \in 1..Len(ls) : ls[i] = e

(* A note is the hash that was read with its witness. *)
NotesTrue ==
    /\ \A c \in Commit : Sound(witness[c]) /\ (notes[c] # NoNote => notes[c] = witness[c].head)
    /\ \A a \in Anchorer : Sound(aread[a])

(* Without a file, unless it was deleted, nothing has been read from it. *)
NothingYet ==
    ~present /\ "delete" \notin Done =>
        /\ lines = <<>>
        /\ \A c \in Commit : witness[c].events = {}
        /\ \A a \in Anchorer : aread[a].events = {}

AnchorInv == AnchorTypeOK /\ NotesTrue /\ NothingYet

(* An anchor that has read nothing is one of an empty log. *)
LEMMA NothingType == Nothing \in Witness /\ Sound(Nothing) /\ Nothing.events = {}
  <1>1. ZERO \in Digest
    BY DEF ZERO, Digest
  <1> QED BY <1>1 DEF Nothing, Witness, Sound

(* Damage leaves lines of the same types. *)
LEMMA DamageType ==
    ASSUME TypeOK, Damage
    PROVE  lines' \in Seq(Line)
  <1>1. PICK kind \in AllDamage : lines' \in Damaged(kind)
    BY AnchorAssumption DEF Damage, AnchorAssumption
  <1>2. lines \in Seq(Line) /\ Len(lines) \in Nat
    BY DEF TypeOK, Line
  <1>3. CASE kind = "edit"
    <2>1. PICK i \in {j \in 1..Len(lines) : lines[j] # Corrupt}, d \in Payload :
             lines' = [lines EXCEPT ![i].data = d]
      BY <1>1, <1>3 DEF Damaged
    <2>2. lines[i] \in Event
      BY <1>2 DEF Line
    <2>3. [lines[i] EXCEPT !.data = d] \in Line
      BY <2>2 DEF Line, Event
    <2> QED BY <1>2, <2>1, <2>3
  <1>4. CASE kind = "garble"
    BY <1>1, <1>2, <1>4 DEF Damaged, Line
  <1>5. CASE kind = "drop"
    <2> DEFINE without(i) == SubSeq(lines, 1, i - 1) \o SubSeq(lines, i + 1, Len(lines))
    <2>1. Damaged(kind) = {without(i) : i \in 1..(Len(lines) - 1)}
      BY <1>5 DEF Damaged
    <2>2. PICK i \in 1..(Len(lines) - 1) : lines' = without(i)
      <3> HIDE DEF without
      <3> QED BY <1>1, <2>1
    <2>3. SubSeq(lines, 1, i - 1) \in Seq(Line) /\ SubSeq(lines, i + 1, Len(lines)) \in Seq(Line)
      BY <1>2
    <2> QED BY <2>2, <2>3
  <1>6. CASE kind = "swap"
    <2> DEFINE swapped(i) == [lines EXCEPT ![i] = lines[i + 1], ![i + 1] = lines[i]]
    <2>1. Damaged(kind) = {swapped(i) : i \in 1..(Len(lines) - 1)}
      BY <1>6 DEF Damaged
    <2>2. PICK i \in 1..(Len(lines) - 1) : lines' = swapped(i)
      <3> HIDE DEF swapped
      <3> QED BY <1>1, <2>1
    <2>3. lines[i] \in Line /\ lines[i + 1] \in Line
      BY <1>2
    <2> QED BY <1>2, <2>2, <2>3
  <1>7. CASE kind = "truncate"
    <2> DEFINE first(i) == SubSeq(lines, 1, i)
    <2>1. Damaged(kind) = {first(i) : i \in 0..(Len(lines) - 1)}
      BY <1>7 DEF Damaged
    <2>2. PICK i \in 0..(Len(lines) - 1) : lines' = first(i)
      <3> HIDE DEF first
      <3> QED BY <1>1, <2>1
    <2> QED BY <1>2, <2>2
  <1>8. CASE kind = "forge"
    <2>1. Damaged(kind) = {Chain(ds) : ds \in UNION {[1..m -> Payload] : m \in 1..MaxLines}}
      BY <1>8 DEF Damaged
    <2>2. PICK ds \in UNION {[1..m -> Payload] : m \in 1..MaxLines} : lines' = Chain(ds)
      BY <1>1, <2>1, Zenon
    <2>3. PICK m \in 1..MaxLines : ds \in [1..m -> Payload]
      BY <2>2, Zenon
    <2>4. m \in Nat /\ ds \in Seq(Payload) /\ Len(ds) = m
      BY <2>3, MemoryAssumption DEF MemoryAssumption
    <2> DEFINE digest(n) == [k \in 1..n |-> <<k - 1, ds[k]>>]
    <2>5. ASSUME NEW n \in 0..m
          PROVE  digest(n) \in Digest
      BY <2>3, <2>4 DEF Digest
    <2> DEFINE line(i) == [seq |-> i - 1, prev |-> digest(i - 1), data |-> ds[i],
                           hash |-> digest(i)]
    <2>6. ASSUME NEW i \in 1..m PROVE line(i) \in Line
      <3>1. i - 1 \in 0..m /\ i \in 0..m /\ i - 1 \in Nat /\ ds[i] \in Payload
        BY <2>3, <2>4
      <3>2. digest(i - 1) \in Digest /\ digest(i) \in Digest
        BY <2>5, <3>1
      <3> HIDE DEF digest
      <3> QED BY <3>1, <3>2 DEF Line, Event
    <2>7. Chain(ds) = [i \in 1..m |-> line(i)]
      BY <2>4 DEF Chain
    <2> HIDE DEF digest, line
    <2> QED BY <2>2, <2>4, <2>6, <2>7
  <1>9. CASE kind = "delete"
    BY <1>1, <1>9 DEF Damaged
  <1> QED BY <1>1, <1>3, <1>4, <1>5, <1>6, <1>7, <1>8, <1>9 DEF AllDamage

(* Appends, anchors, commits and damage keep the invariant. *)
LEMMA AnchorInvInit == AnchorInit => AnchorInv
  <1> SUFFICES ASSUME AnchorInit PROVE AnchorInv
    OBVIOUS
  <1> USE AnchorAssumption DEF AnchorAssumption
  <1>1. TypeOK /\ InFlight /\ lines = <<>>
    BY TypeInit DEF AnchorInit, Init
  <1>2. present \in BOOLEAN /\ commit \in 0..MaxCommits /\ damages \in Seq(DamageKinds)
    <2>1. present = FALSE /\ commit = 0 /\ damages = <<>>
      BY Zenon DEF AnchorInit
    <2>2. present \in BOOLEAN
      BY <2>1, Zenon
    <2> QED BY <2>1, <2>2
  <1>3. /\ notes \in [Commit -> Digest \cup {NoNote}] /\ witness \in [Commit -> Witness]
        /\ \A c \in Commit : notes[c] = NoNote /\ witness[c] = Nothing
    BY NothingType DEF AnchorInit
  <1>4. aread \in [Anchorer -> Witness] /\ \A a \in Anchorer : aread[a] = Nothing
    BY NothingType DEF AnchorInit
  <1>5. /\ apc \in [Anchorer -> {"idle", "rev-parse", "note"}]
        /\ \A a \in Anchorer : apc[a] # "note"
    BY DEF AnchorInit
  <1>6. asha \in [Anchorer -> 0..MaxCommits]
    BY DEF AnchorInit
  <1>7. AnchorTypeOK
    BY <1>1, <1>2, <1>3, <1>4, <1>5, <1>6 DEF AnchorTypeOK
  <1> QED BY <1>1, <1>3, <1>4, <1>7, NothingType DEF AnchorInv, NotesTrue, NothingYet

LEMMA AnchorInvMemory ==
    ASSUME AnchorInv, MemoryStep
    PROVE  AnchorInv'
  <1>1. TypeOK' /\ InFlight'
    BY TypeStep DEF AnchorInv, AnchorTypeOK, MemoryStep
  <1>2. AnchorTypeOK'
    BY <1>1 DEF AnchorInv, AnchorTypeOK, MemoryStep
  <1>3. NotesTrue'
    BY DEF AnchorInv, NotesTrue, MemoryStep
  <1>4. NothingYet'
    BY DEF AnchorInv, AnchorTypeOK, NothingYet, MemoryStep, Done
  <1> QED BY <1>2, <1>3, <1>4 DEF AnchorInv

LEMMA AnchorInvAnchoring ==
    ASSUME AnchorInv, NEW a \in Anchorer, Anchoring(a)
    PROVE  AnchorInv'
  <1>1. TypeOK' /\ InFlight' /\ UNCHANGED <<lines, acked, present, commit, damages>>
    <2>1. UNCHANGED memVars /\ UNCHANGED <<present, commit, damages>>
      BY DEF Anchoring, AnchorRead, AnchorRevParse, AnchorNote, AnchorFail
    <2>2. UNCHANGED <<lines, acked>>
      BY <2>1 DEF memVars
    <2> QED BY <2>1, <2>2, TypeStep DEF AnchorInv, AnchorTypeOK
  <1> DEFINE Seen == [head   |-> HeadHash(lines), events |-> {e \in acked : Logged(e)},
                      sound  |-> ChainOK(lines)]
  <1>2. /\ Seen \in Witness /\ Sound(Seen)
        /\ ~present /\ "delete" \notin Done => Seen.events = {}
    <2>1. HeadHash(lines) \in Digest /\ acked \subseteq Event /\ ChainOK(lines) \in BOOLEAN
      BY HeadHashType DEF AnchorInv, AnchorTypeOK, TypeOK, ChainOK
    <2>2. Seen \in Witness
      BY <2>1 DEF Witness
    <2>3. Sound(Seen)
      <3>1. lines \in Seq(Line)
        BY DEF AnchorInv, AnchorTypeOK, TypeOK, Line
      <3> QED BY <3>1 DEF Sound, Logged
    <2>4. ~present /\ "delete" \notin Done => Seen.events = {}
      BY DEF AnchorInv, NothingYet, Logged
    <2> QED BY <2>2, <2>3, <2>4
  <1> HIDE DEF Seen
  <1>3. CASE AnchorRead(a)
    <2>1. /\ aread' = [aread EXCEPT ![a] = Seen] /\ UNCHANGED <<notes, witness, asha>>
          /\ apc' = [apc EXCEPT ![a] = "rev-parse"]
      BY <1>3 DEF AnchorRead, AGoto, Seen
    <2>2. AnchorTypeOK'
      BY <1>1, <1>2, <2>1 DEF AnchorInv, AnchorTypeOK
    <2>3. NotesTrue'
      BY <1>2, <2>1 DEF AnchorInv, AnchorTypeOK, NotesTrue
    <2>4. NothingYet'
      BY <1>1, <1>2, <2>1 DEF AnchorInv, AnchorTypeOK, NothingYet, Done
    <2> QED BY <2>2, <2>3, <2>4 DEF AnchorInv
  <1>4. CASE AnchorRevParse(a)
    <2>1. /\ asha' = [asha EXCEPT ![a] = commit] /\ UNCHANGED <<notes, witness, aread>>
          /\ apc' = [apc EXCEPT ![a] = "note"] /\ commit # 0
      BY <1>4 DEF AnchorRevParse, AGoto
    <2>2. AnchorTypeOK'
      BY <1>1, <2>1, AnchorAssumption DEF AnchorInv, AnchorTypeOK, Commit, AnchorAssumption
    <2>3. NotesTrue' /\ NothingYet'
      BY <1>1, <2>1 DEF AnchorInv, NotesTrue, NothingYet, Done
    <2> QED BY <2>2, <2>3 DEF AnchorInv
  <1>5. CASE AnchorNote(a)
    <2>1. /\ notes' = [notes EXCEPT ![asha[a]] = aread[a].head]
          /\ witness' = [witness EXCEPT ![asha[a]] = aread[a]]
          /\ aread' = [aread EXCEPT ![a] = Nothing] /\ asha' = [asha EXCEPT ![a] = 0]
          /\ apc' = [apc EXCEPT ![a] = "idle"] /\ apc[a] = "note"
      BY <1>5 DEF AnchorNote, AGoto
    <2>2. asha[a] \in Commit /\ aread[a] \in Witness /\ aread[a].head \in Digest
      BY <2>1 DEF AnchorInv, AnchorTypeOK, Witness
    <2>3. AnchorTypeOK'
      BY <1>1, <2>1, <2>2, NothingType, AnchorAssumption
         DEF AnchorInv, AnchorTypeOK, AnchorAssumption
    <2>4. NotesTrue'
      BY <2>1, <2>2, NothingType DEF AnchorInv, AnchorTypeOK, NotesTrue
    <2>5. NothingYet'
      BY <1>1, <2>1, <2>2, NothingType DEF AnchorInv, AnchorTypeOK, NothingYet, Done
    <2> QED BY <2>3, <2>4, <2>5 DEF AnchorInv
  <1>6. CASE AnchorFail(a)
    <2>1. /\ aread' = [aread EXCEPT ![a] = Nothing] /\ asha' = [asha EXCEPT ![a] = 0]
          /\ apc' = [apc EXCEPT ![a] = "idle"] /\ UNCHANGED <<notes, witness>>
      BY <1>6 DEF AnchorFail, AGoto
    <2>2. AnchorTypeOK'
      BY <1>1, <2>1, NothingType, AnchorAssumption
         DEF AnchorInv, AnchorTypeOK, AnchorAssumption
    <2>3. NotesTrue' /\ NothingYet'
      BY <1>1, <2>1, NothingType DEF AnchorInv, AnchorTypeOK, NotesTrue, NothingYet, Done
    <2> QED BY <2>2, <2>3 DEF AnchorInv
  <1> QED BY <1>3, <1>4, <1>5, <1>6 DEF Anchoring

LEMMA AnchorInvDamage ==
    ASSUME AnchorInv, Damage
    PROVE  AnchorInv'
  <1>1. TypeOK' /\ InFlight'
    <2>1. lines' \in Seq(Event \cup {Corrupt})
      BY DamageType DEF AnchorInv, AnchorTypeOK, Line
    <2>2. open' \in BOOLEAN /\ (open' => lines' # <<>>)
      BY Zenon DEF Damage
    <2> QED BY <2>1, <2>2 DEF AnchorInv, AnchorTypeOK, Damage, TypeOK, InFlight
  <1>2. PICK kind \in DamageKinds :
           /\ present' = (kind # "delete") /\ damages' = Append(damages, kind)
    BY DEF Damage
  <1>3. UNCHANGED <<commit, notes, witness, apc, aread, asha>>
    BY DEF Damage
  <1>4. AnchorTypeOK'
    <2>1. damages' \in Seq(DamageKinds)
      BY <1>2 DEF AnchorInv, AnchorTypeOK
    <2> QED BY <1>1, <1>2, <1>3, <2>1 DEF AnchorInv, AnchorTypeOK
  <1>5. NotesTrue'
    BY <1>3 DEF AnchorInv, NotesTrue
  <1>6. NothingYet'
    <2>1. ~present' => "delete" \in Done'
      <3> SUFFICES ASSUME ~present' PROVE "delete" \in Done'
        OBVIOUS
      <3>1. damages' = Append(damages, "delete") /\ damages \in Seq(DamageKinds)
        BY <1>2 DEF AnchorInv, AnchorTypeOK
      <3>2. Len(damages') \in 1..Len(damages') /\ damages'[Len(damages')] = "delete"
        BY <3>1
      <3> QED BY <3>2 DEF Done
    <2> QED BY <2>1 DEF NothingYet
  <1> QED BY <1>4, <1>5, <1>6 DEF AnchorInv

LEMMA AnchorInvariant == AnchorSpec => []AnchorInv
  <1>1. AnchorInv /\ [Next]_vars => AnchorInv'
    <2> SUFFICES ASSUME AnchorInv, [Next]_vars PROVE AnchorInv'
      OBVIOUS
    <2>1. CASE MakeCommit
      <3>1. /\ commit' \in 0..MaxCommits /\ UNCHANGED memVars
            /\ UNCHANGED <<present, notes, witness, apc, aread, asha, damages>>
        BY <2>1, AnchorAssumption
           DEF MakeCommit, AnchorInv, AnchorTypeOK, AnchorAssumption
      <3>2. TypeOK' /\ InFlight' /\ lines' = lines
        BY <3>1, TypeStep DEF AnchorInv, AnchorTypeOK, memVars
      <3>3. AnchorTypeOK'
        BY <3>1, <3>2 DEF AnchorInv, AnchorTypeOK
      <3>4. NotesTrue' /\ NothingYet'
        BY <3>1, <3>2 DEF AnchorInv, NotesTrue, NothingYet, Done
      <3> QED BY <3>3, <3>4 DEF AnchorInv
    <2>2. CASE UNCHANGED vars
      BY <2>2, TypeStep
         DEF vars, gitVars, AnchorInv, AnchorTypeOK, NotesTrue, NothingYet, Done, memVars
    <2> QED BY <2>1, <2>2, AnchorInvMemory, AnchorInvAnchoring, AnchorInvDamage DEF Next
  <1> QED BY <1>1, AnchorInvInit, PTL DEF AnchorSpec

(* The lines that a verified anchor vouches for are there. *)
LEMMA AnchorVouches ==
    ASSUME AnchorInv, AnchorVerifies, witness[commit].sound
    PROVE  AnchoredEventsLogged
  <1>1. commit \in Commit
    BY AnchorAssumption
       DEF AnchorInv, AnchorTypeOK, AnchorVerifies, Anchored, Commit, AnchorAssumption
  <1>2. HeadHash(lines) = witness[commit].head /\ Sound(witness[commit]) /\ ChainOK(lines)
    BY <1>1 DEF AnchorInv, NotesTrue, AnchorVerifies, Anchored
  <1>3. PICK ls \in Seq(Line) :
           /\ ChainOK(ls) /\ HeadHash(ls) = HeadHash(lines)
           /\ \A e \in witness[commit].events : \E i \in 1..Len(ls) : ls[i] = e
    BY <1>2 DEF Sound
  <1>4. lines \in Seq(Line)
    BY DEF AnchorInv, AnchorTypeOK, TypeOK, Line
  <1>5. Len(ls) = Len(lines) /\ \A i \in 1..Len(ls) : ls[i] = lines[i]
    BY <1>2, <1>3, <1>4, HeadDetermines
  <1> QED BY <1>3, <1>5 DEF AnchoredEventsLogged, Logged

(* `verify --anchor` after an anchor of a log that verified: every event that *)
(* was acknowledged then is in the log, whatever was done to the file.        *)
THEOREM AnchorIsProof == AnchorSpec => []AnchorDetectsRewrite
  <1>1. AnchorInv => AnchorDetectsRewrite
    BY AnchorVouches DEF AnchorDetectsRewrite
  <1> QED BY <1>1, AnchorInvariant, PTL

(* And so does a strict release gate, where the file was not deleted. *)
THEOREM GateVouches == AnchorSpec => []GateProvesHistory
  <1>1. ASSUME AnchorInv, GatePasses, Anchored, witness[commit].sound, "delete" \notin Done
        PROVE  AnchoredEventsLogged
    <2>1. commit \in Commit
      BY <1>1, AnchorAssumption DEF AnchorInv, AnchorTypeOK, Anchored, Commit, AnchorAssumption
    <2>2. CASE present
      <3>1. AnchorVerifies
        BY <1>1, <2>1, <2>2 DEF GatePasses, Anchored
      <3> QED BY <1>1, <3>1, AnchorVouches
    <2>3. CASE ~present
      BY <1>1, <2>1, <2>3 DEF AnchorInv, NothingYet, AnchoredEventsLogged
    <2> QED BY <2>2, <2>3
  <1>2. AnchorInv => GateProvesHistory
    BY <1>1 DEF GateProvesHistory
  <1> QED BY <1>2, AnchorInvariant, PTL
-----------------------------------------------------------------------------
(* The log within its repository, as long as nobody damages it *)

(* Steps of the repository are appends, or leave what append() uses alone. *)
LEMMA OtherSteps ==
    ASSUME [Next]_vars, ~MemoryStep, ~Damage
    PROVE  UNCHANGED memVars /\ UNCHANGED damages
  BY DEF Next, vars, gitVars, Anchoring, AnchorRead, AnchorRevParse, AnchorNote,
         AnchorFail, MakeCommit

(* Without damage the repository's log is the one that append() writes: what *)
(* is proved of Spec holds there too, the append-only refinement included.   *)
THEOREM RepositoryLog == MaxDamage = 0 => (AnchorSpec => Spec)
  <1> SUFFICES ASSUME MaxDamage = 0 PROVE AnchorSpec => Spec
    OBVIOUS
  <1>1. AnchorInit => Init
    BY DEF AnchorInit
  <1>2. AnchorInv /\ [Next]_vars => [MemNext]_memVars
    <2> SUFFICES ASSUME AnchorInv, [Next]_vars PROVE [MemNext]_memVars
      OBVIOUS
    <2>1. ~Damage
      BY DEF Damage, AnchorInv, AnchorTypeOK
    <2>2. CASE MemoryStep
      BY <2>2 DEF MemoryStep
    <2> QED BY <2>1, <2>2, OtherSteps
  <1> QED BY <1>1, <1>2, AnchorInvariant, PTL DEF AnchorSpec, Spec

(* An event that append() writes under the lock carries its line's number. *)
LEMMA NumberedStep ==
    ASSUME TypeOK, InFlight, Exclusive, HasFlock, Numbered, [MemNext]_memVars
    PROVE  Numbered'
  <1>1. CASE UNCHANGED lines
    BY <1>1 DEF Numbered
  <1>2. ASSUME NEW p \in Proc, Write(p) \/ Tear(p)
        PROVE  Numbered'
    <2>1. entry[p] = NewEvent(lines, entry[p].data)
      BY <1>2 DEF Exclusive, Write, Tear
    <2>2. entry[p].seq = Len(lines)
      BY <2>1 DEF NewEvent
    <2>3. PICK text \in {Corrupt, entry[p]}, closed \in BOOLEAN : AddText(text, closed)
      BY <1>2, Zenon DEF Write, Tear
    <2>4. Len(lines) \in Nat
      BY DEF TypeOK
    <2>5. ASSUME NEW i \in 1..Len(lines'), lines'[i] # Corrupt
          PROVE  lines'[i].seq = i - 1
      <3>1. CASE i <= Len(lines)
        <4>1. i \in 1..Len(lines) /\ lines'[i] = lines[i]
          BY <2>3, <2>4, <2>5, <3>1, AddTextKeepsLines
        <4> QED BY <2>5, <4>1 DEF Numbered
      <3>2. CASE ~(i <= Len(lines))
        <4>1. i = Len(lines) + 1 /\ Len(lines') = Len(lines) + 1
          BY <2>3, <2>4, <2>5, <3>2, AddTextKeepsLines
        <4>2. ~open
          BY <2>3, <2>4, <4>1, AddTextLast
        <4>3. lines'[i] = text
          BY <2>3, <4>1, <4>2, AddTextLast
        <4> QED BY <2>2, <2>3, <2>4, <2>5, <4>1, <4>3
      <3> QED BY <3>1, <3>2
    <2> QED BY <2>5 DEF Numbered
  <1> QED BY <1>1, <1>2
          DEF MemNext, Appender, memVars, Start, AcquireFlock, SkipFlock,
              Read, Return, Fail

(* As long as no write is cut short every line is closed and is JSON. *)
LEMMA UntornStep ==
    ASSUME TypeOK, InFlight, [MemNext]_memVars, tears' = 0,
           tears = 0 => ~open /\ \A i \in 1..Len(lines) : lines[i] # Corrupt
    PROVE  ~open' /\ \A i \in 1..Len(lines') : lines'[i] # Corrupt
  <1>1. CASE UNCHANGED <<lines, open, tears>>
    BY <1>1
  <1>2. ASSUME NEW p \in Proc, Tear(p)
        PROVE  FALSE
    BY <1>2 DEF Tear, TypeOK
  <1>3. ASSUME NEW p \in Proc, Write(p)
        PROVE  ~open' /\ \A i \in 1..Len(lines') : lines'[i] # Corrupt
    <2>1. AddText(entry[p], TRUE) /\ entry[p] # Corrupt /\ ~open /\ tears = 0
      BY <1>3, MemoryAssumption DEF Write, InFlight
    <2>2. ~open' /\ lines' = Append(lines, entry[p])
      BY <2>1 DEF AddText
    <2>3. Len(lines) \in Nat
      BY DEF TypeOK
    <2> QED BY <2>1, <2>2, <2>3 DEF TypeOK
  <1> QED BY <1>1, <1>2, <1>3
          DEF MemNext, Appender, memVars, Start, AcquireFlock, SkipFlock,
              Read, Return, Fail

(* Appends, anchors and commits keep all that append() makes of the file. *)
LEMMA UndamagedInvariant == AnchorSpec => []Undamaged
  <1>1. AnchorInit => Undamaged
    <2> SUFFICES ASSUME AnchorInit PROVE Undamaged
      OBVIOUS
    <2>1. lines = <<>> /\ acked = {} /\ ~open /\ \A p \in Proc : pc[p] = "idle"
      BY DEF AnchorInit, Init
    <2>2. WrittenKept /\ Exclusive /\ LockedChain /\ Numbered
      BY <2>1 DEF WrittenKept, Exclusive, LockedChain, Numbered
    <2> QED BY <2>1, <2>2 DEF Undamaged
  <1>2. ASSUME AnchorInv, Undamaged, [Next]_vars
        PROVE  Undamaged'
    <2> USE DEF AnchorInv, AnchorTypeOK
    <2>1. CASE Damage
      <3>1. PICK kind \in DamageKinds : damages' = Append(damages, kind)
        BY <2>1 DEF Damage
      <3>2. damages' # <<>>
        BY <1>2, <3>1
      <3> QED BY <3>2 DEF Undamaged
    <2>2. CASE ~Damage
      <3>1. [MemNext]_memVars /\ damages' = damages
        BY <1>2, <2>2, OtherSteps DEF MemoryStep
      <3> SUFFICES ASSUME damages = <<>>
                   PROVE  /\ WrittenKept' /\ Exclusive' /\ LockedChain'
                          /\ HasFlock => Numbered'
                          /\ tears' = 0 => ~open' /\ \A i \in 1..Len(lines') : lines'[i] # Corrupt
        BY <3>1 DEF Undamaged
      <3>2. /\ WrittenKept /\ Exclusive /\ LockedChain
            /\ HasFlock => Numbered
            /\ tears = 0 => ~open /\ \A i \in 1..Len(lines) : lines[i] # Corrupt
        BY <1>2 DEF Undamaged
      <3>3. WrittenKept'
        BY <1>2, <3>1, <3>2, WrittenKeptStep
      <3>4. Exclusive' /\ LockedChain'
        BY <1>2, <3>1, <3>2, LockedChainStep
      <3>5. HasFlock => Numbered'
        BY <1>2, <3>1, <3>2, NumberedStep
      <3>6. tears' = 0 => ~open' /\ \A i \in 1..Len(lines') : lines'[i] # Corrupt
        BY <1>2, <3>1, <3>2, UntornStep
      <3> QED BY <3>3, <3>4, <3>5, <3>6
    <2> QED BY <2>1, <2>2
  <1>3. AnchorInv /\ Undamaged /\ [Next]_vars => Undamaged'
    BY <1>2
  <1> QED BY <1>1, <1>3, AnchorInvariant, PTL DEF AnchorSpec

(* In a log that verifies and holds what was written whole, nothing is lost. *)
LEMMA KeptIsLogged ==
    ASSUME WrittenKept, ChainOK(lines)
    PROVE  \A e \in acked : Logged(e)
  BY DEF WrittenKept, Kept, Logged, ChainOK, LineOK

(* Until somebody damages the file, the repository's log loses nothing behind *)
(* a verify that exits 0; and with the lock and no write cut short it verifies. *)
THEOREM UndamagedLog ==
    AnchorSpec => [](damages = <<>> => /\ NoSilentLoss
                                       /\ HasFlock /\ tears = 0 => ChainOK(lines))
  <1>1. ASSUME AnchorInv, Undamaged, damages = <<>>
        PROVE  NoSilentLoss /\ (HasFlock /\ tears = 0 => ChainOK(lines))
    <2>1. WrittenKept /\ LockedChain /\ (tears = 0 => \A i \in 1..Len(lines) : lines[i] # Corrupt)
      BY <1>1 DEF Undamaged
    <2>2. Len(lines) \in Nat
      BY <1>1 DEF AnchorInv, AnchorTypeOK, TypeOK
    <2> QED BY <2>1, <2>2, KeptIsLogged DEF NoSilentLoss, LockedChain, ChainOK
  <1>2. AnchorInv /\ Undamaged => (damages = <<>> => /\ NoSilentLoss
                                                     /\ HasFlock /\ tears = 0 => ChainOK(lines))
    BY <1>1
  <1> QED BY <1>2, AnchorInvariant, UndamagedInvariant, PTL

-----------------------------------------------------------------------------
(* One damage inside the log *)

(* Whichever of the four kinds it is: a log that verifies afterwards is the *)
(* log of before.                                                           *)
LEMMA InteriorShows ==
    ASSUME AnchorInv, Undamaged, HasFlock, damages = <<>>, NEW kind \in Interior,
           lines' \in Damaged(kind), ChainOK(lines')
    PROVE  lines' = lines
  <1>1. lines \in Seq(Line) /\ Len(lines) \in Nat
    BY DEF AnchorInv, AnchorTypeOK, TypeOK, Line
  <1>2. LockedChain /\ Numbered
    BY DEF Undamaged
  <1>3. CASE kind = "edit"
    <2>1. PICK i \in {j \in 1..Len(lines) : lines[j] # Corrupt}, d \in Payload :
             lines' = [lines EXCEPT ![i].data = d]
      BY <1>3 DEF Damaged
    <2>2. lines[i] \in Event
      BY <1>1, <2>1 DEF Line
    <2> DEFINE f == [lines[i] EXCEPT !.data = d]
    <2>3. /\ f.data = d /\ f.hash = lines[i].hash
          /\ f.prev = lines[i].prev /\ f.seq = lines[i].seq
      BY <2>2 DEF Event
    <2> HIDE DEF f
    <2>4. lines' = [lines EXCEPT ![i] = f] /\ Len(lines') = Len(lines)
      BY <1>1, <2>1 DEF f
    <2>5. lines'[i] = f /\ \A j \in 1..Len(lines) : j # i => lines'[j] = lines[j]
      BY <1>1, <2>1, <2>4
    <2>6. \A j \in 1..Len(lines) : lines[j] # Corrupt
      BY <2>1, <2>4, <2>5 DEF ChainOK, LineOK
    <2>7. LineOK(lines, i)
      BY <1>1, <1>2, <2>1, <2>6 DEF LockedChain
    <2>8. LineOK(lines', i)
      BY <2>1, <2>4 DEF ChainOK
    <2>9. Append(lines[i].prev, <<lines[i].seq, lines[i].data>>)
             = Append(lines[i].prev, <<lines[i].seq, d>>)
      BY <2>3, <2>5, <2>7, <2>8 DEF LineOK, EventHash
    <2>10. lines[i].data = d
      <3>1. lines[i].prev \in Seq(Nat \X Payload)
        BY <2>2 DEF Event, Digest
      <3>2. <<lines[i].seq, lines[i].data>> = <<lines[i].seq, d>>
        BY <2>9, <3>1
      <3> QED BY <3>2
    <2>11. f = lines[i]
      BY <2>2, <2>10 DEF f, Event
    <2> QED BY <1>1, <2>4, <2>11
  <1>4. CASE kind = "garble"
    <2>1. PICK i \in 1..Len(lines) : lines' = [lines EXCEPT ![i] = Corrupt]
      BY <1>4 DEF Damaged
    <2>2. i \in 1..Len(lines') /\ lines'[i] = Corrupt
      BY <1>1, <2>1
    <2> QED BY <2>2 DEF ChainOK, LineOK
  <1>5. CASE kind = "drop"
    <2> DEFINE without(i) == SubSeq(lines, 1, i - 1) \o SubSeq(lines, i + 1, Len(lines))
    <2>1. Damaged(kind) = {without(i) : i \in 1..(Len(lines) - 1)}
      BY <1>5 DEF Damaged
    <2>2. PICK i \in 1..(Len(lines) - 1) : lines' = without(i)
      <3> HIDE DEF without
      <3> QED BY <2>1
    <2>3. i \in 1..Len(lines') /\ lines'[i] = lines[i + 1]
      BY <1>1, <2>2
    <2>4. lines[i + 1] # Corrupt /\ lines[i + 1].seq = i - 1
      BY <2>3 DEF ChainOK, LineOK
    <2>5. lines[i + 1].seq = i
      BY <1>1, <1>2, <2>4 DEF Numbered
    <2> QED BY <2>4, <2>5
  <1>6. CASE kind = "swap"
    <2> DEFINE swapped(i) == [lines EXCEPT ![i] = lines[i + 1], ![i + 1] = lines[i]]
    <2>1. Damaged(kind) = {swapped(i) : i \in 1..(Len(lines) - 1)}
      BY <1>6 DEF Damaged
    <2>2. PICK i \in 1..(Len(lines) - 1) : lines' = swapped(i)
      <3> HIDE DEF swapped
      <3> QED BY <2>1
    <2>3. i \in 1..Len(lines') /\ lines'[i] = lines[i + 1]
      BY <1>1, <2>2
    <2>4. lines[i + 1] # Corrupt /\ lines[i + 1].seq = i - 1
      BY <2>3 DEF ChainOK, LineOK
    <2>5. lines[i + 1].seq = i
      BY <1>1, <1>2, <2>4 DEF Numbered
    <2> QED BY <2>4, <2>5
  <1> QED BY <1>3, <1>4, <1>5, <1>6 DEF Interior

(* What a damage adds to the history of damages *)
LEMMA DamageHistory ==
    ASSUME AnchorInv, Damage
    PROVE  /\ Len(damages') = Len(damages) + 1 /\ Len(damages) \in Nat
           /\ Done \subseteq Done'
           /\ \E kind \in Done' \cap DamageKinds : lines' \in Damaged(kind)
  <1>1. PICK kind \in DamageKinds : lines' \in Damaged(kind) /\ damages' = Append(damages, kind)
    BY DEF Damage
  <1>2. damages \in Seq(DamageKinds) /\ Len(damages) \in Nat
    BY DEF AnchorInv, AnchorTypeOK
  <1>3. /\ Len(damages') = Len(damages) + 1
        /\ damages'[Len(damages')] = kind /\ Len(damages') \in 1..Len(damages')
        /\ \A i \in 1..Len(damages) : i \in 1..Len(damages') /\ damages'[i] = damages[i]
    BY <1>1, <1>2
  <1>4. Done \subseteq Done' /\ kind \in Done'
    BY <1>3 DEF Done
  <1> QED BY <1>1, <1>2, <1>3, <1>4

(* A step that is no damage leaves a broken log broken and keeps what is kept. *)
LEMMA CalmStep ==
    ASSUME AnchorInv, [Next]_vars, ~Damage
    PROVE  /\ ~ChainOK(lines) => ~ChainOK(lines')
           /\ WrittenKept => WrittenKept'
           /\ damages' = damages /\ (tears' = 0 => tears = 0)
  <1>1. [MemNext]_memVars /\ damages' = damages
    BY OtherSteps DEF MemoryStep
  <1>2. tears' = 0 => tears = 0
    <2>1. CASE UNCHANGED tears
      BY <2>1
    <2>2. ASSUME NEW p \in Proc, Tear(p)
          PROVE  tears' # 0
      <3>1. tears \in Nat
        BY DEF AnchorInv, AnchorTypeOK, TypeOK
      <3> QED BY <2>2, <3>1 DEF Tear
    <2>3. UNCHANGED tears \/ \E p \in Proc : Tear(p)
      BY <1>1 DEF MemNext, Appender, memVars, Start, AcquireFlock, SkipFlock,
                  Read, Write, Return, Fail
    <2> QED BY <2>1, <2>2, <2>3
  <1> QED BY <1>1, <1>2, BreakStays, WrittenKeptStep DEF AnchorInv, AnchorTypeOK

LEMMA DamageShowsInvariant == AnchorSpec => []DamageShows
  <1>1. AnchorInit => DamageShows
    BY DEF AnchorInit, Init, DamageShows, WrittenKept
  <1>2. ASSUME AnchorInv, Undamaged, DamageShows, [Next]_vars
        PROVE  DamageShows'
    <2> SUFFICES ASSUME HasFlock, Len(damages') <= 1, Done' \subseteq Interior, ChainOK(lines')
                 PROVE  WrittenKept'
      BY DEF DamageShows
    <2>1. CASE Damage
      <3>1. PICK kind \in Interior : lines' \in Damaged(kind)
        BY <1>2, <2>1, DamageHistory
      <3>2. damages = <<>>
        BY <1>2, <2>1, DamageHistory DEF AnchorInv, AnchorTypeOK
      <3>3. lines' = lines
        BY <1>2, <3>1, <3>2, InteriorShows
      <3>4. UNCHANGED <<open, pc, entry, acked>>
        <4>1. UNCHANGED <<pc, entry, acked>>
          BY <2>1 DEF Damage
        <4>2. open' = (open /\ lines' # <<>> /\ lines'[Len(lines')] = lines[Len(lines)])
          BY <2>1 DEF Damage
        <4>3. (open /\ lines' # <<>> /\ lines'[Len(lines')] = lines[Len(lines)]) = open
          BY <1>2, <3>3, Zenon DEF AnchorInv, AnchorTypeOK, TypeOK, InFlight
        <4> QED BY <4>1, <4>2, <4>3, Zenon
      <3>5. WrittenKept
        BY <1>2, <3>2 DEF Undamaged
      <3> QED BY <3>3, <3>4, <3>5 DEF WrittenKept, Kept
    <2>2. CASE ~Damage
      <3>1. ChainOK(lines) /\ damages' = damages /\ (WrittenKept => WrittenKept')
        BY <1>2, <2>2, CalmStep
      <3>2. WrittenKept
        BY <1>2, <3>1 DEF DamageShows, Done
      <3> QED BY <3>1, <3>2
    <2> QED BY <2>1, <2>2
  <1>3. AnchorInv /\ Undamaged /\ DamageShows /\ [Next]_vars => DamageShows'
    BY <1>2
  <1> QED BY <1>1, <1>3, AnchorInvariant, UndamagedInvariant, PTL DEF AnchorSpec

(* One edit, garbled line, dropped line or exchange of lines inside a locked *)
(* log is found by a plain verify, or nothing was lost by it.                *)
THEOREM OneDamageShows == AnchorSpec => []InteriorDamageShows
  <1>1. ASSUME DamageShows, HasFlock, Len(damages) <= 1, Done \subseteq Interior
        PROVE  NoSilentLoss
    BY <1>1, KeptIsLogged DEF DamageShows, NoSilentLoss
  <1>2. DamageShows => InteriorDamageShows
    BY <1>1 DEF InteriorDamageShows
  <1> QED BY <1>2, DamageShowsInvariant, PTL

-----------------------------------------------------------------------------
(* What an anchor proves *)

LEMMA WorthyInvariant == AnchorSpec => []WorthyWitnesses
  <1>1. AnchorInit => WorthyWitnesses
    BY NothingType DEF AnchorInit, WorthyWitnesses, WorthyWitness
  <1>2. ASSUME AnchorInv, Undamaged, WorthyWitnesses, [Next]_vars
        PROVE  WorthyWitnesses'
    <2> USE DEF AnchorInv, AnchorTypeOK, WorthyWitness
    <2> SUFFICES ASSUME HasFlock, tears' = 0, Len(damages') <= 1
                 PROVE  /\ \A a \in Anchorer : WorthyWitness(aread[a])'
                        /\ \A c \in Commit : WorthyWitness(witness[c])'
      BY DEF WorthyWitnesses
    <2>1. ASSUME Len(damages) <= 1, tears = 0
          PROVE  /\ \A a \in Anchorer : WorthyWitness(aread[a])
                 /\ \A c \in Commit : WorthyWitness(witness[c])
      BY <1>2, <2>1 DEF WorthyWitnesses
    <2>2. CASE Damage
      <3>1. damages = <<>> /\ Len(damages) = 0 /\ UNCHANGED <<tears, aread, witness>>
        <4>1. UNCHANGED <<tears, aread, witness>>
          BY <2>2 DEF Damage
        <4> QED BY <1>2, <2>2, <4>1, DamageHistory
      <3>2. ChainOK(lines)
        <4>1. LockedChain /\ \A i \in 1..Len(lines) : lines[i] # Corrupt
          BY <1>2, <3>1 DEF Undamaged
        <4>2. Len(lines) \in Nat
          BY <1>2 DEF TypeOK
        <4> QED BY <4>1, <4>2 DEF LockedChain, ChainOK
      <3> QED BY <2>1, <3>1, <3>2
    <2>3. CASE ~Damage
      <3>1. /\ \A a \in Anchorer : WorthyWitness(aread[a])
            /\ \A c \in Commit : WorthyWitness(witness[c])
            /\ ~ChainOK(lines) => ~ChainOK(lines')
        BY <1>2, <2>1, <2>3, CalmStep
      <3>2. CASE UNCHANGED <<aread, witness>>
        BY <3>1, <3>2
      <3>3. ASSUME NEW a \in Anchorer, AnchorRead(a)
            PROVE  /\ \A b \in Anchorer : WorthyWitness(aread[b])'
                   /\ \A c \in Commit : WorthyWitness(witness[c])'
        <4>1. UNCHANGED lines /\ witness' = witness
          BY <3>3 DEF AnchorRead, memVars
        <4>2. aread'[a].sound = ChainOK(lines') /\ \A b \in Anchorer : b # a => aread'[b] = aread[b]
          BY <1>2, <3>3, <4>1 DEF AnchorRead
        <4>3. aread'[a].sound \/ ~ChainOK(lines')
          BY <4>2
        <4> QED BY <3>1, <4>1, <4>2, <4>3
      <3>4. ASSUME NEW a \in Anchorer, AnchorNote(a)
            PROVE  /\ \A b \in Anchorer : WorthyWitness(aread[b])'
                   /\ \A c \in Commit : WorthyWitness(witness[c])'
        <4>1. /\ witness' = [witness EXCEPT ![asha[a]] = aread[a]]
              /\ aread' = [aread EXCEPT ![a] = Nothing]
          BY <3>4 DEF AnchorNote
        <4> QED BY <1>2, <3>1, <4>1, NothingType
      <3>5. ASSUME NEW a \in Anchorer, AnchorFail(a)
            PROVE  /\ \A b \in Anchorer : WorthyWitness(aread[b])'
                   /\ \A c \in Commit : WorthyWitness(witness[c])'
        <4>1. aread' = [aread EXCEPT ![a] = Nothing] /\ witness' = witness
          BY <3>5 DEF AnchorFail
        <4> QED BY <1>2, <3>1, <4>1, NothingType
      <3> QED BY <1>2, <2>3, <3>2, <3>3, <3>4, <3>5
              DEF Next, MemoryStep, Anchoring, AnchorRevParse, MakeCommit, vars, gitVars
    <2> QED BY <2>2, <2>3
  <1>3. AnchorInv /\ Undamaged /\ WorthyWitnesses /\ [Next]_vars => WorthyWitnesses'
    BY <1>2
  <1> QED BY <1>1, <1>3, AnchorInvariant, UndamagedInvariant, PTL DEF AnchorSpec

(* The docstring's guarantee, where appends take turns, no write was cut short *)
(* and one damage was done: what `verify --anchor` accepts was not rewritten.  *)
(* (With a cut write it fails: an anchor of a torn log is no proof.)           *)
THEOREM UntornAnchorIsProof == AnchorSpec => []UntornAnchorProves
  <1>1. ASSUME AnchorInv, WorthyWitnesses, HasFlock, tears = 0, Len(damages) <= 1,
               AnchorVerifies
        PROVE  AnchoredEventsLogged
    <2>1. commit \in Commit
      BY <1>1, AnchorAssumption
         DEF AnchorInv, AnchorTypeOK, AnchorVerifies, Anchored, Commit, AnchorAssumption
    <2>2. witness[commit].sound \/ witness[commit].events = {}
      BY <1>1, <2>1 DEF WorthyWitnesses, WorthyWitness, AnchorVerifies
    <2>3. CASE witness[commit].sound
      BY <1>1, <2>3, AnchorVouches
    <2>4. CASE witness[commit].events = {}
      BY <2>4 DEF AnchoredEventsLogged
    <2> QED BY <2>2, <2>3, <2>4
  <1>2. AnchorInv /\ WorthyWitnesses => UntornAnchorProves
    BY <1>1 DEF UntornAnchorProves, AnchorProvesHistory
  <1> QED BY <1>2, AnchorInvariant, WorthyInvariant, PTL

(* One anchor fits one log: any change of the file, an append too, makes *)
(* `verify --anchor` fail.                                               *)
THEOREM OneLogPerAnchor == AnchorSpec => AnchorIsExact
  <1>1. ASSUME AnchorInv, AnchorInv', [Next]_vars, AnchorVerifies, AnchorVerifies'
        PROVE  lines' = lines
    <2>1. CASE UNCHANGED lines
      BY <2>1
    <2>2. CASE MemoryStep \/ Damage
      <3>1. UNCHANGED <<commit, notes>>
        BY <2>2 DEF MemoryStep, Damage
      <3>2. ChainOK(lines) /\ ChainOK(lines') /\ HeadHash(lines) = HeadHash(lines')
        BY <1>1, <3>1 DEF AnchorVerifies
      <3>3. lines \in Seq(Line) /\ lines' \in Seq(Line)
        BY <1>1 DEF AnchorInv, AnchorTypeOK, TypeOK, Line
      <3>4. Len(lines) = Len(lines') /\ \A i \in 1..Len(lines) : lines[i] = lines'[i]
        BY <3>2, <3>3, HeadDetermines
      <3> QED BY <3>3, <3>4
    <2> QED BY <1>1, <2>1, <2>2, OtherSteps DEF memVars
  <1>2. AnchorInv /\ AnchorInv' /\ [Next]_vars
           => [AnchorVerifies /\ lines' # lines => ~AnchorVerifies']_vars
    BY <1>1
  <1> QED BY <1>2, AnchorInvariant, PTL DEF AnchorSpec, AnchorIsExact

=============================================================================
