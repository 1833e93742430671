------------------------------- MODULE MemoryLog -------------------------------
(***************************************************************************)
(* scripts/memory_log.py: `append` and `verify` on                         *)
(* .substrate/memory/events.jsonl, run by any number of hooks at once.     *)
(*                                                                         *)
(* A digest is represented by what it digests: the chain of (seq, payload) *)
(* pairs up to its event.  This is SHA-256 without collisions, and ZERO    *)
(* (64 zeros) is the digest of nothing.  A payload stands for the          *)
(* timestamp, the type and the redacted data.                              *)
(***************************************************************************)
EXTENDS Naturals, Sequences

CONSTANTS
    Proc,      \* processes that run `memory_log.py append` or import it
    NoProc,    \* the lock's holder when nobody holds it
    Payload,   \* what an event records
    Corrupt,   \* a line that is not JSON ({"_corrupt": line} once read)
    HasFlock,  \* FALSE: no fcntl, or a file system that refuses flock
    MaxLines,  \* bound: no append starts on a log of this many lines
    MaxTears   \* bound on the writes cut short

Digest == Seq(Nat \X Payload)
Event == [seq : Nat, prev : Digest, data : Payload, hash : Digest]

ASSUME MemoryAssumption ==
    /\ NoProc \notin Proc
    /\ Corrupt \notin Event
    /\ HasFlock \in BOOLEAN
    /\ MaxLines \in Nat /\ MaxTears \in Nat

VARIABLES
    lines,   \* the non-blank lines of events.jsonl
    open,    \* the last line has no newline yet
    holder,  \* who holds the flock on .substrate/memory/.lock
    pc,      \* where each process is in append()
    entry,   \* the event a process has built and not yet returned from
    acked,   \* history: events whose append returned 0
    tears    \* how many writes were cut short

memVars == <<lines, open, holder, pc, entry, acked, tears>>

-----------------------------------------------------------------------------
(* The chain *)

ZERO == <<>>
EventHash(prev, seq, data) == Append(prev, <<seq, data>>)

(* event.get("hash", ZERO): an unparsable line has no hash *)
HashOf(line) == IF line = Corrupt THEN ZERO ELSE line.hash
HashBefore(ls, i) == IF i = 1 THEN ZERO ELSE HashOf(ls[i - 1])
HeadHash(ls) == HashBefore(ls, Len(ls) + 1)

\* Faulty variant for mutation runs: unparsable lines are skipped.
LineOK_SkipsCorrupt(ls, i) ==
    \/ ls[i] = Corrupt
    \/ /\ ls[i].prev = HashBefore(ls, i)
       /\ ls[i].hash = EventHash(ls[i].prev, ls[i].seq, ls[i].data)

(* verify()'s checks of one line, given the line before it *)
LineOK(ls, i) ==
    /\ ls[i] # Corrupt
    /\ ls[i].seq = i - 1
    /\ ls[i].prev = HashBefore(ls, i)
    /\ ls[i].hash = EventHash(ls[i].prev, ls[i].seq, ls[i].data)

\* Faulty variant: only the newest line is checked.
ChainOK_HeadOnly(ls) == ls = <<>> \/ LineOK(ls, Len(ls))

(* verify() exits 0 *)
ChainOK(ls) == \A i \in 1..Len(ls) : LineOK(ls, i)

\* Faulty variant: the sequence number is the last line's index.
NewEvent_LastIndex(ls, d) ==
    [seq  |-> Len(ls) - 1, prev |-> HeadHash(ls), data |-> d,
     hash |-> EventHash(HeadHash(ls), Len(ls) - 1, d)]

(* The event append() builds from the lines it has read: seq counts every *)
(* line, parsable or not, and prev falls back to ZERO.                    *)
NewEvent(ls, d) ==
    [seq  |-> Len(ls), prev |-> HeadHash(ls), data |-> d,
     hash |-> EventHash(HeadHash(ls), Len(ls), d)]

-----------------------------------------------------------------------------
(* The file *)

\* Faulty variant: the log is opened for writing, not for appending.
AddText_Truncates(text, closed) == lines' = <<text>> /\ open' = ~closed

(* Bytes that begin a line reach the end of the file, with their newline or *)
(* not.  Behind a line that has none they lengthen that line, and two JSON  *)
(* objects, whole or cut, side by side are never one JSON value.            *)
AddText(text, closed) ==
    /\ lines' = IF open THEN [lines EXCEPT ![Len(lines)] = Corrupt]
                        ELSE Append(lines, text)
    /\ open' = ~closed

-----------------------------------------------------------------------------
(* append() *)

Init ==
    /\ lines = <<>> /\ open = FALSE
    /\ holder = NoProc
    /\ pc = [p \in Proc |-> "idle"]
    /\ entry = [p \in Proc |-> Corrupt]   \* nothing built yet
    /\ acked = {}
    /\ tears = 0

Goto(p, label) == pc' = [pc EXCEPT ![p] = label]
Release(p) == holder' = IF holder = p THEN NoProc ELSE holder
Forget(p) == entry' = [entry EXCEPT ![p] = Corrupt]

(* The call begins: the directory exists and .lock is open. *)
Start(p) ==
    /\ pc[p] = "idle"
    /\ Len(lines) < MaxLines
    /\ Goto(p, "lock")
    /\ UNCHANGED <<lines, open, holder, entry, acked, tears>>

\* Faulty variant: a lock that is taken does not make the caller wait.
AcquireFlock_NonBlocking(p) ==
    /\ pc[p] = "lock" /\ HasFlock
    /\ holder' = p
    /\ Goto(p, "read")
    /\ UNCHANGED <<lines, open, entry, acked, tears>>

(* flock(LOCK_EX) waits for the lock. *)
AcquireFlock(p) ==
    /\ pc[p] = "lock" /\ HasFlock
    /\ holder = NoProc
    /\ holder' = p
    /\ Goto(p, "read")
    /\ UNCHANGED <<lines, open, entry, acked, tears>>

(* Without fcntl, or when flock raises (suppressed), append goes on unlocked. *)
SkipFlock(p) ==
    /\ pc[p] = "lock" /\ ~HasFlock
    /\ Goto(p, "read")
    /\ UNCHANGED <<lines, open, holder, entry, acked, tears>>

(* _read_events and the event built from them *)
Read(p) ==
    /\ pc[p] = "read"
    /\ \E d \in Payload : entry' = [entry EXCEPT ![p] = NewEvent(lines, d)]
    /\ Goto(p, "write")
    /\ UNCHANGED <<lines, open, holder, acked, tears>>

(* The whole line reaches the file. *)
Write(p) ==
    /\ pc[p] = "write"
    /\ AddText(entry[p], TRUE)
    /\ Goto(p, "return")
    /\ UNCHANGED <<holder, entry, acked, tears>>

(* Unlock and return 0 *)
Return(p) ==
    /\ pc[p] = "return"
    /\ acked' = acked \cup {entry[p]}
    /\ Release(p) /\ Forget(p) /\ Goto(p, "idle")
    /\ UNCHANGED <<lines, open, tears>>

\* Faulty variant: a call that dies keeps the lock (a lock file, not a flock).
Fail_KeepsLock(p) ==
    /\ pc[p] # "idle"
    /\ Forget(p) /\ Goto(p, "idle")
    /\ UNCHANGED <<holder, lines, open, acked, tears>>

(* An exception (return 1) or a kill: closing .lock drops the flock. *)
Fail(p) ==
    /\ pc[p] # "idle"
    /\ Release(p) /\ Forget(p) /\ Goto(p, "idle")
    /\ UNCHANGED <<lines, open, acked, tears>>

(* The write is cut short (disk full, kill, power loss), either inside the *)
(* JSON text or before the newline alone, and the call ends without 0.     *)
Tear(p) ==
    /\ pc[p] = "write"
    /\ tears < MaxTears
    /\ tears' = tears + 1
    /\ \E text \in {Corrupt, entry[p]} : AddText(text, FALSE)
    /\ Release(p) /\ Forget(p) /\ Goto(p, "idle")
    /\ UNCHANGED acked

Appender(p) ==
    \/ AcquireFlock(p) \/ SkipFlock(p) \/ Read(p) \/ Write(p) \/ Return(p)

MemNext == \E p \in Proc : Start(p) \/ Appender(p) \/ Fail(p) \/ Tear(p)

Spec == Init /\ [][MemNext]_memVars

(* Nobody is obliged to start an append, and nothing obliges one to fail.  *)
(* A process that runs keeps running, and flock serves its waiters in turn. *)
FairSpec ==
    /\ Spec
    /\ \A p \in Proc : WF_memVars(Appender(p)) /\ SF_memVars(AcquireFlock(p))

-----------------------------------------------------------------------------
(* Properties *)

(* Every variable has its type; in particular a sequence number is never *)
(* negative and an event in flight is well formed.                       *)
TypeOK ==
    /\ lines \in Seq(Event \cup {Corrupt})
    /\ open \in BOOLEAN
    /\ holder \in Proc \cup {NoProc}
    /\ pc \in [Proc -> {"idle", "lock", "read", "write", "return"}]
    /\ entry \in [Proc -> Event \cup {Corrupt}]
    /\ acked \subseteq Event
    /\ tears \in Nat

Logged(e) == \E i \in 1..Len(lines) : lines[i] = e

(* No acknowledged event is lost behind a verify that exits 0, with the lock *)
(* or without it, whatever writes were cut short.                            *)
NoSilentLoss == ChainOK(lines) => \A e \in acked : Logged(e)

(* With flock, concurrent appends and killed ones never break the chain:   *)
(* up to the first line cut short (or glued to one), every line verifies.  *)
LockedChain ==
    HasFlock => \A i \in 1..Len(lines) :
        (\A j \in 1..i : lines[j] # Corrupt) => LineOK(lines, i)

(* An append never repairs a broken log: it cannot hide an earlier break. *)
BrokenStaysBroken == [][~ChainOK(lines) => ~ChainOK(lines)']_memVars

(* An acknowledged event that can be read back stays where it is, also *)
(* when later appends go wrong.                                        *)
AckedStays ==
    [][\A e \in acked, i \in 1..Len(lines) :
          lines[i] = e /\ (open => i < Len(lines))
             => i \in 1..Len(lines') /\ lines'[i] = e]_memVars

(* Every append that started ends: no waiter is left behind by a holder *)
(* that was killed, and no waiter is passed over for ever.              *)
AppendsEnd == \A p \in Proc : pc[p] # "idle" ~> pc[p] = "idle"

-----------------------------------------------------------------------------
(* The inductive invariants behind the safety properties *)

(* A call that has built its event holds one, and the open line exists. *)
InFlight ==
    /\ \A p \in Proc : pc[p] \in {"write", "return"} => entry[p] \in Event
    /\ open => lines # <<>>

(* e is on a closed line, or the log shows a line that is not JSON. *)
Kept(e) == \E i \in 1..Len(lines) :
    \/ lines[i] = Corrupt
    \/ lines[i] = e /\ (open => i < Len(lines))

(* An event is kept from the moment its write is complete. *)
WrittenKept ==
    /\ \A e \in acked : Kept(e)
    /\ \A p \in Proc : pc[p] = "return" => Kept(entry[p])

(* Only the holder of the lock is past it, so what it read is still true. *)
Exclusive ==
    HasFlock => \A p \in Proc :
        /\ pc[p] \in {"read", "write", "return"} => holder = p
        /\ pc[p] = "write" => entry[p] = NewEvent(lines, entry[p].data)

(* The lock is never left behind: it is free or held by a call that goes on. *)
HolderRuns ==
    holder # NoProc => /\ HasFlock /\ holder \in Proc
                       /\ pc[holder] \in {"read", "write", "return"}

-----------------------------------------------------------------------------
(* What a reader of the file may trust: the longest prefix that verifies *)

Trusted(ls) == CHOOSE n \in 0..Len(ls) :
    /\ \A i \in 1..n : LineOK(ls, i)
    /\ n < Len(ls) => ~LineOK(ls, n + 1)

Abstract == INSTANCE AppendOnlyLog WITH
    log    <- [i \in 1..Trusted(lines) |-> lines[i].data],
    final  <- IF open /\ Trusted(lines) = Len(lines) THEN Trusted(lines) - 1
              ELSE Trusted(lines),
    broken <- ~ChainOK(lines)

(* The file implements the append-only log: entries only get added, a break *)
(* is permanent, and it takes back at most the one entry that was not final. *)
ImplementsAppendOnlyLog == Abstract!Spec
=============================================================================
