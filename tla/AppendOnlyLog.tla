---------------------------- MODULE AppendOnlyLog ----------------------------
(***************************************************************************)
(* What the hash-chained memory promises a reader who runs `verify`: a log *)
(* that only grows, and a tamper light that, once on, stays on.            *)
(*                                                                         *)
(* log    - the payloads a reader can trust, in order                      *)
(* final  - how many of them can never be taken back.  The last entry is   *)
(*          not final when the write that added it was cut short           *)
(* broken - `verify` reports a break                                       *)
(***************************************************************************)
EXTENDS Naturals, Sequences

CONSTANT Payload

VARIABLES log, final, broken

logVars == <<log, final, broken>>

Init == log = <<>> /\ final = 0 /\ broken = FALSE

(* An entry is added behind the others.  Only an entry that closes its line *)
(* is final, and nothing is added behind an entry that is not.              *)
Extend(d) ==
    /\ ~broken
    /\ final = Len(log)
    /\ log' = Append(log, d)
    /\ final' \in {final, final + 1}
    /\ UNCHANGED broken

(* A bad line follows: the reader keeps exactly the final entries. *)
Break ==
    /\ ~broken
    /\ broken' = TRUE
    /\ log' = SubSeq(log, 1, final)
    /\ UNCHANGED final

Next == Break \/ \E d \in Payload : Extend(d)

Spec == Init /\ [][Next]_logVars
=============================================================================
