------------------------------ MODULE AuditLog ------------------------------
(***************************************************************************)
(* What the hash-chained audit promises its readers, stated without hashes, *)
(* locks, bytes or processes: a log of lines that only grows at its end,    *)
(* and an optional anchor that vouches for a prefix of it.  AuditChain is   *)
(* shown to implement this specification.                                   *)
(***************************************************************************)
EXTENDS Integers, Sequences

CONSTANT Line         \* what one line of the log may hold

VARIABLES log,        \* the lines of the log, oldest first
          anchor      \* number of lines the anchor vouches for, 0 for no anchor

vars == <<log, anchor>>

Init == log = <<>> /\ anchor = 0

\* One more line at the end; the lines before it stay what they were.
Extend == /\ log' \in Seq(Line)
          /\ Len(log') = Len(log) + 1
          /\ \A i \in 1 .. Len(log) : log'[i] = log[i]
          /\ UNCHANGED anchor

\* The anchor is renewed for the log as it stands.
Renew == anchor' = Len(log) /\ UNCHANGED log

\* The anchor is lost (the anchor file is empty or cut short).
Lose == anchor' = 0 /\ UNCHANGED log

Next == Extend \/ Renew \/ Lose

Spec == Init /\ [][Next]_vars
=============================================================================
