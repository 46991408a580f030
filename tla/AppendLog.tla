------------------------------ MODULE AppendLog ------------------------------
(***************************************************************************)
(* What the log of an exec promises to those who follow it: records are    *)
(* only ever added at its end, and a client that follows it, through any   *)
(* number of connections, has at each moment received a beginning of it:   *)
(* no record twice, none skipped, none out of order, none that was never   *)
(* written.                                                                *)
(***************************************************************************)
EXTENDS Naturals, Sequences

CONSTANT Records
VARIABLES
  entries,   \* the records of the log
  got        \* the records the client has received

Init == entries = <<>> /\ got = <<>>

Add(r) ==
  /\ entries' = Append(entries, r)
  /\ UNCHANGED got

Deliver(n) ==
  /\ got' = SubSeq(entries, 1, n)
  /\ UNCHANGED entries

Next ==
  \/ \E r \in Records : Add(r)
  \/ \E n \in Len(got) .. Len(entries) : Deliver(n)

Spec == Init /\ [][Next]_<<entries, got>>
==============================================================================
