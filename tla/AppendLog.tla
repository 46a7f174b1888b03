------------------------------ MODULE AppendLog ------------------------------
(***************************************************************************)
(* What the metrics branch promises its writers and readers: one log, to   *)
(* which records are added one at a time, at its end, and from which       *)
(* nothing is ever taken away or rewritten.                                *)
(***************************************************************************)
EXTENDS Sequences

CONSTANT Record

VARIABLE log

Init == log = <<>>

Write(r) == log' = Append(log, r)

Next == \E r \in Record : Write(r)

Spec == Init /\ [][Next]_log
=============================================================================
