------------------------------ MODULE RoundRobin ------------------------------
(***************************************************************************)
(* The position of a round robin over the elements 1 .. n of an array: the *)
(* vocabulary of the invariants of both connection tables, PeerConnTable   *)
(* and AdapterConnTable.                                                   *)
(***************************************************************************)
EXTENDS Integers

\* How many rounds ago the round robin over n elements, now at element p, was
\* at element i.
Ago(i, p, n) == IF i <= p THEN p - i ELSE p - i + n

\* The elements used once more than the others are the last ones picked.
Even(use, f, p, n) ==
  \E j \in 0 .. n - 1 : \A i \in 1 .. n : use[f[i]] = IF Ago(i, p, n) < j THEN 1 ELSE 0
=============================================================================
