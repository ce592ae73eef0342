------------------------------- MODULE MCCopy -------------------------------
(* HmcudaCopy on page tables of every shape: all adjacent, none adjacent,   *)
(* descending, adjacent in pairs, descending and then a run.                 *)
EXTENDS HmcudaCopy

Tables == {
  [p \in 0..8 |-> p],
  [p \in 0..8 |-> 2 * p],
  [p \in 0..8 |-> 8 - p],
  [p \in 0..8 |-> 4 * (p \div 2) + (p % 2)],
  [p \in 0..8 |-> IF p < 3 THEN 10 - 3 * p ELSE 20 + p] }
==============================================================================
