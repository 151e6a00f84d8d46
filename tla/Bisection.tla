----------------------------- MODULE Bisection -----------------------------
(***************************************************************************)
(* What the two binary searches of indexer.lua share.  A table of verdicts *)
(* says, entry by entry of an index, whether the entry is below a word:    *)
(* b[k] for k in 1 .. n.                                                   *)
(***************************************************************************)
EXTENDS Integers

(* Variants with a mistake one could make stand before the definition they *)
(* are a variant of; the README says which property notices which.         *)
MidRoundsLow(sz, lo) == (sz - 1) \div 2 + lo

(* The probed record: the upper middle, so that n2 - n1 = 1 has none.      *)
Mid(sz, lo) ==
  IF sz % 2 = 0 THEN sz \div 2 + lo ELSE (sz + 1) \div 2 + lo

(* Entry k ends the entries below the word: k is below it and k + 1 is     *)
(* not.  Entry 1 need not be below, the last entry has no successor.       *)
IsBoundary(n, b, k) ==
  /\ k \in 1 .. n
  /\ k = 1 \/ b[k]
  /\ k = n \/ ~ b[k + 1]

(* The verdicts an index in suffix order gives: the entries below the word *)
(* come first.                                                             *)
BelowFirst(n, b) == \A i, j \in 1 .. n : i < j /\ b[j] => b[i]
=============================================================================
