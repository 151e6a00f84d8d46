------------------------------ MODULE Boundary ------------------------------
(***************************************************************************)
(* What a caller of indexer.lua's lower_bound is promised, with no word    *)
(* about how the answer is found: an entry where the verdicts change from  *)
(* "below" to "not below".  Nothing asks the table to be sorted: an index  *)
(* file read beside another text than its own gives any table.             *)
(***************************************************************************)
EXTENDS Bisection

CONSTANT MaxEntries     \* bound on the entries of an index file

VARIABLES
  entries,      \* number of entries of the table
  below,        \* below[i]: entry i is below the word
  answer        \* 0 until the search answers

boundaryVars == <<entries, below, answer>>

BoundaryInit ==
  /\ entries \in 0 .. MaxEntries
  /\ below \in [1 .. entries -> BOOLEAN]
  /\ answer = 0

(* One answer, never revised; tables of fewer than two entries get none.   *)
Answer ==
  /\ answer = 0
  /\ entries >= 2
  /\ \E k \in 1 .. entries : IsBoundary(entries, below, k) /\ answer' = k
  /\ UNCHANGED <<entries, below>>

BoundarySpec == BoundaryInit /\ [][Answer]_boundaryVars
=============================================================================
