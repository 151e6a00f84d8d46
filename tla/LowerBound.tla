----------------------------- MODULE LowerBound -----------------------------
(***************************************************************************)
(* indexer.lua, lower_bound: the binary search of an index file on disk    *)
(* for the entries below a word.  One step is one turn of the loop.  The   *)
(* text an entry points to is abstracted to what the loop makes of it:     *)
(* below[m] = (str:lower () < word:lower ()), or m \in pastEnd when the    *)
(* text beside the index is too short to have that position, the read      *)
(* gives nil and str:lower () raises.                                      *)
(***************************************************************************)
EXTENDS Bisection

CONSTANT MaxEntries     \* bound on the records of an index file

ASSUME MaxEntriesAssumption == MaxEntries \in Nat

VARIABLES
  entries,      \* the argument size: records of the index file
  below,        \* the verdict on each record
  pastEnd,      \* the records whose position the text does not have
  n1, n2,       \* the bracket, 1-based, n2 exclusive
  size,         \* the local size, re-assigned by every turn
  pc            \* "loop", "done" (n1 is returned), "failed" (an assert)
                \* or "raised" (a nil text)

vars == <<entries, below, pastEnd, n1, n2, size, pc>>

Init ==
  /\ entries \in 0 .. MaxEntries
  /\ below \in [1 .. entries -> BOOLEAN]
  /\ pastEnd \in SUBSET (1 .. entries)
  /\ n1 = 1
  /\ n2 = entries + 1
  /\ size = entries
  /\ pc = "loop"

(* The three assertions at the head of a turn.                             *)
AssertsHold ==
  /\ n1 < n2
  /\ n1 <= Mid(size, n1)
  /\ n2 > Mid(size, n1)

(* The assertions hold and the probed record has a text.                   *)
Probes == pc = "loop" /\ AssertsHold /\ Mid(size, n1) \notin pastEnd

(* What every turn does once it knows the new bounds.                      *)
EndOfTurn(lo, hi) ==
  /\ n1' = lo
  /\ n2' = hi
  /\ size' = hi - lo
  /\ pc' = IF lo = hi - 1 THEN "done" ELSE "loop"
  /\ UNCHANGED <<entries, below, pastEnd>>

TurnUp ==
  /\ Probes
  /\ below[Mid(size, n1)]
  /\ EndOfTurn(Mid(size, n1), n2)

TurnDownPastMid ==
  /\ Probes
  /\ ~ below[Mid(size, n1)]
  /\ EndOfTurn(n1, Mid(size, n1) - 1)

TurnDown ==
  /\ Probes
  /\ ~ below[Mid(size, n1)]
  /\ EndOfTurn(n1, Mid(size, n1))

AssertFails ==
  /\ pc = "loop" /\ ~ AssertsHold
  /\ pc' = "failed"
  /\ UNCHANGED <<entries, below, pastEnd, n1, n2, size>>

ProbePastEnd ==
  /\ pc = "loop" /\ AssertsHold
  /\ Mid(size, n1) \in pastEnd
  /\ pc' = "raised"
  /\ UNCHANGED <<entries, below, pastEnd, n1, n2, size>>

Next == TurnUp \/ TurnDown \/ AssertFails \/ ProbePastEnd

(* Nothing blocks the loop: the script runs on until the call returns.     *)
Fairness == WF_vars(Next)

Spec == Init /\ [][Next]_vars /\ Fairness
-----------------------------------------------------------------------------
TypeOK ==
  /\ entries \in 0 .. MaxEntries
  /\ below \in [1 .. entries -> BOOLEAN]
  /\ pastEnd \in SUBSET (1 .. entries)
  /\ n1 \in 1 .. entries + 1
  /\ n2 \in 1 .. entries + 1
  /\ size \in 0 .. entries
  /\ pc \in {"loop", "done", "failed", "raised"}

B == INSTANCE Boundary WITH answer <- IF pc = "done" THEN n1 ELSE 0

(* The loop keeps a boundary between n1 and n2, whatever the table says:   *)
(* the record at n1 was found below (or is the first, never compared), the *)
(* record at n2 was found not below (or lies past the end).                *)
Bracketed ==
  /\ n1 = 1 \/ below[n1]
  /\ n2 = entries + 1 \/ ~ below[n2]

(* The inductive invariant: the bracket, the local size equal to its       *)
(* width, and at least two records left whenever another turn starts, so   *)
(* that the probe falls strictly between the bounds.                       *)
IInv ==
  /\ TypeOK
  /\ Bracketed
  /\ size = n2 - n1
  /\ pc = "loop" /\ entries >= 2 => size >= 2
  /\ pc = "done" => entries >= 2 /\ size = 1
  /\ pc = "failed" => entries < 2

(* The three assertions of lower_bound hold in every turn over an index of *)
(* two records or more, whatever the text beside the index is.             *)
NoAssertFails == entries >= 2 => pc # "failed"

(* Over an index in suffix order, the number returned is the number of     *)
(* records below the word, except that it is 1 when no record is: record 1 *)
(* is never compared.  search_range uses it as the 0-based position of the *)
(* first record that is not below.                                         *)
ReturnsRank ==
  pc = "done" /\ BelowFirst(entries, below) =>
    /\ \A i \in 1 .. entries : i > n1 => ~ below[i]
    /\ \A i \in 1 .. entries : i < n1 => below[i]
    /\ (\E i \in 1 .. entries : below[i]) => below[n1]

(* Every turn at least halves the bracket (rounding up), so a search costs *)
(* a logarithmic number of seeks in the file.                              *)
Halves ==
  [][2 * (n2' - n1') <= n2 - n1 + 1]_<<n1, n2>>

(* lower_bound gives the answer Boundary promises, once, and only that.    *)
ImplementsBoundary == B!BoundarySpec

(* Every call ends, and by returning when the index has two records or     *)
(* more and belongs to the text.                                           *)
Terminates ==
  /\ <>(pc # "loop")
  /\ entries >= 2 /\ pastEnd = {} => <>(pc = "done")
=============================================================================
