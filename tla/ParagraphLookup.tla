-------------------------- MODULE ParagraphLookup --------------------------
(***************************************************************************)
(* indexer.lua, lower_bound_paragraph: the binary search of the paragraph  *)
(* index for the paragraph a position lies in.  One step is one turn of    *)
(* the loop; the records are the positions get_str_pos reads.              *)
(***************************************************************************)
EXTENDS Bisection, Sequences

CONSTANTS
  MaxRecords,   \* bound on the records of a paragraph index
  MaxPos        \* bound on the positions in a paragraph index

Positions == 0 .. MaxPos

VARIABLES
  records,      \* the paragraph index
  pos,          \* the position looked up
  n1, n2,       \* the bracket, 1-based, n2 exclusive
  size,         \* the local size
  result,       \* the position returned
  pc            \* "loop", "done" or "failed" (an assertion)

vars == <<records, pos, n1, n2, size, result, pc>>

Init ==
  /\ records \in UNION {[1 .. n -> Positions] : n \in 0 .. MaxRecords}
  /\ pos \in Positions
  /\ n1 = 1
  /\ n2 = Len(records) + 1
  /\ size = Len(records)
  /\ result = 0
  /\ pc = "loop"

(* The record of this turn.                                                *)
Probe == Mid(size, n1)

AssertsHold == n1 < n2 /\ n1 <= Probe /\ n2 > Probe

Continue(lo, hi) ==
  /\ n1' = lo /\ n2' = hi /\ size' = hi - lo
  /\ UNCHANGED <<records, pos, result, pc>>

LeaveAtUpper(lo, hi) ==
  /\ n1' = lo /\ n2' = hi /\ size' = hi - lo
  /\ result' = records[IF hi <= Len(records) THEN hi ELSE lo]
  /\ pc' = "done"
  /\ UNCHANGED <<records, pos>>

(* mpos is read again at n1 when the bracket holds one record.             *)
Leave(lo, hi) ==
  /\ n1' = lo /\ n2' = hi /\ size' = hi - lo
  /\ result' = records[lo]
  /\ pc' = "done"
  /\ UNCHANGED <<records, pos>>

EndOfTurn(lo, hi) ==
  \/ lo = hi - 1 /\ Leave(lo, hi)
  \/ lo # hi - 1 /\ Continue(lo, hi)

Found ==
  /\ pc = "loop" /\ AssertsHold
  /\ records[Probe] = pos
  /\ result' = pos
  /\ pc' = "done"
  /\ UNCHANGED <<records, pos, n1, n2, size>>

TurnUp ==
  /\ pc = "loop" /\ AssertsHold
  /\ records[Probe] < pos
  /\ EndOfTurn(Probe, n2)

TurnDown ==
  /\ pc = "loop" /\ AssertsHold
  /\ records[Probe] > pos
  /\ EndOfTurn(n1, Probe)

AssertFails ==
  /\ pc = "loop" /\ ~ AssertsHold
  /\ pc' = "failed"
  /\ UNCHANGED <<records, pos, n1, n2, size, result>>

Next == Found \/ TurnUp \/ TurnDown \/ AssertFails

(* Nothing blocks the loop: the script runs on until the call returns.     *)
Spec == Init /\ [][Next]_vars /\ WF_vars(Next)
-----------------------------------------------------------------------------
TypeOK ==
  /\ records \in Seq(Positions)
  /\ pos \in Positions
  /\ n1 \in 1 .. Len(records) + 1
  /\ n2 \in 1 .. Len(records) + 1
  /\ size \in 0 .. Len(records)
  /\ result \in Positions
  /\ pc \in {"loop", "done", "failed"}

(* The paragraph index mkindex writes, after table.sort.                   *)
Ascending ==
  \A k, l \in 1 .. Len(records) : k < l => records[k] <= records[l]

(* The record at n1 was found before pos (or is the first, never read in   *)
(* the loop), the record at n2 was found after it (or does not exist).     *)
Bracketed ==
  /\ n1 = 1 \/ records[n1] < pos
  /\ n2 = Len(records) + 1 \/ records[n2] > pos

Answered ==
  \/ n2 = n1 + 1 /\ result = records[n1]
  \/ result = pos /\ \E k \in 1 .. Len(records) : records[k] = pos

IInv ==
  /\ TypeOK
  /\ Bracketed
  /\ size = n2 - n1
  /\ pc = "loop" /\ Len(records) >= 2 => size >= 2
  /\ pc = "done" => Len(records) >= 2 /\ Answered
  /\ pc = "failed" => Len(records) < 2

(* The paragraph found is the last one that begins at or before pos; and   *)
(* the first one when all begin after pos.                                 *)
FindsParagraph ==
  pc = "done" /\ Ascending =>
    /\ \E k \in 1 .. Len(records) : result = records[k]
    /\ result <= pos \/ result = records[1]
    /\ \A k \in 1 .. Len(records) : records[k] <= pos => records[k] <= result

(* The assertions hold over every index of two records or more, in order   *)
(* or not.                                                                 *)
NoAssertFails == Len(records) >= 2 => pc # "failed"

(* Every call ends.                                                        *)
Terminates == <>(pc # "loop")
=============================================================================
