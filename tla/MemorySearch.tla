---------------------------- MODULE MemorySearch ----------------------------
(***************************************************************************)
(* The search in memory: sufarr.cpp's load_index, search_lower_bound and   *)
(* search_upper_bound, and indexer.lua's loadindex and search, which calls *)
(* them.  The vector holds one element more than the index file (module    *)
(* IndexFile), and it is out of order: std::lower_bound and                *)
(* std::upper_bound are therefore modelled probe by probe.                 *)
(***************************************************************************)
EXTENDS SourceText, Records, SequencesExt

CONSTANTS
  Files,        \* the files indexed
  Words,        \* the words searched for
  RowLimit      \* 10 in search: rows beyond the first

VARIABLES
  file,         \* the source file
  src,          \* Index::src
  index,        \* Index::index
  pat,          \* the word
  first, len,   \* the range the standard algorithm still looks at, 0-based
  lb, ub,
  i,            \* the local i of search
  results,      \* the rows
  pc            \* "load", "ready", "lower", "upper", "rows" or "done"

vars == <<file, src, index, pat, first, len, lb, ub, i, results, pc>>

Init ==
  /\ file \in {f \in Files : HasNoNUL(f)}
  /\ src = <<>> /\ index = <<>> /\ pat = <<>>
  /\ first = 0 /\ len = 0 /\ lb = 0 /\ ub = 0 /\ i = 0
  /\ results = <<>>
  /\ pc = "load"

(* operator>>: the index file holds n whole records, and rest bytes of the *)
(* next one when it has been cut short; after the records it pushes what   *)
(* these bytes make, shifted once more, and 0 when there are none (module  *)
(* IndexFile, ReadPastEnd).                                                *)
LoadIndex ==
  /\ pc = "load"
  /\ src' = LoadedText(file)
  /\ \E records \in {SuffixArray(LoadedText(file))} :
       \E n \in 0 .. Len(records), rest \in 0 .. 3 :
         /\ n = Len(records) => rest = 0
         /\ index' = Append(SubSeq(records, 1, n),
                            IF rest = 0 THEN 0
                            ELSE Leading(records[n + 1], rest) * ByteBase)
  /\ pc' = "ready"
  /\ UNCHANGED <<file, pat, first, len, lb, ub, i, results>>

(* search (srcfile, word); search_lower_bound's call of std::lower_bound.  *)
Search(word) ==
  /\ pc \in {"ready", "done"}
  /\ pat' = word
  /\ first' = 0 /\ len' = Len(index)
  /\ pc' = "lower"
  /\ UNCHANGED <<file, src, index, lb, ub, i, results>>

Middle == first + len \div 2
Suffix(k) == CString(src, index[k + 1])

(* What both algorithms do with a probe.                                   *)
Halve(right) ==
  IF right THEN first' = Middle + 1 /\ len' = len - len \div 2 - 1
           ELSE first' = first /\ len' = len \div 2

LowerTurnCaseSensitive ==
  /\ pc = "lower" /\ len > 0
  /\ Halve(LexLess(Suffix(Middle), pat))
  /\ UNCHANGED <<file, src, index, pat, lb, ub, i, results, pc>>

(* ltstr_index: the suffix is below the word.                              *)
LowerTurn ==
  /\ pc = "lower" /\ len > 0
  /\ Halve(CaseLess(Suffix(Middle), pat))
  /\ UNCHANGED <<file, src, index, pat, lb, ub, i, results, pc>>

LowerReturns ==
  /\ pc = "lower" /\ len = 0
  /\ lb' = first
  /\ first' = 0 /\ len' = Len(index)
  /\ pc' = "upper"
  /\ UNCHANGED <<file, src, index, pat, ub, i, results>>

(* gtstr_index, for the word with "\xff": the suffix is not above it.      *)
UpperTurn ==
  /\ pc = "upper" /\ len > 0
  /\ Halve(~ CaseLess(Append(pat, 255), Suffix(Middle)))
  /\ UNCHANGED <<file, src, index, pat, lb, ub, i, results, pc>>

UpperReturnsInclusive ==
  /\ pc = "upper" /\ len = 0
  /\ ub' = first + 1
  /\ i' = lb /\ results' = <<>>
  /\ pc' = "rows"
  /\ UNCHANGED <<file, src, index, pat, first, len, lb>>

UpperReturns ==
  /\ pc = "upper" /\ len = 0
  /\ ub' = first
  /\ i' = lb /\ results' = <<>>
  /\ pc' = "rows"
  /\ UNCHANGED <<file, src, index, pat, first, len, lb>>

(* get_position, then the line read from the file; the loop is left once   *)
(* i > lb + 10.                                                            *)
RowRead ==
  /\ pc = "rows" /\ i < ub
  /\ results' = Append(results, ReadLine(file, index[i + 1]))
  /\ i' = i + 1
  /\ pc' = IF i' > lb + RowLimit THEN "done" ELSE "rows"
  /\ UNCHANGED <<file, src, index, pat, first, len, lb, ub>>

SearchReturns ==
  /\ pc = "rows" /\ i >= ub
  /\ pc' = "done"
  /\ UNCHANGED <<file, src, index, pat, first, len, lb, ub, i, results>>

Call ==
  \/ LowerTurn \/ LowerReturns
  \/ UpperTurn \/ UpperReturns
  \/ RowRead \/ SearchReturns

Next == LoadIndex \/ (\E word \in Words : Search(word)) \/ Call

Spec == Init /\ [][Next]_vars
-----------------------------------------------------------------------------
Aligned == src = file

(* The element load_index made up.                                         *)
Extra == Len(index) - 1

Occurs(k) == Lowered(ReadAt(src, index[k + 1], Len(pat))) = Lowered(pat)

(* No probe and no row is taken outside the vector, although its length    *)
(* is not the number of records and nothing checks the int n.              *)
NothingReadOutside ==
  /\ pc \in {"lower", "upper"} => first + len <= Len(index)
  /\ pc = "rows" /\ i < ub => i < Len(index)

(* Whatever the order the made-up element breaks: all that is between the  *)
(* bounds begins with the word, except that element and the last record.   *)
HitsAreOccurrences ==
  pc \in {"rows", "done"} => \A k \in lb .. ub - 1 : Occurs(k) \/ k >= Extra - 1

(* No record that begins with the word is missed, except the last one: the *)
(* probe of the made-up element may send either bound past it.             *)
OccurrencesAreHits ==
  pc \in {"rows", "done"} =>
    \A k \in 0 .. Len(index) - 2 :
      Occurs(k) => k \in lb .. ub - 1 \/ k = Extra - 1

(* The rows are lines of the file that begin with the word, as many as the *)
(* bounds say, up to the limit.                                            *)
RowsShowWord ==
  pc = "done" =>
    /\ Len(results) = Max({0, Min({ub - lb, RowLimit + 1})})
    /\ Aligned => \A k \in 1 .. Len(results) :
         \/ lb + k - 1 >= Extra - 1
         \/ Lowered(SubSeq(results[k], 1, Len(pat))) = Lowered(pat)
-----------------------------------------------------------------------------
(* The inductive invariant: the records but the made-up one are in order,  *)
(* so that what the probes saw left of first, and right of the range, is   *)
(* so for the whole of it; the made-up one, wherever it belongs, can only  *)
(* have cost the last record.                                              *)
Below(k) == CaseLess(Suffix(k), pat)
Above(k) == CaseLess(Append(pat, 255), Suffix(k))

TypeOK ==
  /\ pc \in {"load", "ready", "lower", "upper", "rows", "done"}
  /\ file \in Files /\ HasNoNUL(file)
  /\ pat \in Words \union {<<>>}
  /\ first \in Nat /\ len \in Nat /\ lb \in Nat /\ ub \in Nat

RecordsInOrder ==
  /\ src = LoadedText(file)
  /\ index \in Seq(0 .. Len(src)) /\ Len(index) > 0
  /\ \A k, l \in 0 .. Extra - 1 : k < l => SuffixLess(src, index[k + 1], index[l + 1])

LowerHalved ==
  /\ first + len <= Len(index)
  /\ \A k \in 0 .. Extra - 1 :
       /\ k < first /\ k < Extra - 1 => Below(k)
       /\ first + len <= k => ~ Below(k)

LowerFound ==
  /\ lb <= Len(index)
  /\ \A k \in 0 .. Extra - 1 :
       /\ k < lb /\ k < Extra - 1 => Below(k)
       /\ lb <= k => ~ Below(k)

UpperHalved ==
  /\ first + len <= Len(index)
  /\ \A k \in 0 .. Extra - 1 :
       /\ k < first /\ k < Extra - 1 => ~ Above(k)
       /\ first + len <= k => Above(k)

UpperFound ==
  /\ ub <= Len(index)
  /\ \A k \in 0 .. Extra - 1 :
       /\ k < ub /\ k < Extra - 1 => ~ Above(k)
       /\ ub <= k => Above(k)

RowsSoFar ==
  /\ results \in Seq({ReadLine(file, p) : p \in 0 .. Len(file)})
  /\ i = lb + Len(results)
  /\ results # <<>> => i <= ub
  /\ Len(results) <= (IF pc = "rows" THEN RowLimit ELSE RowLimit + 1)
  /\ \A k \in 1 .. Len(results) : results[k] = ReadLine(file, index[lb + k])

IInv ==
  /\ TypeOK
  /\ pc # "load" => RecordsInOrder
  /\ pc \in {"lower", "upper", "rows", "done"} => pat \in Words
  /\ pc = "lower" => LowerHalved
  /\ pc \in {"upper", "rows", "done"} => LowerFound
  /\ pc = "upper" => UpperHalved
  /\ pc \in {"rows", "done"} => UpperFound /\ RowsSoFar
  /\ pc = "done" => Len(results) = RowLimit + 1 \/ i >= ub
=============================================================================
