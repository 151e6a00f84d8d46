------------------------- MODULE IndexReadersProofs -------------------------
(***************************************************************************)
(* The readers of the index files, for files of any number of records: the *)
(* binary search of an index answers with a boundary, that of a paragraph  *)
(* index with the last paragraph before the position, load_index with the  *)
(* records written and one element more, and the search in memory, for     *)
(* every text in UTF-8 and every word, with the occurrences of the word,   *)
(* but for the last record and the one made up.  Each reader has an        *)
(* inductive invariant of its own, which the steps of the others leave     *)
(* alone.                                                                  *)
(***************************************************************************)
EXTENDS IndexReaders, SourceTextProofs

(* A step of the readers is a step of each one, or leaves it alone.        *)
LEMMA OneReaderSteps ==
  ASSUME [ReadersNext]_readerVars
  PROVE  /\ [Next]_vars
         /\ [Lookup!Next]_lookupVars
         /\ [Loader!Next]_fileVars
  BY DEF ReadersNext, LookupStep, readerVars

-----------------------------------------------------------------------------
(* The binary search of an index (module LowerBound).                      *)

(* The probe of lower_bound falls strictly inside a bracket of two or more *)
(* records, and leaves at most half of it, rounded up, on either side.     *)
LEMMA MidInside ==
  ASSUME NEW sz \in Nat, sz >= 2, NEW lo \in Int
  PROVE  /\ Mid(sz, lo) \in Int
         /\ lo < Mid(sz, lo)
         /\ Mid(sz, lo) < lo + sz
         /\ 2 * (Mid(sz, lo) - lo) <= sz + 1
         /\ 2 * (lo + sz - Mid(sz, lo)) <= sz + 1
  BY DEF Mid

(* The same about the loop's own variables.                                *)
LEMMA ProbeInside ==
  ASSUME IInv, pc = "loop", entries >= 2
  PROVE  /\ n1 \in Int /\ n2 \in Int /\ Mid(size, n1) \in Int
         /\ n1 < Mid(size, n1)
         /\ Mid(size, n1) < n2
         /\ 2 * (Mid(size, n1) - n1) <= n2 - n1 + 1
         /\ 2 * (n2 - Mid(size, n1)) <= n2 - n1 + 1
<1>1. size \in Nat /\ size >= 2 /\ n1 \in Int /\ n2 \in Int /\ n2 = n1 + size
  BY DEF IInv, TypeOK
<1> DEFINE m == Mid(size, n1)
<1>2. /\ m \in Int /\ n1 < m /\ m < n1 + size
      /\ 2 * (m - n1) <= size + 1 /\ 2 * (n1 + size - m) <= size + 1
  BY <1>1, MidInside
<1> HIDE DEF m
<1>3. /\ n1 < m /\ m < n2
      /\ 2 * (m - n1) <= n2 - n1 + 1 /\ 2 * (n2 - m) <= n2 - n1 + 1
  BY <1>1, <1>2
<1>4. QED
  BY <1>1, <1>2, <1>3 DEF m

(* A turn can be taken exactly when two records or more are left.          *)
LEMMA TurnNeedsTwo ==
  ASSUME IInv, pc = "loop"
  PROVE  AssertsHold <=> entries >= 2
<1>1. CASE entries >= 2
  <2> DEFINE m == Mid(size, n1)
  <2>1. n1 \in Int /\ n2 \in Int /\ m \in Int /\ n1 < m /\ m < n2
    BY <1>1, ProbeInside
  <2> HIDE DEF m
  <2>2. n1 < n2 /\ n1 <= m /\ n2 > m
    BY <2>1
  <2>3. QED
    BY <1>1, <2>2 DEF AssertsHold, m
<1>2. CASE entries < 2
  BY <1>2 DEF IInv, TypeOK, AssertsHold, Mid
<1>3. QED
  BY <1>1, <1>2 DEF IInv, TypeOK

(* The bracket, its width and the two records left are kept by every step. *)
THEOREM Inductive == ReadersSpec => []IInv
<1>1. ReadersInit => IInv
  <2>1. Init => IInv
    BY MaxEntriesAssumption DEF Init, IInv, TypeOK, Bracketed
  <2>2. NoSearch => IInv
    BY MaxEntriesAssumption DEF NoSearch, IInv, TypeOK, Bracketed
  <2>3. QED
    BY <2>1, <2>2 DEF ReadersInit
<1>2. IInv /\ [Next]_vars => IInv'
  <2> SUFFICES ASSUME IInv, [Next]_vars
               PROVE  IInv'
    OBVIOUS
  <2> DEFINE m == Mid(size, n1)
  <2>1. ASSUME pc = "loop", AssertsHold
        PROVE  /\ entries >= 2
               /\ m \in n1 + 1 .. n2 - 1
    <3>1. entries >= 2
      BY <2>1, TurnNeedsTwo
    <3>2. n1 \in Int /\ n2 \in Int /\ m \in Int /\ n1 < m /\ m < n2
      BY <2>1, <3>1, ProbeInside
    <3> HIDE DEF m
    <3>3. QED
      BY <3>1, <3>2
  <2>2. CASE TurnUp
    <3>1. m \in n1 + 1 .. n2 - 1 /\ entries >= 2 /\ below[m]
      BY <2>1, <2>2 DEF TurnUp, Probes
    <3>2. n1' = m /\ n2' = n2 /\ size' = n2 - m /\ entries' = entries /\ below' = below
          /\ pastEnd' = pastEnd
          /\ pc' = IF m = n2 - 1 THEN "done" ELSE "loop"
      BY <2>2 DEF TurnUp, EndOfTurn
    <3> HIDE DEF m
    <3>3. QED
      BY <3>1, <3>2 DEF IInv, TypeOK, Bracketed
  <2>3. CASE TurnDown
    <3>1. m \in n1 + 1 .. n2 - 1 /\ entries >= 2 /\ ~ below[m]
      BY <2>1, <2>3 DEF TurnDown, Probes
    <3>2. n1' = n1 /\ n2' = m /\ size' = m - n1 /\ entries' = entries /\ below' = below
          /\ pastEnd' = pastEnd
          /\ pc' = IF n1 = m - 1 THEN "done" ELSE "loop"
      BY <2>3 DEF TurnDown, EndOfTurn
    <3> HIDE DEF m
    <3>3. QED
      BY <3>1, <3>2 DEF IInv, TypeOK, Bracketed
  <2>4. CASE AssertFails
    <3>1. ~ (entries >= 2)
      BY <2>4, TurnNeedsTwo DEF AssertFails
    <3>2. QED
      BY <2>4, <3>1 DEF AssertFails, IInv, TypeOK, Bracketed
  <2>5. CASE ProbePastEnd
    BY <2>5, <2>1 DEF ProbePastEnd, IInv, TypeOK, Bracketed
  <2>6. CASE UNCHANGED vars
    BY <2>6 DEF vars, IInv, TypeOK, Bracketed
  <2>7. QED
    BY <2>2, <2>3, <2>4, <2>5, <2>6 DEF Next
<1>3. QED
  BY <1>1, <1>2, OneReaderSteps, PTL DEF ReadersSpec

(* Every reachable state of the search is well typed.                      *)
THEOREM Typing == ReadersSpec => []TypeOK
<1>1. IInv => TypeOK
  BY DEF IInv
<1>2. QED
  BY <1>1, Inductive, PTL

(* The three assertions of indexer.lua:143-155 never fail on an index of   *)
(* two records or more, even one that is not in suffix order.              *)
THEOREM AssertionsHold == ReadersSpec => []NoAssertFails
<1>1. IInv => NoAssertFails
  BY DEF IInv, NoAssertFails, TypeOK
<1>2. QED
  BY <1>1, Inductive, PTL

(* On an index in suffix order the number returned separates the records   *)
(* below the word from the others.                                         *)
THEOREM RankReturned == ReadersSpec => []ReturnsRank
<1>1. ASSUME IInv, pc = "done", BelowFirst(entries, below)
      PROVE  /\ \A i \in 1 .. entries : i > n1 => ~ below[i]
             /\ \A i \in 1 .. entries : i < n1 => below[i]
             /\ (\E i \in 1 .. entries : below[i]) => below[n1]
  <2>1. n2 = n1 + 1 /\ n1 \in 1 .. entries /\ entries \in Nat
    BY <1>1 DEF IInv, TypeOK
  <2>2. \A i \in 1 .. entries : i > n1 => ~ below[i]
    <3> SUFFICES ASSUME NEW i \in 1 .. entries, i > n1
                 PROVE  ~ below[i]
      OBVIOUS
    <3>1. n2 \in 1 .. entries /\ ~ below[n2]
      BY <1>1, <2>1 DEF IInv, Bracketed
    <3>2. i = n2 \/ n2 < i
      BY <2>1
    <3>3. QED
      BY <1>1, <3>1, <3>2 DEF BelowFirst
  <2>3. \A i \in 1 .. entries : i < n1 => below[i]
    BY <1>1, <2>1 DEF IInv, Bracketed, BelowFirst
  <2>4. (\E i \in 1 .. entries : below[i]) => below[n1]
    <3> SUFFICES ASSUME NEW i \in 1 .. entries, below[i]
                 PROVE  below[n1]
      OBVIOUS
    <3>1. i <= n1
      BY <2>1, <2>2
    <3>2. n1 = 1 => i = n1
      BY <2>1, <3>1
    <3>3. QED
      BY <1>1, <3>2 DEF IInv, Bracketed
  <2>5. QED
    BY <2>2, <2>3, <2>4
<1>2. IInv => ReturnsRank
  BY <1>1 DEF ReturnsRank
<1>3. QED
  BY <1>2, Inductive, PTL

(* A turn leaves at most half of the bracket, rounded up: the number of    *)
(* seeks is logarithmic in the size of the index file.                     *)
THEOREM HalvesEveryTurn == ReadersSpec => Halves
<1>1. IInv /\ [Next]_vars
      => [2 * (n2' - n1') <= n2 - n1 + 1]_<<n1, n2>>
  <2> SUFFICES ASSUME IInv, TurnUp \/ TurnDown
               PROVE  2 * (n2' - n1') <= n2 - n1 + 1
    BY DEF vars, Next, AssertFails, ProbePastEnd
  <2>1. pc = "loop" /\ AssertsHold
    BY DEF TurnUp, TurnDown, Probes
  <2>2. entries >= 2
    BY <2>1, TurnNeedsTwo
  <2>3. \/ n1' = Mid(size, n1) /\ n2' = n2
        \/ n1' = n1 /\ n2' = Mid(size, n1)
    BY <2>1 DEF TurnUp, TurnDown, EndOfTurn
  <2>4. QED
    BY <2>1, <2>2, <2>3, ProbeInside
<1>2. QED
  BY <1>1, OneReaderSteps, Inductive, PTL DEF ReadersSpec, Halves

(* What is returned is always a boundary of the table.                     *)
ReturnsBoundary ==
  pc = "done" => entries >= 2 /\ B!IsBoundary(entries, below, n1)

(* The bracket of one record that is left is a boundary of the verdicts.   *)
LEMMA BoundaryReturned == IInv => ReturnsBoundary
<1> SUFFICES ASSUME IInv, pc = "done"
             PROVE  entries >= 2 /\ B!IsBoundary(entries, below, n1)
  BY DEF ReturnsBoundary
<1>1. entries \in Nat /\ entries >= 2 /\ n1 \in 1 .. entries /\ n2 = n1 + 1
  BY DEF IInv, TypeOK
<1>2. QED
  BY <1>1 DEF IInv, Bracketed, B!IsBoundary

(* lower_bound implements the abstract search: at most one answer, and the *)
(* answer is an entry where the verdicts change.                           *)
THEOREM Refinement == ReadersSpec => ImplementsBoundary
<1> DEFINE ans == IF pc = "done" THEN n1 ELSE 0
<1>1. ReadersInit => B!BoundaryInit
  <2>1. Init => B!BoundaryInit
    BY DEF Init, B!BoundaryInit
  <2>2. NoSearch => B!BoundaryInit
    BY MaxEntriesAssumption DEF NoSearch, B!BoundaryInit
  <2>3. QED
    BY <2>1, <2>2 DEF ReadersInit
<1>2. ReturnsBoundary' /\ [Next]_vars => [B!Answer]_<<entries, below, ans>>
  <2> SUFFICES ASSUME ReturnsBoundary', [Next]_vars
               PROVE  [B!Answer]_<<entries, below, ans>>
    OBVIOUS
  <2>1. CASE TurnUp \/ TurnDown
    <3>1. entries' = entries /\ below' = below /\ pc = "loop"
      BY <2>1 DEF TurnUp, TurnDown, Probes, EndOfTurn
    <3>2. CASE pc' = "done"
      <4>1. entries >= 2 /\ B!IsBoundary(entries, below, n1')
        BY <3>1, <3>2 DEF ReturnsBoundary
      <4>2. ans = 0 /\ ans' = n1' /\ n1' \in 1 .. entries
        BY <3>1, <3>2, <4>1 DEF B!IsBoundary
      <4>3. QED
        BY <3>1, <4>1, <4>2 DEF B!Answer
    <3>3. CASE pc' # "done"
      BY <3>1, <3>3
    <3>4. QED
      BY <3>2, <3>3
  <2>2. CASE AssertFails \/ ProbePastEnd
    BY <2>2 DEF AssertFails, ProbePastEnd
  <2>3. CASE UNCHANGED vars
    BY <2>3 DEF vars
  <2>4. QED
    BY <2>1, <2>2, <2>3 DEF Next
<1>3. QED
  BY <1>1, <1>2, OneReaderSteps, BoundaryReturned, Inductive, PTL
     DEF ReadersSpec, ImplementsBoundary, B!BoundarySpec, B!boundaryVars

-----------------------------------------------------------------------------
(* The binary search of a paragraph index (module ParagraphLookup).        *)

(* The records are numbers, and the bounds are within the index.           *)
LEMMA LookupTyped ==
  ASSUME Lookup!TypeOK
  PROVE  /\ Len(records) \in Nat /\ pos \in Nat /\ result \in Nat
         /\ low \in Nat /\ high \in Nat /\ width \in Nat
         /\ \A k \in 1 .. Len(records) : records[k] \in Lookup!Positions
         /\ \A k \in 1 .. Len(records) : records[k] \in Nat
<1>1. /\ Len(records) \in Nat
      /\ \A k \in 1 .. Len(records) : records[k] \in Lookup!Positions
  BY DEF Lookup!TypeOK
<1>2. \A r \in Lookup!Positions : r \in Nat
  BY MaxPosAssumption DEF Lookup!Positions
<1>3. QED
  BY <1>1, <1>2 DEF Lookup!TypeOK

(* A turn can be taken exactly when two records or more are left, and then *)
(* the probe falls strictly inside the bracket.                            *)
LEMMA LookupProbeInside ==
  ASSUME Lookup!IInv, lookup = "loop"
  PROVE  /\ Lookup!AssertsHold <=> Len(records) >= 2
         /\ Lookup!AssertsHold =>
              Lookup!Probe \in Int /\ low < Lookup!Probe /\ Lookup!Probe < high
<1>1. /\ width \in Nat /\ low \in Nat /\ high \in Nat /\ Len(records) \in Nat
      /\ high = low + width
  BY LookupTyped DEF Lookup!IInv
<1>2. CASE Len(records) >= 2
  <2>1. width >= 2
    BY <1>2 DEF Lookup!IInv
  <2>2. Lookup!Probe \in Int /\ low < Lookup!Probe /\ Lookup!Probe < low + width
    BY <1>1, <2>1 DEF Lookup!Probe, Lookup!Mid
  <2>3. QED
    BY <1>1, <1>2, <2>2 DEF Lookup!AssertsHold
<1>3. CASE Len(records) < 2
  <2>1. width <= 1
    BY <1>1, <1>3 DEF Lookup!IInv, Lookup!TypeOK
  <2>2. ~ Lookup!AssertsHold
    BY <1>1, <2>1 DEF Lookup!AssertsHold, Lookup!Probe, Lookup!Mid
  <2>3. QED
    BY <1>1, <1>3, <2>2
<1>4. QED
  BY <1>1, <1>2, <1>3

(* A turn that ends with the bracket lo .. hi keeps the invariant.         *)
LEMMA LookupTurnKeeps ==
  ASSUME Lookup!IInv, Len(records) >= 2, lookup = "loop",
         NEW lo \in 1 .. Len(records), NEW hi \in 1 .. Len(records) + 1, lo < hi,
         lo = 1 \/ records[lo] < pos,
         hi = Len(records) + 1 \/ records[hi] > pos,
         Lookup!EndOfTurn(lo, hi)
  PROVE  Lookup!IInv'
<1>1. low' = lo /\ high' = hi /\ width' = hi - lo /\ records' = records /\ pos' = pos
  BY DEF Lookup!EndOfTurn, Lookup!Leave, Lookup!Continue
<1>2. Len(records) \in Nat /\ Lookup!TypeOK
  BY LookupTyped DEF Lookup!IInv
<1>3. CASE lo = hi - 1
  <2>1. result' = records[lo] /\ lookup' = "done"
    BY <1>2, <1>3 DEF Lookup!EndOfTurn, Lookup!Leave
  <2>2. result' \in Lookup!Positions
    BY <1>2, <2>1, LookupTyped
  <2>3. Lookup!TypeOK'
    BY <1>1, <1>2, <1>3, <2>1, <2>2 DEF Lookup!TypeOK
  <2>4. Lookup!Bracketed' /\ Lookup!Answered'
    BY <1>1, <1>2, <1>3, <2>1 DEF Lookup!Bracketed, Lookup!Answered
  <2>5. QED
    BY <1>1, <2>1, <2>3, <2>4 DEF Lookup!IInv
<1>4. CASE lo # hi - 1
  <2>1. result' = result /\ lookup' = "loop"
    BY <1>4 DEF Lookup!EndOfTurn, Lookup!Continue
  <2>2. Lookup!TypeOK'
    BY <1>1, <1>2, <1>4, <2>1 DEF Lookup!TypeOK
  <2>3. Lookup!Bracketed' /\ width' >= 2
    BY <1>1, <1>2, <1>4 DEF Lookup!Bracketed
  <2>4. QED
    BY <1>1, <2>1, <2>2, <2>3 DEF Lookup!IInv
<1>5. QED
  BY <1>3, <1>4

(* The bracket and the two records left are kept by every step.            *)
THEOREM LookupInductive == ReadersSpec => []Lookup!IInv
<1>1. ReadersInit => Lookup!IInv
  <2>1. 0 \in Lookup!Positions
    BY MaxPosAssumption DEF Lookup!Positions
  <2>2. Lookup!Init => Lookup!IInv
    <3> SUFFICES ASSUME Lookup!Init PROVE Lookup!IInv
      OBVIOUS
    <3>1. records \in Seq(Lookup!Positions) /\ Len(records) \in Nat
      BY MaxRecordsAssumption DEF Lookup!Init
    <3>2. QED
      BY <2>1, <3>1 DEF Lookup!Init, Lookup!IInv, Lookup!TypeOK, Lookup!Bracketed
  <2>3. NoLookup => Lookup!IInv
    <3> SUFFICES ASSUME NoLookup PROVE Lookup!IInv
      OBVIOUS
    <3>1. records \in Seq(Lookup!Positions) /\ Len(records) = 0
      BY DEF NoLookup
    <3>2. QED
      BY <2>1, <3>1 DEF NoLookup, Lookup!IInv, Lookup!TypeOK, Lookup!Bracketed
  <2>4. QED
    BY <2>2, <2>3 DEF ReadersInit
<1>2. Lookup!IInv /\ [Lookup!Next]_lookupVars => Lookup!IInv'
  <2> SUFFICES ASSUME Lookup!IInv, [Lookup!Next]_lookupVars
               PROVE  Lookup!IInv'
    OBVIOUS
  <2> DEFINE m == Lookup!Probe
  <2>1. Lookup!TypeOK /\ Len(records) \in Nat
    BY LookupTyped DEF Lookup!IInv
  <2>2. ASSUME lookup = "loop", Lookup!AssertsHold
        PROVE  /\ Len(records) >= 2 /\ m \in 1 .. Len(records) /\ low < m /\ m < high
               /\ low \in 1 .. Len(records) /\ high \in 1 .. Len(records) + 1
    <3>1. m \in Int /\ low < m /\ m < high /\ Len(records) >= 2
      BY <2>2, LookupProbeInside
    <3> HIDE DEF m
    <3>2. QED
      BY <2>1, <3>1 DEF Lookup!TypeOK
  <2>3. CASE Lookup!Found
    <3>1. lookup = "loop" /\ Lookup!AssertsHold /\ records[m] = pos /\ result' = pos /\ lookup' = "done"
          /\ UNCHANGED <<records, pos, low, high, width>>
      BY <2>3 DEF Lookup!Found
    <3>2. Len(records) >= 2 /\ m \in 1 .. Len(records)
      BY <2>2, <3>1
    <3> HIDE DEF m
    <3>3. Lookup!TypeOK'
      BY <2>1, <3>1 DEF Lookup!TypeOK
    <3>4. Lookup!Bracketed' /\ width' = high' - low'
      BY <3>1 DEF Lookup!IInv, Lookup!Bracketed
    <3>5. Lookup!Answered'
      <4>1. \E k \in 1 .. Len(records) : records[k] = pos
        BY <3>1, <3>2
      <4>2. QED
        BY <3>1, <4>1 DEF Lookup!Answered
    <3>6. QED
      BY <3>1, <3>2, <3>3, <3>4, <3>5 DEF Lookup!IInv
  <2>4. CASE Lookup!TurnUp
    <3>1. lookup = "loop" /\ Lookup!AssertsHold /\ records[m] < pos /\ Lookup!EndOfTurn(m, high)
      BY <2>4 DEF Lookup!TurnUp
    <3>2. Len(records) >= 2 /\ m \in 1 .. Len(records) /\ m < high
          /\ high \in 1 .. Len(records) + 1
      BY <2>2, <3>1
    <3>3. high = Len(records) + 1 \/ records[high] > pos
      BY DEF Lookup!IInv, Lookup!Bracketed
    <3> HIDE DEF m
    <3>4. QED
      BY <3>1, <3>2, <3>3, LookupTurnKeeps
  <2>5. CASE Lookup!TurnDown
    <3>1. lookup = "loop" /\ Lookup!AssertsHold /\ records[m] > pos /\ Lookup!EndOfTurn(low, m)
      BY <2>5 DEF Lookup!TurnDown
    <3>2. Len(records) >= 2 /\ m \in 1 .. Len(records) + 1 /\ low < m
          /\ low \in 1 .. Len(records)
      BY <2>1, <2>2, <3>1
    <3>3. low = 1 \/ records[low] < pos
      BY DEF Lookup!IInv, Lookup!Bracketed
    <3> HIDE DEF m
    <3>4. QED
      BY <3>1, <3>2, <3>3, LookupTurnKeeps
  <2>6. CASE Lookup!AssertFails
    <3>1. Len(records) < 2
      BY <2>1, <2>6, LookupProbeInside DEF Lookup!AssertFails
    <3>2. QED
      BY <2>6, <3>1 DEF Lookup!AssertFails, Lookup!IInv, Lookup!TypeOK, Lookup!Bracketed, Lookup!Answered
  <2>7. CASE UNCHANGED lookupVars
    BY <2>7 DEF lookupVars, Lookup!IInv, Lookup!TypeOK, Lookup!Bracketed, Lookup!Answered
  <2>8. QED
    BY <2>3, <2>4, <2>5, <2>6, <2>7 DEF Lookup!Next
<1>3. QED
  BY <1>1, <1>2, OneReaderSteps, PTL DEF ReadersSpec

(* The types of the lookup's variables.                                    *)
THEOREM LookupTyping == ReadersSpec => []Lookup!TypeOK
  BY LookupInductive, PTL DEF Lookup!IInv

(* The assertions of indexer.lua:101-113 hold over every paragraph index   *)
(* of two records or more.                                                 *)
THEOREM LookupAsserts == ReadersSpec => []Lookup!NoAssertFails
<1>1. Lookup!IInv => Lookup!NoAssertFails
  BY LookupTyped DEF Lookup!IInv, Lookup!NoAssertFails
<1>2. QED
  BY <1>1, LookupInductive, PTL

(* Over a sorted paragraph index the lookup finds the last paragraph that  *)
(* begins at or before the position.                                       *)
THEOREM ParagraphFound == ReadersSpec => []FindsParagraph
<1>1. ASSUME Lookup!IInv, lookup = "done", Lookup!Ascending
      PROVE  /\ \E k \in 1 .. Len(records) : result = records[k]
             /\ result <= pos \/ result = records[1]
             /\ \A k \in 1 .. Len(records) : records[k] <= pos => records[k] <= result
  <2>1. /\ Len(records) \in Nat /\ Len(records) >= 2 /\ pos \in Nat
        /\ low \in 1 .. Len(records) + 1 /\ high \in 1 .. Len(records) + 1
        /\ \A k \in 1 .. Len(records) : records[k] \in Nat
        /\ low \in Nat /\ high \in Nat
    BY <1>1, LookupTyped DEF Lookup!IInv, Lookup!TypeOK
  <2>2. CASE result = pos /\ \E k \in 1 .. Len(records) : records[k] = pos
    BY <2>1, <2>2
  <2>3. CASE high = low + 1 /\ result = records[low]
    <3>1. low \in 1 .. Len(records) /\ 1 \in 1 .. Len(records)
      BY <2>1, <2>3
    <3>2. result <= pos \/ result = records[1]
      BY <1>1, <2>1, <2>3, <3>1 DEF Lookup!IInv, Lookup!Bracketed
    <3>3. ASSUME NEW k \in 1 .. Len(records), records[k] <= pos
          PROVE  records[k] <= result
      <4>1. CASE k <= low
        <5>1. k = low \/ records[k] <= records[low]
          BY <1>1, <2>1, <3>1, <4>1 DEF Lookup!Ascending
        <5>2. QED
          BY <2>1, <2>3, <3>1, <5>1
      <4>2. CASE k > low
        <5>1. high \in 1 .. Len(records) /\ records[high] > pos
          BY <1>1, <2>1, <2>3, <4>2 DEF Lookup!IInv, Lookup!Bracketed
        <5>2. records[high] <= records[k]
          BY <1>1, <2>1, <2>3, <4>2, <5>1 DEF Lookup!Ascending
        <5>3. records[k] \in Nat /\ records[high] \in Nat
          BY <2>1, <5>1
        <5>4. QED
          BY <2>1, <3>3, <5>1, <5>2, <5>3
      <4>3. QED
        BY <2>1, <4>1, <4>2
    <3>4. QED
      BY <2>3, <3>1, <3>2, <3>3
  <2>4. QED
    BY <1>1, <2>2, <2>3 DEF Lookup!IInv, Lookup!Answered
<1>2. Lookup!IInv => FindsParagraph
  BY <1>1 DEF FindsParagraph, Lookup!FindsParagraph
<1>3. QED
  BY <1>2, LookupInductive, PTL

-----------------------------------------------------------------------------
(* The records of the index files and their loading (module IndexFile).    *)

(* Quotient and remainder.                                                 *)
LEMMA Division ==
  ASSUME NEW a \in Nat, NEW b \in Nat, b >= 2
  PROVE  /\ a \div b \in Nat
         /\ a % b \in Nat /\ a % b < b
         /\ a = (a \div b) * b + (a % b)
  BY SMT

(* Shifting twice is shifting by both.                                     *)
LEMMA DivisionTwice ==
  ASSUME NEW a \in Nat, NEW b \in Nat, NEW c \in Nat, b >= 2, c >= 2
  PROVE  (a \div b) \div c = a \div (b * c)
  BY SMT

(* A number below b * c has a quotient by b below c.                       *)
LEMMA QuotientBound ==
  ASSUME NEW a \in Nat, NEW b \in Nat, NEW c \in Nat, b >= 2, c >= 2, a < b * c
  PROVE  a \div b < c
  BY SMT

(* The digits of a position add up to it again.                            *)
LEMMA Digits ==
  ASSUME NEW b \in Nat, NEW q1 \in Nat, NEW q2 \in Nat, NEW q3 \in Nat,
         NEW r1 \in Nat, NEW r2 \in Nat, NEW r3 \in Nat,
         q1 = q2 * b + r2, q2 = q3 * b + r3
  PROVE  q1 * b + r1 = q3 * (b * b * b) + r3 * (b * b) + r2 * b + r1
<1>1. q2 * b = q3 * (b * b) + r3 * b
  BY SMT
<1>2. q1 * b = (q2 * b) * b + r2 * b
  BY SMT
<1>3. (q3 * (b * b) + r3 * b) * b = q3 * (b * b * b) + r3 * (b * b)
  BY SMT
<1>4. QED
  BY <1>1, <1>2, <1>3, SMT

(* A position a record can hold is packed into four bytes, from which      *)
(* get_str_pos and get_position_lua take the same position.                *)
THEOREM RoundTrip ==
  ASSUME NEW p \in 0 .. Width - 1
  PROVE  /\ Pack(p) \in [1 .. 4 -> Bytes]
         /\ Unpack(Pack(p)) = p
<1> DEFINE b == ByteBase
           q1 == p \div b
           q2 == p \div (b * b)
           q3 == p \div (b * b * b)
<1>1. b \in Nat /\ b >= 2 /\ b * b \in Nat /\ b * b >= 2 /\ b * b * b \in Nat
      /\ b * b * b >= 2 /\ p \in Nat /\ p < (b * b * b) * b
  BY ByteBaseAssumption, SMT DEF Width
<1>2. Pack(p) = <<q3 % b, q2 % b, q1 % b, p % b>>
  BY DEF Pack
<1>3. q1 \div b = q2 /\ q2 \div b = q3
  BY <1>1, DivisionTwice
<1>4. q1 \in Nat /\ q2 \in Nat /\ q3 \in Nat /\ q3 < b
  BY <1>1, Division, QuotientBound
<1>5. p = q1 * b + (p % b) /\ q1 = q2 * b + (q1 % b) /\ q2 = q3 * b + (q2 % b)
  BY <1>1, <1>3, <1>4, Division
<1>6. q3 % b = q3
  BY <1>1, <1>4, SMT
<1>7. /\ p % b \in Nat /\ p % b < b /\ q1 % b \in Nat /\ q1 % b < b
      /\ q2 % b \in Nat /\ q2 % b < b
  BY <1>1, <1>4, Division
<1> HIDE DEF b, q1, q2, q3
<1>8. Pack(p) \in [1 .. 4 -> Bytes]
  <2>1. q3 % b \in Bytes /\ q2 % b \in Bytes /\ q1 % b \in Bytes /\ p % b \in Bytes
    BY <1>1, <1>4, <1>6, <1>7 DEF Bytes, b
  <2>2. QED
    BY <1>2, <2>1
<1>9. Unpack(Pack(p)) =
        q3 * (b * b * b) + (q2 % b) * (b * b) + (q1 % b) * b + (p % b)
  BY <1>2, <1>6 DEF Unpack, b
<1>10. q1 * b + (p % b) =
         q3 * (b * b * b) + (q2 % b) * (b * b) + (q1 % b) * b + (p % b)
  <2> DEFINE r0 == p % b
             r1 == q1 % b
             r2 == q2 % b
  <2>1. /\ b \in Nat /\ q1 \in Nat /\ q2 \in Nat /\ q3 \in Nat
        /\ r0 \in Nat /\ r1 \in Nat /\ r2 \in Nat
        /\ q1 = q2 * b + r1 /\ q2 = q3 * b + r2
    BY <1>1, <1>4, <1>5, <1>7
  <2> HIDE DEF r0, r1, r2
  <2>2. q1 * b + r0 = q3 * (b * b * b) + r2 * (b * b) + r1 * b + r0
    BY <2>1, Digits
  <2>3. QED
    BY <2>2 DEF r0, r1, r2
<1>11. QED
  BY <1>5, <1>8, <1>9, <1>10

(* C++ get_position returns a position of the lower half unchanged, and a  *)
(* negative number for every other.                                        *)
THEOREM IntHoldsLowerHalf ==
  ASSUME NEW p \in 0 .. Width - 1
  PROVE  IF 2 * p < Width THEN AsInt(p) = p ELSE AsInt(p) < 0
<1>1. Width \in Nat /\ Width >= 2
  BY ByteBaseAssumption, SMT DEF Width
<1>2. p % Width = p
  BY <1>1, SMT
<1>3. QED
  BY <1>1, <1>2 DEF AsInt

-----------------------------------------------------------------------------
(* IndexFile's copy of the records' operators is that of module Records.   *)
LEMMA LoaderRecords ==
  /\ Loader!Bytes = Bytes /\ Loader!Width = Width
  /\ \A p : Loader!Pack(p) = Pack(p)
  /\ \A r : Loader!Unpack(r) = Unpack(r)
  /\ \A v : Loader!AsInt(v) = AsInt(v)
  /\ \A p, n : Loader!Leading(p, n) = Leading(p, n)
  BY DEF Loader!Bytes, Bytes, Loader!Width, Width, Loader!Pack, Pack,
         Loader!Unpack, Unpack, Loader!AsInt, AsInt, Loader!Leading, Leading

(* Taking the next byte of a packed position extends what was read of it;  *)
(* the fourth completes it.                                                *)
LEMMA NextByte ==
  ASSUME NEW p \in 0 .. Width - 1
  PROVE  /\ Pack(p)[1] = Leading(p, 1)
         /\ Leading(p, 1) * ByteBase + Pack(p)[2] = Leading(p, 2)
         /\ Leading(p, 2) * ByteBase + Pack(p)[3] = Leading(p, 3)
         /\ Leading(p, 3) * ByteBase + Pack(p)[4] = p
<1> DEFINE b == ByteBase
           q1 == p \div b
           q2 == p \div (b * b)
           q3 == p \div (b * b * b)
<1>1. /\ b \in Nat /\ b >= 2 /\ b * b \in Nat /\ b * b >= 2 /\ b * b * b \in Nat
      /\ b * b * b >= 2 /\ p \in Nat /\ p < (b * b * b) * b
  BY ByteBaseAssumption, SMT DEF Width
<1>2. Pack(p) = <<q3 % b, q2 % b, q1 % b, p % b>>
  BY DEF Pack
<1>3. q1 \div b = q2 /\ q2 \div b = q3
  BY <1>1, DivisionTwice
<1>4. q1 \in Nat /\ q2 \in Nat /\ q3 \in Nat /\ q3 < b
  BY <1>1, Division, QuotientBound
<1>5. p = q1 * b + (p % b) /\ q1 = q2 * b + (q1 % b) /\ q2 = q3 * b + (q2 % b)
  BY <1>1, <1>3, <1>4, Division
<1>6. q3 % b = q3
  BY <1>1, <1>4, SMT
<1>7. /\ Leading(p, 1) = q3 /\ Leading(p, 2) = q2
      /\ Leading(p, 3) = q1
  BY DEF Leading
<1> HIDE DEF b, q1, q2, q3
<1>8. /\ Pack(p)[1] = q3 /\ Pack(p)[2] = q2 % b /\ Pack(p)[3] = q1 % b
      /\ Pack(p)[4] = p % b
  BY <1>2, <1>6
<1>9. QED
  BY <1>5, <1>7, <1>8 DEF b

(* What was read of a position is a number, and a byte more than was read  *)
(* does not take it past the position.                                     *)
LEMMA LeadingBelow ==
  ASSUME NEW p \in 0 .. Width - 1, NEW n \in 1 .. 3
  PROVE  /\ Leading(p, n) \in Nat
         /\ Leading(p, n) * ByteBase <= p
<1> DEFINE b == ByteBase
           q1 == p \div b
           q2 == p \div (b * b)
           q3 == p \div (b * b * b)
<1>1. /\ b \in Nat /\ b >= 2 /\ b * b \in Nat /\ b * b >= 2 /\ b * b * b \in Nat
      /\ b * b * b >= 2 /\ p \in Nat
  BY ByteBaseAssumption, SMT DEF Width
<1>2. q1 \div b = q2 /\ q2 \div b = q3
  BY <1>1, DivisionTwice
<1>3. q1 \in Nat /\ q2 \in Nat /\ q3 \in Nat
  BY <1>1, Division
<1>4. /\ p % b \in Nat /\ p = q1 * b + (p % b)
      /\ q1 % b \in Nat /\ q1 = q2 * b + (q1 % b)
      /\ q2 % b \in Nat /\ q2 = q3 * b + (q2 % b)
  BY <1>1, <1>2, <1>3, Division
<1>5. /\ Leading(p, 1) = q3 /\ Leading(p, 2) = q2
      /\ Leading(p, 3) = q1
  BY DEF Leading
<1> HIDE DEF b, q1, q2, q3
<1>6. q1 * b <= p /\ q2 * b <= q1 /\ q3 * b <= q2
  <2>1. q1 * b \in Nat /\ q2 * b \in Nat /\ q3 * b \in Nat
    BY <1>1, <1>3
  <2>2. QED
    BY <1>1, <1>3, <1>4, <2>1
<1>7. q1 <= p /\ q2 <= q1
  <2>1. \A q \in Nat : q <= q * b
    BY <1>1, SMT
  <2>2. QED
    BY <1>1, <1>3, <1>6, <2>1
<1>8. q1 * b <= p /\ q2 * b <= p /\ q3 * b <= p
  BY <1>1, <1>3, <1>6, <1>7
<1>9. n = 1 \/ n = 2 \/ n = 3
  OBVIOUS
<1>10. QED
  BY <1>3, <1>5, <1>8, <1>9 DEF b


(* The number of whole records and the bytes of the next one.              *)
LEMMA WholeAndRest ==
  ASSUME NEW n \in Nat, NEW r \in 0 .. 3
  PROVE  (4 * n + r) \div 4 = n /\ (4 * n + r) % 4 = r
  BY SMT

(* The kinds of the values the proofs below take from the type invariant.  *)
LEMMA LoaderTyped ==
  ASSUME Loader!TypeOK
  PROVE  /\ Len(suffixes) \in Nat /\ written \in Nat /\ Len(file) \in Nat
         /\ Len(loaded) \in Nat /\ got \in 0 .. 3 /\ partial \in Nat
         /\ \A k \in 1 .. Len(suffixes) : suffixes[k] \in 0 .. Width - 1
<1>1. Width \in Nat /\ Loader!Width = Width
  BY ByteBaseAssumption, LoaderRecords DEF Width
<1>2. QED
  BY <1>1 DEF Loader!TypeOK

(* The four bytes of a record taken from the file.                         *)
LEMMA RecordAt ==
  ASSUME NEW S, NEW s \in Seq(S), NEW i \in Nat, 4 * i + 4 <= Len(s)
  PROVE  \A j \in 1 .. 4 : SubSeq(s, 4 * i + 1, 4 * i + 4)[j] = s[4 * i + j]
<1>1. ASSUME NEW a \in Nat, a + 4 <= Len(s), NEW j \in 1 .. 4
      PROVE  SubSeq(s, a + 1, a + 4)[j] = s[a + j]
  BY <1>1
<1>2. 4 * i \in Nat
  OBVIOUS
<1>3. QED
  BY <1>1, <1>2

(* A record written is appended byte by byte.                              *)
LEMMA WriteKeeps ==
  ASSUME Loader!IInv, Loader!WriteRecord
  PROVE  Loader!IInv'
<1> DEFINE p == suffixes[written + 1]
           r == Loader!Pack(p)
<1>1. /\ access = "write" /\ written < Len(suffixes)
      /\ written' = written + 1 /\ file' = file \o r
      /\ suffixes' = suffixes /\ loaded' = loaded /\ partial' = partial
      /\ got' = got /\ access' = access
  BY DEF Loader!WriteRecord
<1>2. /\ Loader!TypeOK /\ Loader!FileIsPacked /\ Loader!LoadedSoFar
      /\ written \in Nat /\ Len(suffixes) \in Nat /\ Len(file) = 4 * written
  BY <1>1, LoaderTyped DEF Loader!IInv, Loader!FileIsPacked
<1>3. written + 1 \in 1 .. Len(suffixes)
  BY <1>1, <1>2
<1>4. p \in 0 .. Width - 1
  BY <1>2, <1>3, LoaderTyped
<1> HIDE DEF p
<1>5. r \in Seq(Bytes) /\ Len(r) = 4
  <2>1. Pack(p) \in [1 .. 4 -> Bytes]
    BY <1>4, RoundTrip
  <2>2. QED
    <3>1. \A j \in 1 .. 4 : Pack(p)[j] \in Bytes
      BY <2>1
    <3>2. Pack(p) \in Seq(Bytes) /\ Len(Pack(p)) = 4
      BY <3>1 DEF Pack
    <3>3. QED
      BY <3>2, LoaderRecords
<1> HIDE DEF r
<1>6. /\ file' \in Seq(Bytes) /\ Len(file') = 4 * written + 4
      /\ \A k \in 1 .. 4 * written : file'[k] = file[k]
      /\ \A j \in 1 .. 4 : file'[4 * written + j] = r[j]
  <2>1. file \in Seq(Bytes) /\ 4 * written \in Nat
    BY <1>2, LoaderRecords DEF Loader!TypeOK
  <2>2. QED
    <3>1. /\ file \o r \in Seq(Bytes) /\ Len(file \o r) = Len(file) + 4
          /\ \A k \in 1 .. Len(file) : (file \o r)[k] = file[k]
          /\ \A j \in 1 .. 4 : (file \o r)[Len(file) + j] = r[j]
      <4>1. r \in Seq(Bytes) /\ file \in Seq(Bytes)
        BY <1>5, <2>1
      <4>2. file \o r \in Seq(Bytes) /\ Len(file \o r) = Len(file) + Len(r)
        BY <4>1
      <4>3. \A k \in 1 .. Len(file) : (file \o r)[k] = file[k]
        BY <4>1
      <4>4. \A j \in 1 .. Len(r) : (file \o r)[Len(file) + j] = r[j]
        BY <4>1
      <4>5. QED
        BY <1>5, <4>2, <4>3, <4>4, Zenon
    <3>2. QED
      BY <1>1, <1>2, <3>1, Zenon
<1>7. Len(file') = 4 * written'
  BY <1>1, <1>2, <1>6
<1>8. Loader!TypeOK'
  BY <1>1, <1>2, <1>3, <1>6, LoaderRecords DEF Loader!TypeOK
<1>9. Loader!FileIsPacked'
  <2>1. ASSUME NEW i \in 1 .. Len(suffixes), NEW j \in 1 .. 4,
               4 * (i - 1) + j <= 4 * written + 4
        PROVE  file'[4 * (i - 1) + j] = Loader!Pack(suffixes[i])[j]
    <3>1. CASE i <= written
      <4>1. 4 * (i - 1) + j \in 1 .. 4 * written /\ 4 * (i - 1) + j <= Len(file)
        BY <1>2, <3>1
      <4>2. file[4 * (i - 1) + j] = Loader!Pack(suffixes[i])[j]
        BY <1>2, <4>1 DEF Loader!FileIsPacked
      <4>3. QED
        BY <1>6, <4>1, <4>2
    <3>2. CASE i > written
      <4>1. i = written + 1 /\ 4 * (i - 1) + j = 4 * written + j
        BY <1>1, <1>2, <2>1, <3>2
      <4>2. r = Loader!Pack(suffixes[i])
        BY <4>1 DEF p, r
      <4>3. QED
        BY <1>6, <4>1, <4>2
    <3>3. QED
      BY <1>2, <3>1, <3>2
  <2>2. Len(file') <= 4 * written' /\ access' = "write"
    BY <1>1, <1>2, <1>7
  <2>3. QED
    BY <1>1, <1>6, <1>7, <2>1, <2>2 DEF Loader!FileIsPacked
<1>10. Loader!LoadedSoFar'
  <2>1. Loader!Offset' = 0
    BY <1>1, <1>2 DEF Loader!LoadedSoFar, Loader!Offset
  <2>2. Loader!Offset' <= Len(file')
    BY <1>2, <1>6, <2>1
  <2>3. QED
    BY <1>1, <1>2, <2>1, <2>2 DEF Loader!LoadedSoFar
<1>11. QED
  BY <1>1, <1>8, <1>9, <1>10 DEF Loader!IInv

(* Whatever prefix of the file reaches the disk, it is one of the records. *)
LEMMA CloseKeeps ==
  ASSUME Loader!IInv, Loader!Close
  PROVE  Loader!IInv'
<1>1. PICK n \in 0 .. Len(file) : file' = SubSeq(file, 1, n)
  BY DEF Loader!Close
<1>2. /\ access = "write" /\ written = Len(suffixes) /\ access' = "closed"
      /\ suffixes' = suffixes /\ written' = written /\ loaded' = loaded
      /\ partial' = partial /\ got' = got
  BY DEF Loader!Close
<1>3. /\ Loader!TypeOK /\ Loader!FileIsPacked /\ Loader!LoadedSoFar
      /\ file \in Seq(Bytes) /\ Len(file) \in Nat /\ Len(file) = 4 * written
      /\ Len(suffixes) \in Nat
  BY <1>2, LoaderRecords DEF Loader!IInv, Loader!TypeOK, Loader!FileIsPacked
<1>4. /\ file' \in Seq(Bytes) /\ Len(file') = n
      /\ \A k \in 1 .. n : file'[k] = file[k]
  BY <1>1, <1>3
<1>5. Loader!TypeOK'
  BY <1>2, <1>3, <1>4, LoaderRecords DEF Loader!TypeOK
<1>6. Loader!FileIsPacked'
  <2>1. ASSUME NEW i \in 1 .. Len(suffixes), NEW j \in 1 .. 4, 4 * (i - 1) + j <= n
        PROVE  file'[4 * (i - 1) + j] = Loader!Pack(suffixes[i])[j]
    <3>1. 4 * (i - 1) + j \in 1 .. n /\ 4 * (i - 1) + j <= Len(file)
      BY <1>3, <2>1
    <3>2. file[4 * (i - 1) + j] = Loader!Pack(suffixes[i])[j]
      BY <1>3, <3>1 DEF Loader!FileIsPacked
    <3>3. QED
      BY <1>4, <3>1, <3>2
  <2>2. QED
    BY <1>2, <1>3, <1>4, <2>1 DEF Loader!FileIsPacked
<1>7. Loader!LoadedSoFar'
  BY <1>2, <1>3, <1>4 DEF Loader!LoadedSoFar, Loader!Offset, Loader!TypeOK
<1>8. QED
  BY <1>2, <1>5, <1>6, <1>7 DEF Loader!IInv

(* The byte read next is one of the record of the next element.            *)
LEMMA ByteRead ==
  ASSUME Loader!IInv, access = "read", Loader!Offset < Len(file)
  PROVE  /\ Len(loaded) + 1 \in 1 .. Len(suffixes)
         /\ suffixes[Len(loaded) + 1] \in 0 .. Width - 1
         /\ file[Loader!Offset + 1] = Pack(suffixes[Len(loaded) + 1])[got + 1]
<1>1. /\ Loader!TypeOK /\ Loader!FileIsPacked /\ written = Len(suffixes)
      /\ Len(loaded) \in Nat /\ got \in 0 .. 3 /\ Len(file) \in Nat
      /\ Len(suffixes) \in Nat /\ suffixes \in Seq(0 .. Width - 1)
  BY LoaderRecords DEF Loader!IInv, Loader!TypeOK, Loader!FileIsPacked
<1>2. 4 * Len(loaded) + got < Len(file) /\ Len(file) <= 4 * Len(suffixes)
  BY <1>1 DEF Loader!FileIsPacked, Loader!Offset
<1> DEFINE i == Len(loaded) + 1
<1>3. i \in 1 .. Len(suffixes)
  BY <1>1, <1>2
<1>4. got + 1 \in 1 .. 4 /\ 4 * (i - 1) + (got + 1) <= Len(file)
      /\ 4 * (i - 1) + (got + 1) = Loader!Offset + 1
  BY <1>1, <1>2 DEF Loader!Offset
<1> HIDE DEF i
<1>5. file[4 * (i - 1) + (got + 1)] = Pack(suffixes[i])[got + 1]
  BY <1>1, <1>3, <1>4, LoaderRecords DEF Loader!FileIsPacked
<1>6. suffixes[i] \in 0 .. Width - 1
  BY <1>1, <1>3, LoaderTyped
<1>7. file[Loader!Offset + 1] = Pack(suffixes[i])[got + 1]
  BY <1>4, <1>5
<1>8. QED
  BY <1>3, <1>6, <1>7 DEF i

(* Reading a byte extends the element being read or completes it.          *)
LEMMA ReadKeeps ==
  ASSUME Loader!IInv, Loader!ReadByte
  PROVE  Loader!IInv'
<1> DEFINE i == Len(loaded) + 1
           p == suffixes[i]
           v == partial * ByteBase + file[Loader!Offset + 1]
<1>1. /\ access = "read" /\ Loader!Offset < Len(file)
      /\ suffixes' = suffixes /\ written' = written /\ file' = file /\ access' = access
      /\ IF got < 3 THEN partial' = v /\ got' = got + 1 /\ loaded' = loaded
                    ELSE partial' = 0 /\ got' = 0 /\ loaded' = Append(loaded, v)
  BY DEF Loader!ReadByte
<1>2. /\ i \in 1 .. Len(suffixes) /\ p \in 0 .. Width - 1
      /\ file[Loader!Offset + 1] = Pack(p)[got + 1]
  BY <1>1, ByteRead
<1>3. /\ Loader!TypeOK /\ Loader!FileIsPacked /\ Loader!LoadedSoFar
      /\ loaded \in Seq(Nat) /\ Len(loaded) \in Nat /\ got \in 0 .. 3
      /\ partial \in Nat /\ Len(file) \in Nat
      /\ partial = IF got = 0 THEN 0 ELSE Leading(p, got)
      /\ \A k \in 1 .. Len(loaded) : loaded[k] = suffixes[k]
  BY <1>1, LoaderRecords DEF Loader!IInv, Loader!TypeOK, Loader!LoadedSoFar
<1>4. v = IF got < 3 THEN Leading(p, got + 1) ELSE p
  <2>1. ByteBase \in Nat /\ Pack(p)[1] \in Nat
    BY <1>2, RoundTrip, ByteBaseAssumption DEF Bytes
  <2>2. got = 0 \/ got = 1 \/ got = 2 \/ got = 3
    BY <1>3
  <2>3. v = partial * ByteBase + Pack(p)[got + 1]
    BY <1>2
  <2> HIDE DEF v, p, i
  <2>4. CASE got = 0
    <3>1. partial * ByteBase = 0
      BY <1>3, <2>1, <2>4
    <3>2. QED
      BY <1>2, <2>1, <2>3, <2>4, <3>1, NextByte
  <2>5. CASE got = 1
    BY <1>2, <1>3, <2>3, <2>5, NextByte
  <2>6. CASE got = 2
    BY <1>2, <1>3, <2>3, <2>6, NextByte
  <2>7. CASE got = 3
    BY <1>2, <1>3, <2>3, <2>7, NextByte
  <2>8. QED
    BY <2>2, <2>4, <2>5, <2>6, <2>7
<1>5. Loader!FileIsPacked'
  BY <1>1, <1>3 DEF Loader!FileIsPacked
<1>6. CASE got < 3
  <2>1. /\ partial' = Leading(p, got') /\ got' = got + 1 /\ got' \in 1 .. 3
        /\ loaded' = loaded
    BY <1>1, <1>3, <1>4, <1>6
  <2>2. partial' \in Nat
    BY <1>2, <2>1, LeadingBelow
  <2> HIDE DEF v, p
  <2>3. Loader!TypeOK'
    BY <1>1, <1>3, <2>1, <2>2 DEF Loader!TypeOK
  <2>4. Loader!LoadedSoFar'
    <3>1. Loader!Offset' = Loader!Offset + 1
      BY <1>3, <2>1 DEF Loader!Offset
    <3>2. Loader!Offset' <= Len(file')
      BY <1>1, <1>3, <3>1 DEF Loader!Offset
    <3>3. QED
      BY <1>1, <1>3, <2>1, <3>2, LoaderRecords DEF Loader!LoadedSoFar, p
  <2>5. QED
    BY <1>1, <1>5, <2>3, <2>4 DEF Loader!IInv
<1>7. CASE got = 3
  <2>1. partial' = 0 /\ got' = 0 /\ loaded' = Append(loaded, p) /\ p \in Nat
    BY <1>1, <1>2, <1>4, <1>7
  <2> HIDE DEF v, p
  <2>2. /\ loaded' \in Seq(Nat) /\ Len(loaded') = i
        /\ \A k \in 1 .. Len(loaded) : loaded'[k] = loaded[k]
        /\ loaded'[i] = p
    BY <1>3, <2>1
  <2>3. Loader!TypeOK'
    BY <1>1, <1>3, <2>1, <2>2 DEF Loader!TypeOK
  <2>4. Loader!LoadedSoFar'
    <3>1. Loader!Offset' = Loader!Offset + 1
      BY <1>3, <1>7, <2>1, <2>2 DEF Loader!Offset
    <3>2. Loader!Offset' <= Len(file')
      BY <1>1, <1>3, <3>1 DEF Loader!Offset
    <3>3. \A k \in 1 .. i : loaded'[k] = suffixes[k]
      BY <1>3, <2>2 DEF p
    <3>4. QED
      BY <1>1, <2>1, <2>2, <3>2, <3>3 DEF Loader!LoadedSoFar
  <2>5. QED
    BY <1>1, <1>5, <2>3, <2>4 DEF Loader!IInv
<1>8. QED
  BY <1>3, <1>6, <1>7

(* The read that finds the end pushes what was read so far once more.      *)
LEMMA EndKeeps ==
  ASSUME Loader!IInv, Loader!ReadPastEnd
  PROVE  Loader!IInv'
<1>1. /\ access = "read" /\ Loader!Offset = Len(file) /\ access' = "loaded"
      /\ loaded' = Append(loaded, partial * ByteBase) /\ partial' = 0 /\ got' = 0
      /\ suffixes' = suffixes /\ written' = written /\ file' = file
  BY DEF Loader!ReadPastEnd
<1>2. /\ Loader!TypeOK /\ Loader!FileIsPacked /\ Loader!LoadedSoFar
      /\ loaded \in Seq(Nat) /\ Len(loaded) \in Nat /\ got \in 0 .. 3
      /\ partial \in Nat /\ Len(file) \in Nat
  BY <1>1 DEF Loader!IInv, Loader!TypeOK
<1>3. partial * ByteBase \in Nat
  BY <1>2, ByteBaseAssumption
<1> DEFINE v == partial * ByteBase
<1> HIDE DEF v
<1>4. /\ loaded' \in Seq(Nat) /\ Len(loaded') = Len(loaded) + 1
      /\ \A k \in 1 .. Len(loaded) : loaded'[k] = loaded[k]
      /\ loaded'[Len(loaded) + 1] = v
  <2>1. v \in Nat /\ loaded' = Append(loaded, v)
    BY <1>1, <1>3 DEF v
  <2>2. QED
    BY <1>2, <2>1
<1>5. Len(file) \div 4 = Len(loaded) /\ Len(file) % 4 = got
  BY <1>1, <1>2, WholeAndRest DEF Loader!Offset
<1>6. v = IF got = 0 THEN 0 ELSE Leading(suffixes[Len(loaded) + 1], got) * ByteBase
  BY <1>2, ByteBaseAssumption, LoaderRecords DEF v, Loader!LoadedSoFar
<1>7. Loader!LoadedAll'
  BY <1>1, <1>2, <1>4, <1>5, <1>6, LoaderRecords DEF Loader!LoadedAll, Loader!LoadedSoFar
<1>8. Loader!TypeOK' /\ Loader!FileIsPacked'
  BY <1>1, <1>2, <1>4 DEF Loader!TypeOK, Loader!FileIsPacked
<1>9. QED
  BY <1>1, <1>7, <1>8 DEF Loader!IInv

(* The file is being written, closed or loaded, or is not this behaviour's *)
(* business.                                                               *)
LoaderInvariant == access = "none" \/ Loader!IInv

(* The file holds the records of a prefix of the suffix set, and what has  *)
(* been loaded of it is those entries.                                     *)
THEOREM LoaderInductive == ReadersSpec => []LoaderInvariant
<1>1. ReadersInit => LoaderInvariant
  <2> SUFFICES ASSUME Loader!Init PROVE Loader!IInv
    BY DEF ReadersInit, NoAccess, LoaderInvariant
  <2>1. suffixes \in Seq(0 .. Loader!Width - 1)
    <3>1. PICK n \in 0 .. FileRecords :
                 suffixes \in [1 .. n -> FilePositions \intersect 0 .. Loader!Width - 1]
      BY DEF Loader!Init
    <3>2. n \in Nat /\ suffixes \in [1 .. n -> 0 .. Loader!Width - 1]
      BY <3>1, FileRecordsAssumption
    <3>3. Loader!Width \in Int
      BY ByteBaseAssumption, LoaderRecords DEF Width
    <3>4. QED
      BY <3>2, <3>3
  <2>2. Len(suffixes) \in Nat
    BY <2>1
  <2>3. Loader!TypeOK
    BY <2>1, <2>2 DEF Loader!Init, Loader!TypeOK
  <2>4. Loader!FileIsPacked
    BY <2>2 DEF Loader!Init, Loader!FileIsPacked
  <2>5. Loader!LoadedSoFar
    BY DEF Loader!Init, Loader!LoadedSoFar, Loader!Offset
  <2>6. QED
    BY <2>3, <2>4, <2>5 DEF Loader!IInv, Loader!Init
<1>2. LoaderInvariant /\ [Loader!Next]_fileVars => LoaderInvariant'
  <2>1. CASE access = "none"
    BY <2>1 DEF LoaderInvariant, fileVars, Loader!Next, Loader!WriteRecord, Loader!Close,
                Loader!StartLoad, Loader!ReadByte, Loader!ReadPastEnd
  <2>2. ASSUME Loader!IInv, Loader!StartLoad
        PROVE  Loader!IInv'
    <3>1. /\ access = "closed" /\ access' = "read" /\ suffixes' = suffixes
          /\ written' = written /\ file' = file /\ loaded' = loaded
          /\ partial' = partial /\ got' = got
      BY <2>2 DEF Loader!StartLoad
    <3>2. Loader!TypeOK' /\ Loader!FileIsPacked' /\ Loader!LoadedSoFar'
      BY <2>2, <3>1 DEF Loader!IInv, Loader!TypeOK, Loader!FileIsPacked,
                        Loader!LoadedSoFar, Loader!Offset
    <3>3. QED
      BY <3>1, <3>2 DEF Loader!IInv
  <2>3. ASSUME Loader!IInv, UNCHANGED fileVars
        PROVE  Loader!IInv'
    BY <2>3 DEF fileVars, Loader!IInv, Loader!TypeOK, Loader!FileIsPacked,
                Loader!LoadedSoFar, Loader!LoadedAll, Loader!Offset
  <2>4. QED
    BY <2>1, <2>2, <2>3, WriteKeeps, CloseKeeps, ReadKeeps, EndKeeps
       DEF LoaderInvariant, Loader!Next
<1>3. QED
  BY <1>1, <1>2, OneReaderSteps, PTL DEF ReadersSpec

(* load_index gives every whole record of the file and one element more,   *)
(* within the text; both readers of the file give the position written.    *)
THEOREM LoadedWithOneMore == ReadersSpec => []LoadsOneMore
<1>1. ASSUME Loader!IInv, access = "loaded"
      PROVE  LoadsOneMore
  <2> DEFINE whole == Len(file) \div 4
  <2>1. /\ Loader!TypeOK /\ Loader!FileIsPacked /\ Loader!LoadedAll
        /\ suffixes \in Seq(0 .. Width - 1) /\ Len(suffixes) \in Nat
        /\ file \in Seq(Bytes) /\ Len(file) \in Nat
        /\ Len(file) <= 4 * Len(suffixes)
    <3> HIDE DEF whole
    <3>1. Loader!TypeOK /\ Loader!FileIsPacked /\ Loader!LoadedAll
      BY <1>1 DEF Loader!IInv
    <3>2. suffixes \in Seq(0 .. Width - 1) /\ Len(suffixes) \in Nat
      BY <3>1, LoaderRecords DEF Loader!TypeOK
    <3>3. file \in Seq(Bytes) /\ Len(file) \in Nat
      BY <3>1, LoaderRecords DEF Loader!TypeOK
    <3>4. written \in 0 .. Len(suffixes) /\ Len(file) <= 4 * written
      BY <3>1 DEF Loader!TypeOK, Loader!FileIsPacked
    <3>5. Len(file) <= 4 * Len(suffixes)
      BY <3>2, <3>3, <3>4
    <3> QED BY <3>1, <3>2, <3>3, <3>5
  <2>2. /\ whole \in Nat /\ 4 * whole <= Len(file) /\ Len(file) < 4 * whole + 4
        /\ Len(file) % 4 \in 0 .. 3 /\ whole <= Len(suffixes)
        /\ Len(file) % 4 # 0 => whole < Len(suffixes)
    BY <2>1
  <2>3. Loader!LoadsOneMore
    BY <2>1 DEF Loader!LoadsOneMore, Loader!LoadedAll, Loader!WholeRecords
  <2>4. Loader!CutRecordStaysInText
    <3> SUFFICES ASSUME whole < Len(suffixes)
                 PROVE  loaded[whole + 1] <= suffixes[whole + 1]
      BY DEF Loader!CutRecordStaysInText, Loader!WholeRecords
    <3>1. suffixes[whole + 1] \in 0 .. Width - 1
      <4>1. whole + 1 \in 1 .. Len(suffixes)
        BY <2>1, <2>2
      <4>2. QED
        BY <2>1, <4>1, LoaderTyped
    <3>2. Width \in Nat
      BY ByteBaseAssumption DEF Width
    <3>3. CASE Len(file) % 4 = 0
      BY <2>1, <3>1, <3>2, <3>3 DEF Loader!LoadedAll
    <3>4. CASE Len(file) % 4 # 0
      <4>1. Len(file) % 4 \in 1 .. 3
        BY <2>2, <3>4
      <4>2. loaded[whole + 1] = Leading(suffixes[whole + 1], Len(file) % 4) * ByteBase
        BY <2>1, <3>4, LoaderRecords DEF Loader!LoadedAll
      <4>3. QED
        BY <3>1, <4>1, <4>2, LeadingBelow
    <3>5. QED
      BY <3>3, <3>4
  <2>5. Loader!ReadersAgree
    <3> SUFFICES ASSUME NEW i \in 0 .. whole - 1
                 PROVE  /\ Loader!GetPositionLua(i) = suffixes[i + 1]
                        /\ 2 * suffixes[i + 1] < Loader!Width =>
                             Loader!GetPosition(i) = Loader!GetPositionLua(i)
      BY DEF Loader!ReadersAgree, Loader!WholeRecords
    <3> DEFINE p == suffixes[i + 1]
               record == SubSeq(file, 4 * i + 1, 4 * i + 4)
    <3>1. i + 1 \in 1 .. Len(suffixes) /\ i + 1 \in 1 .. whole /\ 4 * i + 4 <= Len(file)
      BY <2>1, <2>2
    <3>2. p \in 0 .. Width - 1 /\ loaded[i + 1] = p
      BY <2>1, <3>1, LoaderTyped DEF Loader!LoadedAll
    <3>3. \A j \in 1 .. 4 : record[j] = file[4 * i + j]
      <4>1. i \in Nat /\ 4 * i + 4 <= Len(file)
        BY <2>1, <3>1
      <4>2. QED
        BY <2>1, <4>1, RecordAt
    <3> HIDE DEF record
    <3>4. \A j \in 1 .. 4 : file[4 * i + j] = Pack(p)[j]
      <4> SUFFICES ASSUME NEW j \in 1 .. 4
                   PROVE  file[4 * i + j] = Pack(p)[j]
        OBVIOUS
      <4>1. 4 * ((i + 1) - 1) + j = 4 * i + j /\ 4 * i + j <= Len(file)
        BY <2>1, <3>1
      <4>2. QED
        BY <2>1, <3>1, <4>1, LoaderRecords DEF Loader!FileIsPacked
    <3>5. Unpack(record) = Unpack(Pack(p))
      <4>1. /\ record[1] = Pack(p)[1] /\ record[2] = Pack(p)[2]
            /\ record[3] = Pack(p)[3] /\ record[4] = Pack(p)[4]
        BY <3>3, <3>4
      <4>2. QED
        BY <4>1 DEF Unpack
    <3>6. Loader!GetPositionLua(i) = p
      BY <3>2, <3>5, RoundTrip, LoaderRecords DEF Loader!GetPositionLua, record
    <3>7. 2 * p < Loader!Width => Loader!GetPosition(i) = p
      BY <3>2, IntHoldsLowerHalf, LoaderRecords DEF Loader!GetPosition
    <3>8. QED
      BY <3>6, <3>7
  <2>6. QED
    BY <2>3, <2>4, <2>5 DEF LoadsOneMore
<1>2. ASSUME access # "loaded"
      PROVE  LoadsOneMore
  BY <1>2 DEF LoadsOneMore, Loader!LoadsOneMore, Loader!CutRecordStaysInText,
              Loader!ReadersAgree
<1>3. LoaderInvariant => LoadsOneMore
  BY <1>1, <1>2 DEF LoaderInvariant
<1>4. QED
  BY <1>3, LoaderInductive, PTL

-----------------------------------------------------------------------------
(* The search in memory (module MemorySearch).                             *)

(* The instance's operators on texts are those of module SourceText.       *)
LEMMA SameOrders ==
  /\ \A s, t : Memory!LexLess(s, t) <=> LexLess(s, t)
  /\ \A s : Memory!Lowered(s) = Lowered(s)
  /\ \A s, t : Memory!CaseLess(s, t) <=> CaseLess(s, t)
  BY DEF Memory!LexLess, LexLess, Memory!Lowered, Lowered, Memory!Lower, Lower,
         Memory!Letters, Letters, Memory!CaseLess, CaseLess

(* So are its reads of a text.                                             *)
LEMMA SameReads ==
  /\ \A text, p : Memory!CString(text, p) = CString(text, p)
  /\ \A text, p, n : Memory!ReadAt(text, p, n) = ReadAt(text, p, n)
  /\ \A text, p : Memory!ReadLine(text, p) = ReadLine(text, p)
  /\ \A text : Memory!LoadedText(text) = LoadedText(text)
  /\ \A text : Memory!HasNoNUL(text) <=> HasNoNUL(text)
  /\ \A text : Memory!Starts(text) = Starts(text)
<1>1. \A text, p : Memory!CString(text, p) = CString(text, p)
  BY DEF Memory!CString, CString, Memory!NUL, NUL
<1>2. \A text, p, n : Memory!ReadAt(text, p, n) = ReadAt(text, p, n)
  BY DEF Memory!ReadAt, ReadAt
<1>3. \A text, p : Memory!ReadLine(text, p) = ReadLine(text, p)
  BY DEF Memory!ReadLine, ReadLine, Memory!LineEnd, LineEnd, Memory!Newline, Newline
<1>4. \A text : Memory!LoadedText(text) = LoadedText(text)
  BY DEF Memory!LoadedText, LoadedText, Memory!Blank, Blank, Memory!Space, Space
<1>5. \A text : Memory!HasNoNUL(text) <=> HasNoNUL(text)
  BY DEF Memory!HasNoNUL, HasNoNUL, Memory!NUL, NUL
<1>6. \A text : Memory!Starts(text) = Starts(text)
  BY DEF Memory!Starts, Starts, Memory!UTF8Filter, UTF8Filter
<1>7. QED
  BY <1>1, <1>2, <1>3, <1>4, <1>5, <1>6

(* And its order and index of a text.                                      *)
LEMMA SameIndex ==
  /\ \A text, p, q : Memory!SuffixLess(text, p, q) <=> SuffixLess(text, p, q)
  /\ \A text : Memory!SuffixArray(text) = SuffixArray(text)
<1>1. \A text, p, q : Memory!SuffixLess(text, p, q) <=> SuffixLess(text, p, q)
  BY SameOrders, SameReads DEF Memory!SuffixLess, SuffixLess
<1>2. ASSUME NEW text PROVE Memory!SuffixArray(text) = SuffixArray(text)
  BY Zenon DEF Memory!SuffixArray, SuffixArray, Memory!Ordered, Ordered,
       Memory!Cardinality, Cardinality, Memory!Starts, Starts,
       Memory!UTF8Filter, UTF8Filter, Memory!SuffixLess, SuffixLess,
       Memory!CaseLess, CaseLess, Memory!CString, CString, Memory!NUL, NUL,
       Memory!LexLess, LexLess, Memory!Lowered, Lowered, Memory!Lower, Lower,
       Memory!Letters, Letters
<1>3. QED
  BY <1>1, <1>2

(* One probe of a range that the last element, wherever it belongs, may    *)
(* mislead: Low has the places whose elements are on the left side; they are *)
(* the first ones, but for the last element.  Left of the range are places *)
(* of Low, except perhaps the last but one, and right of it there are none.  *)
InRange(Low, n, f, l) ==
  /\ f + l <= n
  /\ \A k \in 0 .. n - 2 :
       /\ k < f /\ k < n - 2 => k \in Low
       /\ f + l <= k => k \notin Low

(* One probe of a standard algorithm, whichever half it keeps, leaves the  *)
(* bracket where it should be.                                             *)
LEMMA ProbeKeepsRange ==
  ASSUME NEW n \in Nat, n > 0, NEW Low, NEW f \in Nat, NEW l \in Nat, l > 0,
         \A j, k \in 0 .. n - 2 : j < k /\ k \in Low => j \in Low,
         InRange(Low, n, f, l)
  PROVE  LET m == f + l \div 2
         IN  /\ m \in 0 .. n - 1
             /\ l - l \div 2 - 1 \in Nat /\ l \div 2 \in Nat
             /\ m \in Low => InRange(Low, n, m + 1, l - l \div 2 - 1)
             /\ m \notin Low => InRange(Low, n, f, l \div 2)
<1> DEFINE h == l \div 2
           m == f + h
<1>1. h \in Nat /\ h < l /\ 2 * h <= l /\ l <= 2 * h + 1
  OBVIOUS
<1> HIDE DEF h
<1>2. m \in 0 .. n - 1 /\ l - h - 1 \in Nat /\ m < f + l
  BY <1>1 DEF InRange
<1>3. ASSUME m \in Low PROVE InRange(Low, n, m + 1, l - h - 1)
  <2>1. (m + 1) + (l - h - 1) = f + l
    BY <1>1
  <2>2. ASSUME NEW k \in 0 .. n - 2, k < m + 1, k < n - 2
        PROVE  k \in Low
    <3>1. CASE m <= n - 2
      BY <1>2, <1>3, <2>2, <3>1
    <3>2. CASE m = n - 1
      <4>1. k < f
        BY <1>1, <1>2, <2>2, <3>2 DEF InRange
      <4>2. QED
        BY <2>2, <4>1 DEF InRange
    <3>3. QED
      BY <1>2, <3>1, <3>2
  <2>3. QED
    BY <2>1, <2>2 DEF InRange
<1>4. ASSUME m \notin Low PROVE InRange(Low, n, f, h)
  <2>1. ASSUME NEW k \in 0 .. n - 2, f + h <= k
        PROVE  k \notin Low
    BY <1>2, <1>4, <2>1
  <2>2. f + h <= n
    BY <1>1 DEF InRange
  <2>3. QED
    BY <2>1, <2>2 DEF InRange
<1>5. QED
  BY <1>1, <1>2, <1>3, <1>4 DEF h

(* A sequence of some of the bytes is a sequence of bytes.                 *)
LEMMA SomeBytes ==
  ASSUME NEW S, S \subseteq Byte, NEW s \in Seq(S)
  PROVE  s \in Seq(Byte) /\ \A k \in 1 .. Len(s) : s[k] \in S
<1>1. \A k \in 1 .. Len(s) : s[k] \in S
  OBVIOUS
<1>2. s \in [1 .. Len(s) -> Byte] /\ Len(s) \in Nat
  BY <1>1
<1>3. QED
  BY <1>1, <1>2

(* The texts and words are sequences of bytes.                             *)
LEMMA SourceIsUTF8 ==
  ASSUME Memory!TypeOK
  PROVE  source \in Seq(Byte) /\ IsUTF8(source) /\ HasNoNUL(source)
<1>1. source \in Seq(0 .. 254) /\ HasNoNUL(source)
  BY FilesAssumption, SameReads DEF Memory!TypeOK
<1>2. /\ source \in Seq(Byte)
      /\ \A k \in 1 .. Len(source) : source[k] \in 0 .. 254
  <2>1. 0 .. 254 \subseteq Byte
    BY DEF Byte
  <2>2. QED
    BY <1>1, <2>1, SomeBytes
<1>3. \A k \in 1 .. Len(source) : source[k] # 255
  <2>1. \A b \in 0 .. 254 : b # 255
    OBVIOUS
  <2>2. QED
    BY <1>2, <2>1, Zenon
<1>4. QED
  BY <1>1, <1>2, <1>3 DEF IsUTF8

(* Words are bytes without NUL and newline.                                *)
LEMMA WordIsBytes ==
  ASSUME NEW w \in Words
  PROVE  /\ w \in Seq(Byte) /\ Append(w, 255) \in Seq(Byte)
         /\ \A k \in 1 .. Len(w) : w[k] # Newline
<1>1. w \in Seq((1 .. 255) \ {10})
  BY WordsAssumption
<1>2. w \in Seq(Byte) /\ \A k \in 1 .. Len(w) : w[k] \in (1 .. 255) \ {10}
  <2>1. (1 .. 255) \ {10} \subseteq Byte
    BY DEF Byte
  <2>2. QED
    BY <1>1, <2>1, SomeBytes
<1>3. \A k \in 1 .. Len(w) : w[k] # Newline
  BY <1>2 DEF Newline
<1>4. Append(w, 255) \in Seq(Byte)
  BY <1>2, LoweredTop
<1>5. QED
  BY <1>2, <1>3, <1>4

(* The loaded text and the suffixes that the records stand for.            *)
LEMMA LoadedIndex ==
  ASSUME Memory!TypeOK, Memory!RecordsInOrder
  PROVE  /\ src = LoadedText(source) /\ src \in Seq(Byte)
         /\ HasNoNUL(src) /\ IsUTF8(src) /\ Len(src) <= Len(source)
         /\ Len(index) \in Nat /\ Len(index) > 0
         /\ \A k \in 0 .. Len(index) - 1 : index[k + 1] \in 0 .. Len(src)
<1>1. src = LoadedText(source) /\ index \in Seq(0 .. Len(src)) /\ Len(index) > 0
  BY SameReads DEF Memory!RecordsInOrder
<1>2. src \in Seq(Byte) /\ HasNoNUL(src) /\ IsUTF8(src) /\ Len(src) <= Len(source)
  BY <1>1, SourceIsUTF8, LoadedType, LoadedKeeps
<1>3. QED
  BY <1>1, <1>2

(* The words below which, and above which, the suffixes are: those of a    *)
(* beginning, and of an end, of the records in order.                      *)
LEMMA BelowIsFirst ==
  ASSUME Memory!TypeOK, Memory!RecordsInOrder, pat \in Words,
         NEW j \in 0 .. Len(index) - 2, NEW k \in 0 .. Len(index) - 2, j < k
  PROVE  /\ Memory!Below(k) => Memory!Below(j)
         /\ Memory!Above(j) => Memory!Above(k)
<1> DEFINE p == index[j + 1]
           q == index[k + 1]
           s == Lowered(CString(src, p))
           t == Lowered(CString(src, q))
           w == Lowered(pat)
           v == Lowered(Append(pat, 255))
<1>1. SuffixLess(src, p, q)
  BY SameIndex DEF Memory!RecordsInOrder, Memory!Extra
<1>2. src \in Seq(Byte) /\ p \in 0 .. Len(src) /\ q \in 0 .. Len(src)
  BY LoadedIndex
<1>3. s \in Seq(Byte) /\ t \in Seq(Byte) /\ w \in Seq(Byte) /\ v \in Seq(Byte)
  BY <1>2, WordIsBytes, CStringType, LoweredType
<1>4. /\ Memory!Below(k) <=> LexLess(t, w)
      /\ Memory!Below(j) <=> LexLess(s, w)
      /\ Memory!Above(k) <=> LexLess(v, t)
      /\ Memory!Above(j) <=> LexLess(v, s)
  BY SameOrders, SameReads, Zenon
  DEF Memory!Below, Memory!Above, Memory!Suffix, CaseLess
<1>5. LexLess(s, t)
  BY <1>1 DEF SuffixLess, CaseLess
<1> HIDE DEF s, t, w, v, p, q
<1>6. QED
  BY <1>3, <1>4, <1>5, LessTransitive

(* A word occurs at a record just when its suffix is neither below the     *)
(* word nor above all that begin with it.                                  *)
LEMMA OccursUnlessOutside ==
  ASSUME Memory!TypeOK, Memory!RecordsInOrder, pat \in Words,
         NEW k \in 0 .. Len(index) - 1
  PROVE  Memory!Occurs(k) <=> ~ Memory!Below(k) /\ ~ Memory!Above(k)
<1> DEFINE p == index[k + 1]
<1>1. src \in Seq(Byte) /\ IsUTF8(src) /\ p \in 0 .. Len(src) /\ pat \in Seq(Byte)
  BY LoadedIndex, WordIsBytes
<1>2. Lowered(ReadAt(src, p, Len(pat))) = Lowered(pat) <=>
        ~ CaseLess(CString(src, p), pat) /\ ~ CaseLess(Append(pat, 255), CString(src, p))
  BY <1>1, OccursBetween
<1>3. /\ Memory!Occurs(k) <=> Lowered(ReadAt(src, p, Len(pat))) = Lowered(pat)
      /\ Memory!Below(k) <=> CaseLess(CString(src, p), pat)
      /\ Memory!Above(k) <=> CaseLess(Append(pat, 255), CString(src, p))
  BY SameOrders, SameReads, Zenon
  DEF Memory!Occurs, Memory!Below, Memory!Above, Memory!Suffix
<1>4. QED
  BY <1>2, <1>3

(* What only changes the probes leaves the text, the records and what the  *)
(* word's verdicts on them are.                                            *)
LEMMA VerdictsStay ==
  ASSUME Memory!RecordsInOrder, UNCHANGED <<source, src, index, pat>>
  PROVE  /\ Memory!RecordsInOrder'
         /\ \A k : (Memory!Below(k)' <=> Memory!Below(k))
         /\ \A k : (Memory!Above(k)' <=> Memory!Above(k))
<1>1. Memory!RecordsInOrder'
  BY DEF Memory!RecordsInOrder, Memory!Extra
<1>2. \A k : (Memory!Below(k)' <=> Memory!Below(k))
  BY DEF Memory!Below, Memory!Suffix
<1>3. \A k : (Memory!Above(k)' <=> Memory!Above(k))
  BY DEF Memory!Above, Memory!Suffix
<1>4. QED
  BY <1>1, <1>2, <1>3

(* MemorySearch's copy of the records' operators is that of Records.       *)
LEMMA SameLeading ==
  \A p, n : Memory!Leading(p, n) = Leading(p, n)
  BY DEF Memory!Leading, Leading

(* The made-up record comes after records in order, or after some of them. *)
LEMMA LoadKeeps ==
  ASSUME Memory!IInv, Memory!LoadIndex
  PROVE  Memory!IInv'
<1> DEFINE t == LoadedText(source)
           a == SuffixArray(t)
<1>1. Memory!TypeOK /\ search' = "ready" /\ src' = t
      /\ UNCHANGED <<source, pat, first, len, lb, ub, row, results>>
  BY SameReads DEF Memory!IInv, Memory!LoadIndex
<1>2. PICK n \in 0 .. Len(a), rest \in 0 .. 3 :
             /\ n = Len(a) => rest = 0
             /\ index' = Append(SubSeq(a, 1, n),
                                IF rest = 0 THEN 0 ELSE Leading(a[n + 1], rest) * ByteBase)
  BY SameReads, SameIndex, SameLeading DEF Memory!LoadIndex
<1>3. t \in Seq(Byte) /\ HasNoNUL(t)
  BY <1>1, SourceIsUTF8, LoadedType, LoadedKeeps
<1>4. /\ a \in Seq(Starts(t))
      /\ \A k, l \in 1 .. Len(a) : k < l => SuffixLess(t, a[k], a[l])
  BY <1>3, SuffixArrayOrdered
<1>5. Starts(t) \subseteq 0 .. Len(t) /\ 0 \in 0 .. Len(t)
  BY <1>3 DEF Starts
<1> HIDE DEF t, a
<1> DEFINE b == SubSeq(a, 1, n)
           e == IF rest = 0 THEN 0 ELSE Leading(a[n + 1], rest) * ByteBase
<1>6. e \in 0 .. Len(t)
  <2>1. CASE rest = 0
    BY <1>5, <2>1
  <2>2. CASE rest # 0
    <3>1. n + 1 \in 1 .. Len(a) /\ rest \in 1 .. 3
      BY <1>2, <1>4, <2>2
    <3>2. a[n + 1] \in 0 .. Len(t)
      BY <1>4, <1>5, <3>1
    <3>3. Len(t) \in Nat /\ a[n + 1] \in 0 .. Width - 1 /\ ByteBase \in Nat
      <4>1. t = LoadedText(source) /\ source \in Files
        BY <1>1, SameReads DEF Memory!TypeOK, t
      <4>2. Len(t) <= Len(source) /\ Len(t) \in Nat /\ Len(source) \in Nat
        BY <1>1, <1>3, <4>1, SourceIsUTF8, LoadedKeeps
      <4>3. 2 * Len(source) <= Width
        BY <4>1, FilesAssumption
      <4>4. Width \in Nat /\ Width > 0
        BY ByteBaseAssumption, SMT DEF Width
      <4>5. QED
        BY <3>2, <4>2, <4>3, <4>4, ByteBaseAssumption
    <3>4. /\ Leading(a[n + 1], rest) \in Nat
          /\ Leading(a[n + 1], rest) * ByteBase <= a[n + 1]
      BY <3>1, <3>3, LeadingBelow
    <3>5. Leading(a[n + 1], rest) * ByteBase \in Nat
      BY <3>3, <3>4
    <3>6. e = Leading(a[n + 1], rest) * ByteBase
      BY <2>2
    <3>7. QED
      BY <3>2, <3>3, <3>4, <3>5, <3>6
  <2>3. QED
    BY <2>1, <2>2
<1>7. index' = Append(b, e)
  BY <1>2
<1> HIDE DEF e
<1>8. /\ b \in Seq(Starts(t)) /\ Len(b) = n
      /\ \A k \in 1 .. n : b[k] = a[k] /\ a[k] \in Starts(t)
  BY <1>4
<1> HIDE DEF b
<1>9. b \in Seq(0 .. Len(t))
  <2>1. b \in [1 .. n -> 0 .. Len(t)]
    BY <1>5, <1>8
  <2>2. QED
    BY <2>1
<1>10. /\ index' \in Seq(0 .. Len(t)) /\ Len(index') = n + 1
      /\ \A k \in 1 .. n : index'[k] = a[k]
  BY <1>8, <1>9, <1>6, <1>7
<1>11. \A k, l \in 0 .. Len(index') - 1 - 1 :
        k < l => SuffixLess(t, index'[k + 1], index'[l + 1])
  <2> SUFFICES ASSUME NEW k \in 0 .. Len(index') - 1 - 1,
                      NEW l \in 0 .. Len(index') - 1 - 1, k < l
               PROVE  SuffixLess(t, index'[k + 1], index'[l + 1])
    OBVIOUS
  <2>1. k + 1 \in 1 .. n /\ l + 1 \in 1 .. n /\ k + 1 < l + 1
    BY <1>10
  <2>2. k + 1 \in 1 .. Len(a) /\ l + 1 \in 1 .. Len(a)
    BY <2>1, <1>4
  <2>3. QED
    BY <1>4, <1>10, <2>1, <2>2
<1>12. Memory!RecordsInOrder'
  BY <1>1, <1>10, <1>11, SameReads, SameIndex DEF Memory!RecordsInOrder, Memory!Extra, t
<1>13. Memory!TypeOK'
  BY <1>1 DEF Memory!TypeOK
<1>14. QED
  BY <1>1, <1>12, <1>13 DEF Memory!IInv

(* A search begins with the whole vector.                                  *)
LEMMA SearchKeeps ==
  ASSUME Memory!IInv, NEW word \in Words, Memory!Search(word)
  PROVE  Memory!IInv'
<1>1. /\ Memory!TypeOK /\ Memory!RecordsInOrder
      /\ search' = "lower" /\ pat' = word /\ first' = 0 /\ len' = Len(index)
      /\ UNCHANGED <<source, src, index, lb, ub, row, results>>
  BY DEF Memory!IInv, Memory!Search
<1>2. Len(index) \in Nat /\ Len(index) > 0
  BY <1>1, LoadedIndex
<1>3. Memory!TypeOK'
  BY <1>1, <1>2 DEF Memory!TypeOK
<1>4. Memory!RecordsInOrder'
  BY <1>1 DEF Memory!RecordsInOrder, Memory!Extra
<1>5. Memory!LowerHalved'
  BY <1>1, <1>2 DEF Memory!LowerHalved, Memory!Extra
<1>6. QED
  BY <1>1, <1>3, <1>4, <1>5 DEF Memory!IInv

(* A turn of std::lower_bound keeps what is known of both sides.           *)
LEMMA LowerTurnKeeps ==
  ASSUME Memory!IInv, Memory!LowerTurn
  PROVE  Memory!IInv'
<1> DEFINE Low == {k \in 0 .. Len(index) - 1 : Memory!Below(k)}
           m == first + len \div 2
<1>1. /\ Memory!TypeOK /\ Memory!RecordsInOrder /\ pat \in Words
      /\ Memory!LowerHalved /\ search = "lower" /\ search' = "lower"
      /\ UNCHANGED <<source, src, index, pat, lb, ub, row, results>>
      /\ first \in Nat /\ len \in Nat /\ len > 0
  BY DEF Memory!IInv, Memory!LowerTurn, Memory!TypeOK
<1>2. IF Memory!Below(m) THEN first' = m + 1 /\ len' = len - len \div 2 - 1
                         ELSE first' = first /\ len' = len \div 2
  BY DEF Memory!LowerTurn, Memory!Halve, Memory!Middle, Memory!Below
<1>3. Len(index) \in Nat /\ Len(index) > 0
  BY <1>1, LoadedIndex
<1>4. \A j, k \in 0 .. Len(index) - 2 : j < k /\ k \in Low => j \in Low
  BY <1>1, <1>3, BelowIsFirst
<1>5. InRange(Low, Len(index), first, len)
  BY <1>1, <1>3 DEF InRange, Memory!LowerHalved, Memory!Extra
<1>6. m \in Low <=> m \in 0 .. Len(index) - 1 /\ Memory!Below(m)
  OBVIOUS
<1> HIDE DEF Low
<1>7. InRange(Low, Len(index), first', len') /\ first' \in Nat /\ len' \in Nat
  <2>1. /\ m \in 0 .. Len(index) - 1
        /\ len - len \div 2 - 1 \in Nat /\ len \div 2 \in Nat
        /\ m \in Low => InRange(Low, Len(index), m + 1, len - len \div 2 - 1)
        /\ m \notin Low => InRange(Low, Len(index), first, len \div 2)
    BY <1>1, <1>3, <1>4, <1>5, ProbeKeepsRange
  <2>2. CASE Memory!Below(m)
    BY <1>1, <1>2, <1>6, <2>1, <2>2
  <2>3. CASE ~ Memory!Below(m)
    BY <1>1, <1>2, <1>6, <2>1, <2>3
  <2>4. QED
    BY <2>2, <2>3
<1>8. /\ Memory!RecordsInOrder'
      /\ \A k : (Memory!Below(k)' <=> Memory!Below(k))
  BY <1>1, VerdictsStay
<1>9. Memory!LowerHalved'
  <2>1. \A k \in 0 .. Len(index) - 2 : k \in Low <=> Memory!Below(k)'
    BY <1>3, <1>8 DEF Low
  <2>2. /\ first' + len' <= Len(index)
        /\ \A k \in 0 .. Len(index) - 2 :
             /\ k < first' /\ k < Len(index) - 2 => k \in Low
             /\ first' + len' <= k => k \notin Low
    BY <1>7 DEF InRange
  <2>3. index' = index /\ Len(index) - 1 - 1 = Len(index) - 2
    BY <1>1, <1>3
  <2>4. QED
    BY <2>1, <2>2, <2>3 DEF Memory!LowerHalved, Memory!Extra
<1>10. Memory!TypeOK'
  BY <1>1, <1>7 DEF Memory!TypeOK
<1>11. QED
  BY <1>1, <1>8, <1>9, <1>10 DEF Memory!IInv

(* A turn of std::upper_bound does the same with the other verdict.        *)
LEMMA UpperTurnKeeps ==
  ASSUME Memory!IInv, Memory!UpperTurn
  PROVE  Memory!IInv'
<1> DEFINE Low == {k \in 0 .. Len(index) - 1 : ~ Memory!Above(k)}
           m == first + len \div 2
<1>1. /\ Memory!TypeOK /\ Memory!RecordsInOrder /\ pat \in Words
      /\ Memory!LowerFound /\ Memory!UpperHalved
      /\ search = "upper" /\ search' = "upper"
      /\ UNCHANGED <<source, src, index, pat, lb, ub, row, results>>
      /\ first \in Nat /\ len \in Nat /\ len > 0
  BY DEF Memory!IInv, Memory!UpperTurn, Memory!TypeOK
<1>2. IF ~ Memory!Above(m) THEN first' = m + 1 /\ len' = len - len \div 2 - 1
                           ELSE first' = first /\ len' = len \div 2
  BY DEF Memory!UpperTurn, Memory!Halve, Memory!Middle, Memory!Above
<1>3. Len(index) \in Nat /\ Len(index) > 0
  BY <1>1, LoadedIndex
<1>4. \A j, k \in 0 .. Len(index) - 2 : j < k /\ k \in Low => j \in Low
  BY <1>1, <1>3, BelowIsFirst
<1>5. InRange(Low, Len(index), first, len)
  BY <1>1, <1>3 DEF InRange, Memory!UpperHalved, Memory!Extra
<1>6. m \in Low <=> m \in 0 .. Len(index) - 1 /\ ~ Memory!Above(m)
  OBVIOUS
<1> HIDE DEF Low
<1>7. InRange(Low, Len(index), first', len') /\ first' \in Nat /\ len' \in Nat
  <2>1. /\ m \in 0 .. Len(index) - 1
        /\ len - len \div 2 - 1 \in Nat /\ len \div 2 \in Nat
        /\ m \in Low => InRange(Low, Len(index), m + 1, len - len \div 2 - 1)
        /\ m \notin Low => InRange(Low, Len(index), first, len \div 2)
    BY <1>1, <1>3, <1>4, <1>5, ProbeKeepsRange
  <2>2. CASE Memory!Above(m)
    BY <1>1, <1>2, <1>6, <2>1, <2>2
  <2>3. CASE ~ Memory!Above(m)
    BY <1>1, <1>2, <1>6, <2>1, <2>3
  <2>4. QED
    BY <2>2, <2>3
<1>8. /\ Memory!RecordsInOrder'
      /\ \A k : (Memory!Below(k)' <=> Memory!Below(k))
      /\ \A k : (Memory!Above(k)' <=> Memory!Above(k))
  BY <1>1, VerdictsStay
<1>9. Memory!LowerFound'
  BY <1>1, <1>8 DEF Memory!LowerFound, Memory!Extra
<1>10. Memory!UpperHalved'
  <2>1. \A k \in 0 .. Len(index) - 2 : k \in Low <=> ~ Memory!Above(k)'
    BY <1>3, <1>8 DEF Low
  <2>2. /\ first' + len' <= Len(index)
        /\ \A k \in 0 .. Len(index) - 2 :
             /\ k < first' /\ k < Len(index) - 2 => k \in Low
             /\ first' + len' <= k => k \notin Low
    BY <1>7 DEF InRange
  <2>3. index' = index /\ Len(index) - 1 - 1 = Len(index) - 2
    BY <1>1, <1>3
  <2>4. QED
    BY <2>1, <2>2, <2>3 DEF Memory!UpperHalved, Memory!Extra
<1>11. Memory!TypeOK'
  BY <1>1, <1>7 DEF Memory!TypeOK
<1>12. QED
  BY <1>1, <1>8, <1>9, <1>10, <1>11 DEF Memory!IInv

(* When the range is empty, first is the bound.                            *)
LEMMA LowerReturnsKeeps ==
  ASSUME Memory!IInv, Memory!LowerReturns
  PROVE  Memory!IInv'
<1>1. /\ Memory!TypeOK /\ Memory!RecordsInOrder /\ pat \in Words
      /\ Memory!LowerHalved /\ search' = "upper"
      /\ UNCHANGED <<source, src, index, pat, ub, row, results>>
      /\ first \in Nat /\ len = 0
      /\ lb' = first /\ first' = 0 /\ len' = Len(index)
  BY DEF Memory!IInv, Memory!LowerReturns, Memory!TypeOK
<1>2. Len(index) \in Nat /\ Len(index) > 0
  BY <1>1, LoadedIndex
<1>3. /\ Memory!RecordsInOrder'
      /\ \A k : (Memory!Below(k)' <=> Memory!Below(k))
  BY <1>1, VerdictsStay
<1>4. Memory!LowerFound'
  BY <1>1, <1>2, <1>3 DEF Memory!LowerHalved, Memory!LowerFound, Memory!Extra
<1>5. Memory!UpperHalved'
  BY <1>1, <1>2 DEF Memory!UpperHalved, Memory!Extra
<1>6. Memory!TypeOK'
  BY <1>1, <1>2 DEF Memory!TypeOK
<1>7. QED
  BY <1>1, <1>3, <1>4, <1>5, <1>6 DEF Memory!IInv

(* upper_bound returns, and search begins with its rows.                   *)
LEMMA UpperReturnsKeeps ==
  ASSUME Memory!IInv, Memory!UpperReturns
  PROVE  Memory!IInv'
<1>1. /\ Memory!TypeOK /\ Memory!RecordsInOrder /\ pat \in Words
      /\ Memory!LowerFound /\ Memory!UpperHalved /\ search' = "rows"
      /\ UNCHANGED <<source, src, index, pat, first, len, lb>>
      /\ first \in Nat /\ len = 0 /\ lb \in Nat
      /\ ub' = first /\ row' = lb /\ results' = <<>>
  BY DEF Memory!IInv, Memory!UpperReturns, Memory!TypeOK
<1>2. Len(index) \in Nat /\ Len(index) > 0
  BY <1>1, LoadedIndex
<1>3. /\ Memory!RecordsInOrder'
      /\ \A k : (Memory!Below(k)' <=> Memory!Below(k))
      /\ \A k : (Memory!Above(k)' <=> Memory!Above(k))
  BY <1>1, VerdictsStay
<1>4. Memory!LowerFound'
  BY <1>1, <1>3 DEF Memory!LowerFound, Memory!Extra
<1>5. Memory!UpperFound'
  BY <1>1, <1>2, <1>3 DEF Memory!UpperHalved, Memory!UpperFound, Memory!Extra
<1>6. Memory!RowsSoFar'
  BY <1>1, RowLimitAssumption DEF Memory!RowsSoFar
<1>7. Memory!TypeOK'
  BY <1>1 DEF Memory!TypeOK
<1>8. QED
  BY <1>1, <1>3, <1>4, <1>5, <1>6, <1>7 DEF Memory!IInv

(* A row is a line at a record between the bounds.                         *)
LEMMA RowReadKeeps ==
  ASSUME Memory!IInv, Memory!RowRead
  PROVE  Memory!IInv'
<1> DEFINE Lines == {Memory!ReadLine(source, p) : p \in 0 .. Len(source)}
           line == Memory!ReadLine(source, index[row + 1])
<1>1. /\ Memory!TypeOK /\ Memory!RecordsInOrder /\ pat \in Words
      /\ Memory!LowerFound /\ Memory!UpperFound /\ Memory!RowsSoFar
      /\ lb \in Nat /\ ub \in Nat /\ search = "rows" /\ row < ub
      /\ results' = Append(results, line) /\ row' = row + 1
      /\ search' = IF row' > lb + RowLimit THEN "done" ELSE "rows"
      /\ UNCHANGED <<source, src, index, pat, first, len, lb, ub>>
  BY DEF Memory!IInv, Memory!RowRead, Memory!TypeOK
<1>2. /\ results \in Seq(Lines) /\ row = lb + Len(results) /\ Len(results) <= RowLimit
      /\ \A k \in 1 .. Len(results) :
           results[k] = Memory!ReadLine(source, index[lb + k])
  BY <1>1 DEF Memory!RowsSoFar
<1>3. ub <= Len(index) /\ Len(index) \in Nat
  BY <1>1, LoadedIndex DEF Memory!UpperFound
<1>4. index[row + 1] \in 0 .. Len(source)
  <2>1. row \in 0 .. Len(index) - 1
    BY <1>1, <1>2, <1>3
  <2>2. index[row + 1] \in 0 .. Len(src) /\ Len(src) <= Len(source)
        /\ Len(src) \in Nat /\ Len(source) \in Nat
    BY <1>1, <2>1, LoadedIndex, SourceIsUTF8
  <2>3. QED
    BY <2>2
<1>5. line \in Lines
  BY <1>4
<1> HIDE DEF Lines, line
<1>6. /\ results' \in Seq(Lines) /\ Len(results') = Len(results) + 1
      /\ results'[Len(results) + 1] = line
      /\ \A k \in 1 .. Len(results) : results'[k] = results[k]
  BY <1>1, <1>2, <1>5
<1>7. Len(results) \in Nat /\ row \in Nat /\ row + 1 = lb + (Len(results) + 1)
  BY <1>1, <1>2
<1>8. \A k \in 1 .. Len(results') :
        results'[k] = Memory!ReadLine(source, index[lb + k])
  <2> SUFFICES ASSUME NEW k \in 1 .. Len(results')
               PROVE  results'[k] = Memory!ReadLine(source, index[lb + k])
    OBVIOUS
  <2>1. CASE k \in 1 .. Len(results)
    BY <1>2, <1>6, <2>1
  <2>2. CASE k = Len(results) + 1
    <3>1. lb + k = row + 1
      BY <1>7, <2>2
    <3>2. QED
      BY <1>6, <2>2, <3>1 DEF line
  <2>3. QED
    BY <1>6, <1>7, <2>1, <2>2
<1>9. Memory!RowsSoFar'
  <2>1. row' = (lb + Len(results))' /\ row' <= ub
    BY <1>1, <1>6, <1>7
  <2>2. Len(results') <= IF search' = "rows" THEN RowLimit ELSE RowLimit + 1
    BY <1>1, <1>2, <1>6, <1>7, RowLimitAssumption
  <2>3. QED
    BY <1>1, <1>6, <1>8, <2>1, <2>2 DEF Memory!RowsSoFar, Lines
<1>10. search' = "done" => Len(results') = RowLimit + 1
  BY <1>1, <1>2, <1>6, <1>7, RowLimitAssumption
<1>11. /\ Memory!RecordsInOrder'
       /\ \A k : (Memory!Below(k)' <=> Memory!Below(k))
       /\ \A k : (Memory!Above(k)' <=> Memory!Above(k))
  BY <1>1, VerdictsStay
<1>12. Memory!LowerFound'
  BY <1>1, <1>11 DEF Memory!LowerFound, Memory!Extra
<1>50. Memory!UpperFound'
  BY <1>1, <1>11 DEF Memory!UpperFound, Memory!Extra
<1>51. Memory!TypeOK' /\ search' \in {"rows", "done"}
  BY <1>1 DEF Memory!TypeOK
<1>15. QED
  BY <1>1, <1>9, <1>10, <1>11, <1>12, <1>50, <1>51 DEF Memory!IInv

(* search returns its rows.                                                *)
LEMMA SearchReturnsKeeps ==
  ASSUME Memory!IInv, Memory!SearchReturns
  PROVE  Memory!IInv'
<1>1. /\ Memory!TypeOK /\ Memory!RecordsInOrder /\ pat \in Words
      /\ Memory!LowerFound /\ Memory!UpperFound /\ Memory!RowsSoFar
      /\ search = "rows" /\ row >= ub /\ search' = "done"
      /\ UNCHANGED <<source, src, index, pat, first, len, lb, ub, row, results>>
  BY DEF Memory!IInv, Memory!SearchReturns
<1>2. /\ Memory!RecordsInOrder'
      /\ \A k : (Memory!Below(k)' <=> Memory!Below(k))
      /\ \A k : (Memory!Above(k)' <=> Memory!Above(k))
  BY <1>1, VerdictsStay
<1>3. Memory!LowerFound' /\ Memory!UpperFound'
  BY <1>1, <1>2 DEF Memory!LowerFound, Memory!UpperFound, Memory!Extra
<1>4. Memory!RowsSoFar'
  <2>1. results \in Seq({Memory!ReadLine(source, p) : p \in 0 .. Len(source)})
        /\ Len(results) <= RowLimit
    BY <1>1 DEF Memory!RowsSoFar
  <2>2. Len(results) <= RowLimit + 1
    BY <2>1, RowLimitAssumption
  <2>3. QED
    BY <1>1, <2>2 DEF Memory!RowsSoFar
<1>5. Memory!TypeOK'
  BY <1>1 DEF Memory!TypeOK
<1>6. QED
  BY <1>1, <1>2, <1>3, <1>4, <1>5 DEF Memory!IInv

(* The invariant of the search in memory, which runs or not at all.        *)
MemoryInv == search = "none" \/ Memory!IInv

(* The invariant holds when the reader has been chosen.                    *)
LEMMA MemoryInvInitially == ReadersInit => MemoryInv
<1>1. Memory!Init => Memory!IInv
  <2> SUFFICES ASSUME Memory!Init PROVE Memory!IInv
    OBVIOUS
  <2>1. Memory!TypeOK
    BY DEF Memory!Init, Memory!TypeOK
  <2>2. QED
    BY <2>1 DEF Memory!Init, Memory!IInv
<1>2. QED
  BY <1>1 DEF ReadersInit, NoMemory, MemoryInv

(* Every step of a reader keeps it.                                        *)
LEMMA MemoryInvStep == MemoryInv /\ [ReadersNext]_readerVars => MemoryInv'
<1> SUFFICES ASSUME MemoryInv, [ReadersNext]_readerVars
             PROVE  MemoryInv'
  OBVIOUS
<1>1. CASE UNCHANGED memoryVars
  BY <1>1 DEF MemoryInv, memoryVars, Memory!IInv, Memory!TypeOK, Memory!RecordsInOrder,
    Memory!LowerHalved, Memory!LowerFound, Memory!UpperHalved, Memory!UpperFound,
    Memory!RowsSoFar, Memory!Below, Memory!Above, Memory!Suffix, Memory!Extra
<1>2. CASE Memory!Next
  <2>1. search # "none"
    BY <1>2 DEF Memory!Next, Memory!Call, Memory!LoadIndex, Memory!Search,
      Memory!LowerTurn, Memory!LowerReturns, Memory!UpperTurn, Memory!UpperReturns,
      Memory!RowRead, Memory!SearchReturns
  <2>2. Memory!IInv
    BY <2>1 DEF MemoryInv
  <2>3. CASE Memory!LoadIndex
    BY <2>2, <2>3, LoadKeeps DEF MemoryInv
  <2>4. CASE \E word \in Words : Memory!Search(word)
    BY <2>2, <2>4, SearchKeeps DEF MemoryInv
  <2>5. CASE Memory!LowerTurn
    BY <2>2, <2>5, LowerTurnKeeps DEF MemoryInv
  <2>6. CASE Memory!LowerReturns
    BY <2>2, <2>6, LowerReturnsKeeps DEF MemoryInv
  <2>7. CASE Memory!UpperTurn
    BY <2>2, <2>7, UpperTurnKeeps DEF MemoryInv
  <2>8. CASE Memory!UpperReturns
    BY <2>2, <2>8, UpperReturnsKeeps DEF MemoryInv
  <2>9. CASE Memory!RowRead
    BY <2>2, <2>9, RowReadKeeps DEF MemoryInv
  <2>10. CASE Memory!SearchReturns
    BY <2>2, <2>10, SearchReturnsKeeps DEF MemoryInv
  <2>11. QED
    BY <1>2, <2>3, <2>4, <2>5, <2>6, <2>7, <2>8, <2>9, <2>10
    DEF Memory!Next, Memory!Call
<1>3. QED
  BY <1>1, <1>2 DEF ReadersNext, LookupStep, readerVars

(* The invariant holds throughout.                                         *)
THEOREM MemoryInductive == ReadersSpec => []MemoryInv
<1>1. QED
  BY MemoryInvInitially, MemoryInvStep, PTL DEF ReadersSpec

(* What is between the bounds begins with the word.                        *)
LEMMA HitsOccur ==
  ASSUME Memory!IInv
  PROVE  Memory!HitsAreOccurrences
<1> SUFFICES ASSUME search \in {"rows", "done"},
                    NEW k \in lb .. ub - 1, ~ (k >= Memory!Extra - 1)
             PROVE  Memory!Occurs(k)
  BY DEF Memory!HitsAreOccurrences
<1>1. /\ Memory!TypeOK /\ Memory!RecordsInOrder /\ pat \in Words
      /\ Memory!LowerFound /\ Memory!UpperFound /\ lb \in Nat /\ ub \in Nat
  BY DEF Memory!IInv, Memory!TypeOK
<1>2. Len(index) \in Nat /\ k \in 0 .. Len(index) - 2 /\ k < Len(index) - 1 - 1
  BY <1>1, LoadedIndex DEF Memory!Extra
<1>3. ~ Memory!Below(k) /\ ~ Memory!Above(k)
  BY <1>1, <1>2 DEF Memory!LowerFound, Memory!UpperFound, Memory!Extra
<1>4. QED
  BY <1>1, <1>2, <1>3, OccursUnlessOutside

(* The word begins nothing else, but perhaps the last record.              *)
LEMMA OccurrencesHit ==
  ASSUME Memory!IInv
  PROVE  Memory!OccurrencesAreHits
<1> SUFFICES ASSUME search \in {"rows", "done"},
                    NEW k \in 0 .. Len(index) - 2, Memory!Occurs(k),
                    k # Memory!Extra - 1
             PROVE  k \in lb .. ub - 1
  BY DEF Memory!OccurrencesAreHits
<1>1. /\ Memory!TypeOK /\ Memory!RecordsInOrder /\ pat \in Words
      /\ Memory!LowerFound /\ Memory!UpperFound /\ lb \in Nat /\ ub \in Nat
  BY DEF Memory!IInv, Memory!TypeOK
<1>2. Len(index) \in Nat /\ k \in 0 .. Len(index) - 1 /\ k < Len(index) - 1 - 1
  BY <1>1, LoadedIndex DEF Memory!Extra
<1>3. ~ Memory!Below(k) /\ ~ Memory!Above(k)
  BY <1>1, <1>2, OccursUnlessOutside
<1>4. ~ (k < lb) /\ ~ (ub <= k)
  BY <1>1, <1>2, <1>3 DEF Memory!LowerFound, Memory!UpperFound, Memory!Extra
<1>5. QED
  BY <1>1, <1>2, <1>4

(* The rows are as many as the bounds and the limit say, and show the word *)
(* where it occurs.                                                        *)
LEMMA RowsShow ==
  ASSUME Memory!IInv
  PROVE  Memory!RowsShowWord
<1> SUFFICES ASSUME search = "done"
             PROVE  /\ Len(results) = Memory!Max({0, Memory!Min({ub - lb, RowLimit + 1})})
                    /\ Memory!Aligned => \A k \in 1 .. Len(results) :
                         \/ Memory!Lowered(SubSeq(results[k], 1, Len(pat))) = Memory!Lowered(pat)
                         \/ lb + k - 1 >= Memory!Extra - 1
  BY DEF Memory!RowsShowWord
<1>1. /\ Memory!TypeOK /\ Memory!RecordsInOrder /\ pat \in Words
      /\ Memory!LowerFound /\ Memory!UpperFound /\ lb \in Nat /\ ub \in Nat
      /\ Len(results) = RowLimit + 1 \/ row >= ub
  BY DEF Memory!IInv, Memory!TypeOK
<1>2. /\ results \in Seq({Memory!ReadLine(source, p) : p \in 0 .. Len(source)})
      /\ row = lb + Len(results) /\ Len(results) <= RowLimit + 1
      /\ results # <<>> => row <= ub
      /\ \A k \in 1 .. Len(results) :
           results[k] = Memory!ReadLine(source, index[lb + k])
  BY DEF Memory!IInv, Memory!RowsSoFar
<1>3. Len(results) \in Nat /\ (Len(results) > 0 => row <= ub)
  BY <1>2
<1>4. Len(results) = Memory!Max({0, Memory!Min({ub - lb, RowLimit + 1})})
  <2>1. \A a, b \in Int : Memory!Min({a, b}) = IF a <= b THEN a ELSE b
    BY DEF Memory!Min
  <2>2. \A a, b \in Int : Memory!Max({a, b}) = IF a >= b THEN a ELSE b
    BY DEF Memory!Max
  <2>3. Memory!Min({ub - lb, RowLimit + 1})
          = IF ub - lb <= RowLimit + 1 THEN ub - lb ELSE RowLimit + 1
    BY <1>1, <2>1, RowLimitAssumption
  <2>4. \A a \in Int : Memory!Max({0, a}) = IF 0 >= a THEN 0 ELSE a
    BY <2>2
  <2> DEFINE n == Len(results)
             d == Memory!Min({ub - lb, RowLimit + 1})
  <2>5. d \in Int /\ d <= ub - lb /\ d <= RowLimit + 1
        /\ (d = ub - lb \/ d = RowLimit + 1)
    BY <1>1, <2>3, RowLimitAssumption
  <2> HIDE DEF n, d
  <2>6. n \in Nat /\ n <= RowLimit + 1 /\ (n > 0 => n <= ub - lb)
        /\ (n = RowLimit + 1 \/ n >= ub - lb)
    BY <1>1, <1>2, <1>3 DEF n
  <2>7. n = IF 0 >= d THEN 0 ELSE d
    BY <1>1, <2>5, <2>6, RowLimitAssumption
  <2>8. QED
    BY <2>4, <2>5, <2>7 DEF n, d
<1>5. ASSUME Memory!Aligned, NEW k \in 1 .. Len(results),
             ~ (lb + k - 1 >= Memory!Extra - 1)
      PROVE  Memory!Lowered(SubSeq(results[k], 1, Len(pat))) = Memory!Lowered(pat)
  <2> DEFINE p == index[lb + k]
  <2>1. lb + k - 1 \in lb .. ub - 1 /\ lb + k - 1 \in Nat
    BY <1>1, <1>2, <1>3
  <2>2. Memory!Occurs(lb + k - 1)
    BY <1>5, <2>1, HitsOccur DEF Memory!HitsAreOccurrences
  <2>3. lb + k - 1 \in 0 .. Len(index) - 1 /\ (lb + k - 1) + 1 = lb + k
    BY <1>1, <1>5, <2>1, LoadedIndex DEF Memory!Extra
  <2>4. src = source /\ source \in Seq(Byte) /\ p \in 0 .. Len(source)
    BY <1>1, <1>5, <2>3, LoadedIndex, SourceIsUTF8 DEF Memory!Aligned
  <2>5. Lowered(ReadAt(source, p, Len(pat))) = Lowered(pat)
    BY <2>2, <2>3, <2>4, SameOrders, SameReads DEF Memory!Occurs
  <2>6. pat \in Seq(Byte) /\ \A j \in 1 .. Len(pat) : pat[j] # Newline
    BY <1>1, WordIsBytes
  <2>7. results[k] = ReadLine(source, p)
    BY <1>2, SameReads
  <2> HIDE DEF p
  <2>8. Lowered(SubSeq(ReadLine(source, p), 1, Len(pat))) = Lowered(pat)
    BY <2>4, <2>5, <2>6, LineShowsWord
  <2>9. QED
    BY <2>7, <2>8, SameOrders
<1>6. QED
  BY <1>4, <1>5

(* Probes and rows are inside the vector.                                  *)
LEMMA ReadsInside ==
  ASSUME Memory!IInv
  PROVE  Memory!NothingReadOutside
<1>1. search = "rows" => /\ lb \in Nat /\ ub \in Nat /\ ub <= Len(index)
                         /\ row = lb + Len(results) /\ results \in Seq({Memory!ReadLine(source, p) : p \in 0 .. Len(source)})
  BY DEF Memory!IInv, Memory!TypeOK, Memory!UpperFound, Memory!RowsSoFar
<1>2. search = "rows" /\ row < ub => row < Len(index)
  <2> SUFFICES ASSUME search = "rows", row < ub PROVE row < Len(index)
    OBVIOUS
  <2>1. Len(index) \in Nat
    BY LoadedIndex DEF Memory!IInv
  <2>2. Len(results) \in Nat
    BY <1>1
  <2>3. QED
    BY <1>1, <2>1, <2>2
<1>3. search \in {"lower", "upper"} => first + len <= Len(index)
  BY DEF Memory!IInv, Memory!LowerHalved, Memory!UpperHalved
<1>4. QED
  BY <1>2, <1>3 DEF Memory!NothingReadOutside

(* HitsAreTheOccurrences: for every text in UTF-8 and every word, although *)
(* the vector search_lower_bound and search_upper_bound are given has an   *)
(* element out of order, what is between their bounds are the occurrences, *)
(* up to that element and the last record, and the rows show them.         *)
THEOREM OccurrencesFound == ReadersSpec => []HitsAreTheOccurrences
<1>1. MemoryInv => HitsAreTheOccurrences
  <2>1. CASE search = "none"
    BY <2>1 DEF HitsAreTheOccurrences, Memory!HitsAreOccurrences,
      Memory!OccurrencesAreHits, Memory!RowsShowWord, Memory!NothingReadOutside
  <2>2. CASE Memory!IInv
    BY <2>2, HitsOccur, OccurrencesHit, RowsShow, ReadsInside DEF HitsAreTheOccurrences
  <2>3. QED
    BY <2>1, <2>2 DEF MemoryInv
<1>2. QED
  BY <1>1, MemoryInductive, PTL
=============================================================================
