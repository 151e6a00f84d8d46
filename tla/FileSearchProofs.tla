-------------------------- MODULE FileSearchProofs --------------------------
(***************************************************************************)
(* The index on disk and its search.  For every text, the set the indexer  *)
(* writes: no suffix is lost, the records are in order, and the order      *)
(* serves indexer.lua's binary search.  For every text in UTF-8 and every  *)
(* word, what a session over the files of mkindex answers: rows that are   *)
(* hits, counts of the occurrences, and lines selected.                    *)
(***************************************************************************)
EXTENDS Indexer, FileSearch, SourceTextProofs, SequenceTheorems

Loaded == LoadedText(text)
Array == SuffixArray(Loaded)

(* Quotient and remainder.                                                 *)
LEMMA Division ==
  ASSUME NEW a \in Nat, NEW b \in Nat, b >= 2
  PROVE  /\ a \div b \in Nat /\ a % b \in Nat
         /\ a = (a \div b) * b + (a % b)
         /\ a < b => a % b = a
  BY SMT

(* Dividing twice is dividing by both.                                     *)
LEMMA DivisionTwice ==
  ASSUME NEW a \in Nat, NEW b \in Nat, NEW c \in Nat, b >= 2, c >= 2
  PROVE  (a \div b) \div c = a \div (b * c)
  BY SMT

(* A number below b * c has a quotient by b below c.                       *)
LEMMA QuotientBound ==
  ASSUME NEW a \in Nat, NEW b \in Nat, NEW c \in Nat, b >= 2, c >= 2, a < b * c
  PROVE  a \div b < c
  BY SMT

(* A position that fits an int is got back from its record.                *)
LEMMA PositionKept ==
  ASSUME NEW p \in Nat, p <= INT_MAX
  PROVE  Position(R!Pack(p)) = p
<1> DEFINE b == 256
           q1 == p \div b
           q2 == p \div (b * b)
           q3 == p \div (b * b * b)
<1>1. INT_MAX \in Nat /\ INT_MAX < (b * b * b) * b
  BY SMT DEF INT_MAX
<1>2. p < (b * b * b) * b
  <2>1. (b * b * b) * b \in Nat
    OBVIOUS
  <2>2. QED
    BY <1>1, <2>1
<1>3. b \in Nat /\ b >= 2 /\ b * b \in Nat /\ b * b >= 2
      /\ b * b * b \in Nat /\ b * b * b >= 2
  OBVIOUS
<1>4. R!Pack(p) = <<q3 % b, q2 % b, q1 % b, p % b>>
  BY DEF R!Pack
<1>5. \A r : R!Unpack(r) = r[1] * (b * b * b) + r[2] * (b * b) + r[3] * b + r[4]
  BY DEF R!Unpack
<1> HIDE DEF b
<1>6. q1 \div b = q2 /\ q2 \div b = q3
  <2>1. (p \div b) \div b = p \div (b * b)
    BY <1>3, DivisionTwice
  <2>2. (p \div (b * b)) \div b = p \div ((b * b) * b)
    BY <1>3, DivisionTwice
  <2>3. QED
    BY <2>1, <2>2
<1>7. q1 \in Nat /\ q2 \in Nat /\ q3 \in Nat /\ q3 < b
  BY <1>2, <1>3, Division, QuotientBound
<1>8. /\ p = q1 * b + (p % b) /\ q1 = q2 * b + (q1 % b) /\ q2 = q3 * b + (q2 % b)
      /\ q3 % b = q3 /\ p % b \in Nat /\ q1 % b \in Nat /\ q2 % b \in Nat
  BY <1>3, <1>6, <1>7, Division
<1> HIDE DEF q1, q2, q3
<1> DEFINE r0 == p % b
           r1 == q1 % b
           r2 == q2 % b
<1>9. R!Unpack(R!Pack(p)) = q3 * (b * b * b) + r2 * (b * b) + r1 * b + r0
  BY <1>4, <1>5, <1>8
<1>10. /\ r0 \in Nat /\ r1 \in Nat /\ r2 \in Nat
       /\ p = q1 * b + r0 /\ q1 = q2 * b + r1 /\ q2 = q3 * b + r2
  BY <1>8
<1> HIDE DEF r0, r1, r2
<1>11. q1 * b = (q3 * (b * b * b) + r2 * (b * b)) + r1 * b
  <2>1. q2 * b = q3 * (b * b) + r2 * b
    BY <1>3, <1>7, <1>10, SMT
  <2>2. q1 * b = (q2 * b) * b + r1 * b
    BY <1>3, <1>7, <1>10, SMT
  <2>3. (q3 * (b * b) + r2 * b) * b = q3 * (b * b * b) + r2 * (b * b)
    BY <1>3, <1>7, <1>10, SMT
  <2>4. QED
    BY <2>1, <2>2, <2>3
<1>12. R!Unpack(R!Pack(p)) = p
  BY <1>3, <1>7, <1>9, <1>10, <1>11, SMT
<1>13. QED
  BY <1>12 DEF Position

(* INT_MAX is a number, whatever number it is.                             *)
LEMMA IntMax == INT_MAX \in Nat
  BY SMT DEF INT_MAX

(* A sequence of some of the bytes is a sequence of bytes.                 *)
LEMMA SomeBytes ==
  ASSUME NEW S, S \subseteq Byte, NEW s \in Seq(S)
  PROVE  s \in Seq(Byte) /\ \A k \in 1 .. Len(s) : s[k] \in S
<1>1. \A k \in 1 .. Len(s) : s[k] \in S
  OBVIOUS
<1>2. s \in [1 .. Len(s) -> Byte] /\ Len(s) \in Nat
  BY <1>1
<1>3. QED
  BY <1>1, <1>2

(* The texts and words are sequences of bytes.                             *)
LEMMA TextIsUTF8 ==
  ASSUME text \in Texts
  PROVE  /\ text \in Seq(Byte) /\ IsUTF8(text) /\ HasNoNUL(text)
         /\ Loaded \in Seq(Byte) /\ IsUTF8(Loaded) /\ HasNoNUL(Loaded)
         /\ Len(Loaded) <= Len(text) /\ Len(text) <= INT_MAX
<1>1. 1 .. 254 \subseteq Byte
  BY DEF Byte
<1>2. text \in Seq(1 .. 254) /\ Len(text) <= INT_MAX
  BY TextsAssumption
<1>3. text \in Seq(Byte) /\ \A k \in 1 .. Len(text) : text[k] \in 1 .. 254
  BY <1>1, <1>2, SomeBytes
<1>4. \A b \in 1 .. 254 : b # 255 /\ b # NUL
  BY DEF NUL
<1>5. IsUTF8(text) /\ HasNoNUL(text)
  BY <1>3, <1>4, Zenon DEF IsUTF8, HasNoNUL
<1>6. QED
  BY <1>2, <1>3, <1>5, LoadedType, LoadedKeeps, IntMax DEF Loaded

(* Words are bytes other than NUL.                                         *)
LEMMA WordIsBytes ==
  ASSUME NEW w \in Words
  PROVE  w \in Seq(Byte)
<1>1. 1 .. 255 \subseteq Byte /\ w \in Seq(1 .. 255)
  BY WordsAssumption DEF Byte
<1>2. QED
  BY <1>1, SomeBytes

(* Without a blank to begin with, the file is loaded as it is.             *)
LEMMA AlignedLoads ==
  ASSUME text \in Texts, Aligned
  PROVE  Loaded = text
<1> DEFINE Kept == {k \in 1 .. Len(text) : text[k] \notin Blank}
           start == CHOOSE k \in Kept : \A j \in Kept : k <= j
<1>1. text \in Seq(Byte)
  BY TextIsUTF8
<1>2. CASE text = <<>>
  <2>1. Kept = {}
    BY <1>2
  <2>2. QED
    BY <1>2, <2>1 DEF Loaded, LoadedText
<1>3. CASE text # <<>>
  <2>1. 1 \in Kept
    BY <1>1, <1>3 DEF Aligned
  <2>2. \A k \in Kept : 1 <= k /\ k \in Nat
    OBVIOUS
  <2>3. start = 1
    <3>1. \E k \in Kept : \A j \in Kept : k <= j
      BY <2>1, <2>2
    <3>2. start \in Kept /\ \A j \in Kept : start <= j
      BY <3>1
    <3>3. QED
      BY <2>1, <2>2, <3>2
  <2>4. Loaded = SubSeq(text, 1, Len(text))
    BY <2>1, <2>3 DEF Loaded, LoadedText
  <2>5. QED
    BY <1>1, <2>4
<1>4. QED
  BY <1>2, <1>3

(* A beginning of a sequence has its first members.                        *)
LEMMA PrefixOf ==
  ASSUME NEW n \in Nat, NEW f, NEW p \in Prefixes([k \in 1 .. n |-> f[k]])
  PROVE  Len(p) \in 0 .. n /\ \A k \in 1 .. Len(p) : p[k] = f[k]
<1> DEFINE s == [k \in 1 .. n |-> f[k]]
           S == {f[k] : k \in 1 .. n}
<1>1. s \in [1 .. n -> S]
  OBVIOUS
<1>2. s \in Seq(S) /\ Len(s) = n
  BY <1>1
<1> HIDE DEF S
<1>3. \A k \in 1 .. n : s[k] = f[k]
  OBVIOUS
<1> HIDE DEF s
<1>4. PICK l \in 0 .. Len(s) : p = SubSeq(s, 1, l)
  BY DEF Prefixes, s
<1>5. Len(p) = l /\ \A k \in 1 .. l : p[k] = s[k]
  BY <1>2, <1>4
<1>6. QED
  BY <1>2, <1>3, <1>4, <1>5

(* The records of the index file are the first starts of the text in order, *)
(* and all of them when the file is whole.                                 *)
LEMMA IndexIsArray ==
  ASSUME text \in Texts, FilesAreMade, phase # "start"
  PROVE  /\ Array \in Seq(Starts(Loaded)) /\ Len(idx) <= Len(Array) /\ Len(idx) \in Nat
         /\ Len(Array) \in Nat /\ \A k \in 1 .. Len(Array) : Array[k] \in Starts(Loaded)
         /\ IndexWhole => Len(idx) = Len(Array)
         /\ \A k \in 1 .. Len(idx) : Position(idx[k]) = Array[k] /\ Array[k] \in Starts(Loaded)
<1>1. Loaded \in Seq(Byte) /\ HasNoNUL(Loaded) /\ Len(Loaded) <= INT_MAX
  <2>1. /\ text \in Seq(Byte) /\ Loaded \in Seq(Byte) /\ HasNoNUL(Loaded)
        /\ Len(Loaded) <= Len(text) /\ Len(text) <= INT_MAX
    BY TextIsUTF8
  <2>2. Len(Loaded) \in Nat /\ Len(text) \in Nat
    BY <2>1
  <2>3. QED
    BY <2>1, <2>2, IntMax
<1>2. Array \in Seq(Starts(Loaded)) /\ Len(Array) = Cardinality(Starts(Loaded))
  BY <1>1, SuffixArrayOrdered DEF Array
<1> DEFINE packed == [k \in DOMAIN Array |-> R!Pack(Array[k])]
<1>3. idx \in Prefixes(packed)
  BY DEF FilesAreMade, WholeIndex, Array, Loaded
<1>4. DOMAIN Array = 1 .. Len(Array) /\ Len(Array) \in Nat
  BY <1>2
<1> HIDE DEF Array
<1>5. Len(idx) \in 0 .. Len(Array) /\ \A k \in 1 .. Len(idx) : idx[k] = packed[k]
  <2>1. packed = [k \in 1 .. Len(Array) |-> packed[k]]
    BY <1>4
  <2> HIDE DEF packed
  <2>2. QED
    BY <1>3, <1>4, <2>1, PrefixOf
<1>6. ASSUME NEW k \in 1 .. Len(Array)
      PROVE  Array[k] \in Starts(Loaded) /\ Position(packed[k]) = Array[k]
  <2>1. Array[k] \in Starts(Loaded) /\ packed[k] = R!Pack(Array[k])
    BY <1>2, <1>4
  <2>2. Array[k] \in Nat /\ Array[k] <= INT_MAX
    BY <1>1, <2>1, IntMax DEF Starts
  <2>3. QED
    BY <2>1, <2>2, PositionKept
<1>7. IndexWhole => Len(idx) = Len(Array)
  BY <1>2 DEF IndexWhole, Loaded
<1> HIDE DEF packed
<1>8. QED
  BY <1>2, <1>4, <1>5, <1>6, <1>7

(* Every table of verdicts has a boundary: the last entry below the word,  *)
(* or the first entry.                                                     *)
LEMMA BoundaryExists ==
  ASSUME NEW n \in Nat, n > 0, NEW b
  PROVE  \E k \in 1 .. n : IsBoundary(n, b, k)
<1> DEFINE Down == {m \in 0 .. n - 1 : n - m = 1 \/ b[n - m]}
<1>1. Down \subseteq Nat /\ n - 1 \in Down
  OBVIOUS
<1>2. PICK m \in Down : \A j \in Down : m <= j
  BY <1>1, LeastExists
<1>3. n - m \in 1 .. n /\ (n - m = 1 \/ b[n - m])
  BY <1>2
<1>4. ASSUME n - m # n PROVE ~ b[(n - m) + 1]
  <2>1. m - 1 \in 0 .. n - 1 /\ n - (m - 1) = (n - m) + 1 /\ ~ (m <= m - 1)
    BY <1>2, <1>4
  <2>2. m - 1 \notin Down
    BY <1>2, <2>1
  <2>3. QED
    BY <2>1, <2>2
<1>5. IsBoundary(n, b, n - m)
  BY <1>3, <1>4 DEF IsBoundary
<1>6. QED
  BY <1>3, <1>5

(* What lower_bound is told of record k of the index.                      *)
Verdict(word, k) == CaseLess(ReadAt(text, Position(idx[k]), Len(word)), word)

(* lower_bound ends the records below the word, as far as they are first.  *)
LEMMA LowerBoundFound ==
  ASSUME Len(idx) \in Nat, Len(idx) > 0, NEW word
  PROVE  /\ lower_bound(word) \in 1 .. Len(idx)
         /\ lower_bound(word) = 1 \/ Verdict(word, lower_bound(word))
         /\ lower_bound(word) = Len(idx) \/ ~ Verdict(word, lower_bound(word) + 1)
<1> DEFINE n == Len(idx)
           b == [k \in 1 .. n |-> CaseLess(ReadAt(text, Position(idx[k]), Len(word)), word)]
           l == lower_bound(word)
<1>1. l = CHOOSE k \in 1 .. n : IsBoundary(n, b, k)
  BY DEF lower_bound
<1>2. \E k \in 1 .. n : IsBoundary(n, b, k)
  BY BoundaryExists
<1>3. l \in 1 .. n /\ IsBoundary(n, b, l)
  <2> HIDE DEF b, l
  <2>1. QED
    BY <1>1, <1>2, Zenon
<1>4. \A k \in 1 .. n : b[k] = Verdict(word, k)
  BY DEF Verdict
<1> HIDE DEF b, l
<1>5. l = n \/ l + 1 \in 1 .. n
  BY <1>3
<1>6. QED
  BY <1>3, <1>4, <1>5 DEF IsBoundary, l

(* The hits of a word in a text that is loaded as it is: those between the *)
(* bounds, and the first record when no record is below the word.          *)
LEMMA HitsBetweenBounds ==
  ASSUME text \in Texts, FilesAreMade, phase # "start", ~ SearchRaises, Aligned,
         NEW word \in Seq(Byte)
  PROVE  LET lb == lower_bound(word)
             ub == upper_bound(word)
         IN  /\ lb \in 1 .. Len(idx) /\ ub \in 1 .. Len(idx) /\ lb <= ub
             /\ \A k \in lb + 1 .. ub : Occurs(word, Array[k])
             /\ \A k \in 1 .. Len(idx) :
                  Occurs(word, Array[k]) => k \in lb + 1 .. ub \/ (k = 1 /\ WordIsLowest(word))
             /\ WordIsLowest(word) => lb = 1
<1> DEFINE n == Len(idx)
           top == Append(word, 255)
           lb == lower_bound(word)
           ub == upper_bound(word)
<1>1. /\ text \in Seq(Byte) /\ IsUTF8(text) /\ HasNoNUL(text) /\ Loaded = text
      /\ top \in Seq(Byte) /\ Len(top) = Len(word) + 1 /\ Len(word) \in Nat
  BY TextIsUTF8, AlignedLoads, LoweredTop
<1>2. /\ n \in Nat /\ n > 0 /\ n <= Len(Array) /\ Len(Array) \in Nat
      /\ \A k \in 1 .. Len(Array) : Array[k] \in Starts(text) /\ Array[k] \in 0 .. Len(text)
      /\ \A k \in 1 .. n : /\ Position(idx[k]) = Array[k]
                           /\ Array[k] \in Starts(text) /\ Array[k] \in 0 .. Len(text)
  <2>1. ~ (n < 2)
    BY DEF SearchRaises
  <2>2. Starts(text) \subseteq 0 .. Len(text)
    BY <1>1 DEF Starts
  <2>3. QED
    BY <1>1, <2>1, <2>2, IndexIsArray
<1>3. \A j, k \in 1 .. Len(Array) : j < k => SuffixLess(text, Array[j], Array[k])
  BY <1>1, <1>2, SuffixArrayOrdered DEF Array
<1>4. \A p \in Starts(text) : \E k \in 1 .. Len(Array) : Array[k] = p
  BY <1>1, <1>2, SuffixArrayOrdered DEF Array
<1>5. /\ lb \in 1 .. n /\ (lb = 1 \/ Verdict(word, lb))
      /\ lb = n \/ ~ Verdict(word, lb + 1)
  BY <1>2, LowerBoundFound
<1>6. /\ ub \in 1 .. n /\ (ub = 1 \/ Verdict(top, ub))
      /\ ub = n \/ ~ Verdict(top, ub + 1)
  BY <1>2, LowerBoundFound DEF upper_bound
<1>7. ASSUME NEW w \in Seq(Byte), NEW j \in 1 .. n, NEW k \in 1 .. n, j < k, Verdict(w, k)
      PROVE  Verdict(w, j)
  <2>1. CaseLess(ReadAt(text, Array[k], Len(w)), w)
    BY <1>2, <1>7 DEF Verdict
  <2>4. SuffixLess(text, Array[j], Array[k])
    BY <1>2, <1>3, <1>7
  <2>2. CaseLess(ReadAt(text, Array[j], Len(w)), w)
    BY <1>1, <1>2, <1>7, <2>1, <2>4, ReadKeepsOrder
  <2>3. QED
    BY <1>2, <2>2 DEF Verdict
<1>8. ASSUME NEW k \in 1 .. n
      PROVE  Occurs(word, Array[k]) <=> ~ Verdict(word, k) /\ Verdict(top, k)
  <2>1. Lowered(ReadAt(text, Array[k], Len(word))) = Lowered(word) <=>
          /\ ~ CaseLess(ReadAt(text, Array[k], Len(word)), word)
          /\ CaseLess(ReadAt(text, Array[k], Len(word) + 1), Append(word, 255))
    BY <1>1, <1>2, OccursBetween
  <2>2. QED
    BY <1>1, <1>2, <2>1 DEF Occurs, Verdict
<1>9. ASSUME NEW k \in 1 .. n, Verdict(word, k)
      PROVE  Verdict(top, k)
  BY <1>1, <1>2, <1>9, ShortReadBelow DEF Verdict
<1> HIDE DEF lb, ub, top, n
<1>10. lb <= ub
  <2> SUFFICES ASSUME ub < lb PROVE FALSE
    BY <1>2, <1>5, <1>6
  <2>1. ub + 1 \in 1 .. n /\ ub # n /\ lb # 1 /\ (ub + 1 = lb \/ ub + 1 < lb)
    BY <1>2, <1>5, <1>6
  <2>2. Verdict(word, ub + 1)
    BY <1>5, <1>7, <2>1
  <2>3. QED
    BY <1>6, <1>9, <2>1, <2>2
<1>11. ASSUME NEW k \in lb + 1 .. ub
       PROVE  Occurs(word, Array[k])
  <2>1. k \in 1 .. n /\ lb + 1 \in 1 .. n /\ lb # n /\ ub # 1
        /\ (lb + 1 = k \/ lb + 1 < k) /\ (k = ub \/ k < ub)
    BY <1>2, <1>5, <1>6, <1>11
  <2>2. ~ Verdict(word, k)
    BY <1>5, <1>7, <2>1
  <2>3. Verdict(top, k)
    BY <1>1, <1>6, <1>7, <2>1
  <2>4. QED
    BY <1>8, <2>1, <2>2, <2>3
<1>12. ASSUME NEW k \in 1 .. n, Occurs(word, Array[k])
       PROVE  k \in lb + 1 .. ub \/ (k = 1 /\ WordIsLowest(word))
  <2>1. ~ Verdict(word, k) /\ Verdict(top, k)
    BY <1>8, <1>12
  <2>2. k <= ub
    <3> SUFFICES ASSUME ub < k PROVE FALSE
      BY <1>2, <1>6
    <3>1. ub + 1 \in 1 .. n /\ ub # n /\ (ub + 1 = k \/ ub + 1 < k)
      BY <1>2, <1>6
    <3>2. QED
      BY <1>1, <1>6, <1>7, <2>1, <3>1
  <2>3. CASE lb < k
    BY <1>2, <1>5, <1>6, <2>2, <2>3
  <2>4. CASE k <= lb
    <3>1. lb = 1 /\ k = 1
      <4>1. lb # 1 => Verdict(word, k)
        <5>1. k = lb \/ k < lb
          BY <1>2, <1>5, <2>4
        <5>2. QED
          BY <1>5, <1>7, <5>1
      <4>2. QED
        BY <1>2, <1>5, <2>1, <2>4, <4>1
    <3>2. \A p \in Starts(text) : ~ CaseLess(ReadAt(text, p, Len(word)), word)
      <4> SUFFICES ASSUME NEW p \in Starts(text),
                          CaseLess(ReadAt(text, p, Len(word)), word)
                   PROVE  FALSE
        OBVIOUS
      <4>1. PICK j \in 1 .. Len(Array) : Array[j] = p
        BY <1>4
      <4>2. 1 \in 1 .. n /\ 1 \in 1 .. Len(Array) /\ (j = 1 \/ 1 < j)
        BY <1>2
      <4>3. Verdict(word, 1)
        <5>1. CASE j = 1
          BY <1>2, <4>1, <4>2, <5>1 DEF Verdict
        <5>2. CASE 1 < j
          <6>1. SuffixLess(text, Array[1], Array[j])
            BY <1>3, <4>2, <5>2
          <6>2. CaseLess(ReadAt(text, Array[1], Len(word)), word)
            BY <1>1, <1>2, <4>1, <4>2, <6>1, ReadKeepsOrder
          <6>3. QED
            BY <1>2, <4>2, <6>2 DEF Verdict
        <5>3. QED
          BY <4>2, <5>1, <5>2
      <4>4. QED
        BY <2>1, <3>1, <4>3
    <3>3. QED
      BY <3>1, <3>2 DEF WordIsLowest
  <2>5. QED
    BY <1>2, <1>5, <2>3, <2>4
<1>13. ASSUME WordIsLowest(word) PROVE lb = 1
  <2>1. ~ Verdict(word, lb)
    BY <1>2, <1>5, <1>13 DEF WordIsLowest, Verdict
  <2>2. QED
    BY <1>5, <2>1
<1>14. QED
  BY <1>5, <1>6, <1>10, <1>11, <1>12, <1>13 DEF lb, ub, n

(* The hits a search counts.                                               *)
Counted(word) ==
  IF WordIsLowest(word) THEN Occurrences(word) \ {Position(idx[1])}
                        ELSE Occurrences(word)

(* The distance of the bounds is the number of hits in the index file,     *)
(* which has them all when it is whole.                                    *)
LEMMA HitsCounted ==
  ASSUME text \in Texts, FilesAreMade, phase # "start", ~ SearchRaises, Aligned,
         NEW word \in Seq(Byte)
  PROVE  /\ upper_bound(word) - lower_bound(word) =
               Cardinality(Counted(word) \intersect Indexed)
         /\ IndexWhole => Counted(word) \subseteq Indexed
<1> DEFINE lb == lower_bound(word)
           ub == upper_bound(word)
           n == Len(idx)
           T == Counted(word) \intersect Indexed
           D == lb + 1 .. ub
           f == [k \in D |-> Array[k]]
<1>1. /\ lb \in 1 .. n /\ ub \in 1 .. n /\ lb <= ub
      /\ \A k \in D : Occurs(word, Array[k])
      /\ \A k \in 1 .. n :
           Occurs(word, Array[k]) => k \in D \/ (k = 1 /\ WordIsLowest(word))
      /\ WordIsLowest(word) => lb = 1
  BY HitsBetweenBounds
<1>2. Loaded = text /\ text \in Seq(Byte) /\ HasNoNUL(text)
  BY TextIsUTF8, AlignedLoads
<1>3. /\ n \in Nat /\ n <= Len(Array) /\ Len(Array) \in Nat
      /\ IndexWhole => n = Len(Array)
      /\ \A k \in 1 .. n : Position(idx[k]) = Array[k] /\ Array[k] \in Starts(text)
  BY <1>2, IndexIsArray
<1>4. /\ \A j, k \in 1 .. Len(Array) : j < k => SuffixLess(text, Array[j], Array[k])
      /\ \A p \in Starts(text) : \E k \in 1 .. Len(Array) : Array[k] = p
  BY <1>2, SuffixArrayOrdered DEF Array
<1>14. IndexWhole => Counted(word) \subseteq Indexed
  BY <1>3, <1>4 DEF Counted, Occurrences, Indexed
<1>5. \A j, k \in 1 .. n : j # k => Array[j] # Array[k]
  <2>1. \A p \in Starts(text) : ~ SuffixLess(text, p, p)
    <3>1. Starts(text) \subseteq 0 .. Len(text)
      BY <1>2 DEF Starts
    <3>2. QED
      BY <1>2, <3>1, SameSuffixReflexive
  <2>2. \A j, k \in 1 .. n : j # k => j < k \/ k < j
    BY <1>3
  <2>3. QED
    BY <1>3, <1>4, <2>1, <2>2
<1> HIDE DEF lb, ub, n
<1>6. D \subseteq 1 .. n /\ \A k \in D : lb < k
  BY <1>1, <1>3
<1>7. f \in [D -> T]
  <2> SUFFICES ASSUME NEW k \in D PROVE Array[k] \in T
    OBVIOUS
  <2>1. k \in 1 .. n /\ lb < k
    BY <1>6
  <2>2. Array[k] \in Occurrences(word)
    BY <1>1, <1>3, <2>1 DEF Occurrences
  <2>3. WordIsLowest(word) => Array[k] # Position(idx[1])
    <3> SUFFICES ASSUME WordIsLowest(word) PROVE Array[k] # Position(idx[1])
      OBVIOUS
    <3>1. k # 1 /\ 1 \in 1 .. n
      BY <1>1, <1>3, <2>1
    <3>2. QED
      BY <1>3, <1>5, <2>1, <3>1
  <2>4. Array[k] \in Indexed
    BY <1>3, <2>1 DEF Indexed, n
  <2>5. QED
    BY <2>2, <2>3, <2>4 DEF Counted
<1>8. \A j, k \in D : f[j] = f[k] => j = k
  BY <1>5, <1>6
<1>9. ASSUME NEW p \in T PROVE \E k \in D : f[k] = p
  <2>1. p \in Occurrences(word) /\ p \in Starts(text) /\ Occurs(word, p)
    BY <1>9 DEF Counted, Occurrences
  <2>2. PICK k \in 1 .. n : Array[k] = p
    BY <1>3, <1>9 DEF Indexed, n
  <2>3. k \in D \/ (k = 1 /\ WordIsLowest(word))
    BY <1>1, <2>1, <2>2
  <2>4. ~ (k = 1 /\ WordIsLowest(word))
    BY <1>3, <1>9, <2>2 DEF Counted
  <2>5. QED
    BY <2>2, <2>3, <2>4
<1> HIDE DEF D, T, f
<1>10. ExistsBijection(D, T)
  <2>1. f \in Injection(D, T)
    BY <1>7, <1>8, Zenon DEF Injection, IsInjective
  <2>2. f \in Surjection(D, T)
    BY <1>7, <1>9, Zenon DEF Surjection
  <2>3. QED
    BY <2>1, <2>2, Zenon DEF ExistsBijection, Bijection
<1>11. IsFiniteSet(D) /\ Cardinality(D) = ub - lb
  <2>1. lb + 1 \in Int /\ ub \in Int
    BY <1>1, <1>3
  <2>2. IsFiniteSet(D) /\ Cardinality(D) = IF lb + 1 > ub THEN 0 ELSE ub - (lb + 1) + 1
    BY <2>1, FS_Interval DEF D
  <2>3. QED
    BY <1>1, <1>3, <2>2
<1>12. Cardinality(T) = ub - lb
  BY <1>10, <1>11, FS_Bijection
<1>13. QED
  BY <1>12, <1>14 DEF T, lb, ub

(* The rows of a range of records: none when it is empty, and no more than *)
(* the limit.                                                              *)
LEMMA RowsOfRange ==
  ASSUME Len(idx) \in Nat, \A k \in 1 .. Len(idx) : Position(idx[k]) \in Nat,
         NEW lb \in 1 .. Len(idx), NEW ub \in 1 .. Len(idx)
  PROVE  /\ PositionsIn(lb, ub) \in Seq(Nat)
         /\ Len(PositionsIn(lb, ub)) = IF ub <= lb THEN 0 ELSE ub - lb
         /\ \A k \in 1 .. Len(PositionsIn(lb, ub)) :
              lb + k \in lb + 1 .. ub /\ PositionsIn(lb, ub)[k] = Position(idx[lb + k])
         /\ Rows(lb, ub) \in Seq(Nat)
         /\ Len(Rows(lb, ub)) = IF ub <= lb THEN 0
                                ELSE IF ub - lb <= RowLimit THEN ub - lb ELSE
                                     IF ub - lb <= RowLimit + 1 THEN ub - lb ELSE RowLimit + 1
         /\ \A k \in 1 .. Len(Rows(lb, ub)) :
              lb + k \in lb + 1 .. ub /\ Rows(lb, ub)[k] = Position(idx[lb + k])
<1> DEFINE d == IF ub <= lb THEN 0 ELSE ub - lb
           all == [k \in 1 .. d |-> Position(idx[lb + k])]
<1>1. d \in Nat /\ 1 .. ub - lb = 1 .. d
  OBVIOUS
<1>2. PositionsIn(lb, ub) = all
  BY <1>1, Zenon DEF PositionsIn
<1>3. \A k \in 1 .. d : lb + k \in lb + 1 .. ub /\ lb + k \in 1 .. Len(idx)
  OBVIOUS
<1> HIDE DEF d
<1>4. /\ all \in Seq(Nat) /\ Len(all) = d
      /\ \A k \in 1 .. d : all[k] = Position(idx[lb + k])
  <2>1. all \in [1 .. d -> Nat]
    BY <1>3
  <2>2. QED
    BY <1>1, <2>1
<1> DEFINE m == IF d <= RowLimit THEN d ELSE RowLimit + 1
<1>5. Rows(lb, ub) = SubSeq(all, 1, m)
  BY <1>2, <1>4 DEF Rows
<1>6. m \in Nat /\ m <= d
  BY <1>1, RowLimitAssumption
<1> HIDE DEF all
<1>7. /\ Rows(lb, ub) \in Seq(Nat) /\ Len(Rows(lb, ub)) = m
      /\ \A k \in 1 .. m : Rows(lb, ub)[k] = all[k] /\ k \in 1 .. d
  <2> HIDE DEF m
  <2>1. QED
    BY <1>1, <1>4, <1>5, <1>6
<1>8. m = IF ub <= lb THEN 0
          ELSE IF ub - lb <= RowLimit THEN ub - lb ELSE
               IF ub - lb <= RowLimit + 1 THEN ub - lb ELSE RowLimit + 1
  BY RowLimitAssumption DEF d
<1> HIDE DEF m
<1>9. \A k \in 1 .. Len(Rows(lb, ub)) :
        lb + k \in lb + 1 .. ub /\ Rows(lb, ub)[k] = Position(idx[lb + k])
  BY <1>3, <1>4, <1>7
<1>10. QED
  BY <1>2, <1>3, <1>4, <1>7, <1>8, <1>9 DEF d

(* The rows of a word searched, whether the text is loaded as it is or not. *)
LEMMA RowsOfSearch ==
  ASSUME text \in Texts, FilesAreMade, phase # "start", ~ SearchRaises, NEW word
  PROVE  LET lb == lower_bound(word)
             ub == upper_bound(word)
         IN  /\ lb \in 1 .. Len(idx) /\ ub \in 1 .. Len(idx) /\ Len(idx) \in Nat
             /\ \A k \in 1 .. Len(idx) : Position(idx[k]) \in Nat
<1>1. Len(idx) \in Nat /\ Len(idx) > 0
  <2>1. Len(idx) \in Nat
    BY IndexIsArray
  <2>2. QED
    BY <2>1 DEF SearchRaises
<1>2. Loaded \in Seq(Byte)
  BY TextIsUTF8
<1>3. Starts(Loaded) \subseteq Nat
  BY <1>2 DEF Starts
<1>4. \A k \in 1 .. Len(idx) : Position(idx[k]) \in Nat
  BY <1>3, IndexIsArray
<1>5. QED
  BY <1>1, <1>4, LowerBoundFound DEF upper_bound

(* Every row is a hit, shown as its line, and there are as many as the     *)
(* count says.                                                             *)
LEMMA RowsHit ==
  ASSUME IInv
  PROVE  RowsAreHits
<1>1. CASE NoRows
  BY <1>1 DEF NoRows, RowsAreHits
<1>2. CASE RowsOfWord
  <2> DEFINE word == last_search_word
             lb == lower_bound(word)
             ub == upper_bound(word)
             n == Len(last_pos_list)
  <2>1. /\ text \in Texts /\ FilesAreMade /\ phase # "start" /\ ~ SearchRaises
        /\ word \in Words /\ last_pos_list = Rows(lb, ub)
        /\ last_text_list = [k \in DOMAIN Rows(lb, ub) |-> ReadLine(text, Rows(lb, ub)[k])]
        /\ last_result_count \in {0, ub - lb}
    BY <1>2 DEF IInv, RowsOfWord, Session
  <2>2. /\ lb \in 1 .. Len(idx) /\ ub \in 1 .. Len(idx) /\ Len(idx) \in Nat
        /\ \A k \in 1 .. Len(idx) : Position(idx[k]) \in Nat
    BY <2>1, RowsOfSearch
  <2>3. /\ Rows(lb, ub) \in Seq(Nat)
        /\ Len(Rows(lb, ub)) = IF ub <= lb THEN 0
                               ELSE IF ub - lb <= RowLimit THEN ub - lb ELSE
                                    IF ub - lb <= RowLimit + 1 THEN ub - lb ELSE RowLimit + 1
        /\ \A k \in 1 .. Len(Rows(lb, ub)) :
             lb + k \in lb + 1 .. ub /\ Rows(lb, ub)[k] = Position(idx[lb + k])
    BY <2>2, RowsOfRange
  <2>4. Aligned => \A k \in lb + 1 .. ub : Occurs(word, Array[k])
    BY <2>1, WordIsBytes, HitsBetweenBounds
  <2>5. \A k \in 1 .. Len(idx) : Position(idx[k]) = Array[k]
    BY <2>1, IndexIsArray
  <2> HIDE DEF lb, ub
  <2>6. /\ last_pos_list \in Seq(Nat) /\ n \in Nat
        /\ last_text_list = [k \in 1 .. n |-> ReadLine(text, last_pos_list[k])]
    BY <2>1, <2>3
  <2>7. n = Len(last_text_list)
    BY <2>6
  <2>8. \A k \in 1 .. n :
          /\ Aligned => Occurs(word, last_pos_list[k])
          /\ last_text_list[k] = ReadLine(text, last_pos_list[k])
    <3> SUFFICES ASSUME NEW k \in 1 .. n
                 PROVE  /\ Aligned => Occurs(word, last_pos_list[k])
                        /\ last_text_list[k] = ReadLine(text, last_pos_list[k])
      OBVIOUS
    <3>1. lb + k \in lb + 1 .. ub /\ lb + k \in 1 .. Len(idx)
          /\ last_pos_list[k] = Array[lb + k]
      BY <2>1, <2>2, <2>3, <2>5
    <3>2. QED
      BY <2>4, <2>6, <3>1
  <2>9. last_result_count # 0 => n = Max({0, Min({last_result_count, RowLimit + 1})})
    <3> SUFFICES ASSUME last_result_count # 0
                 PROVE  n = Max({0, Min({last_result_count, RowLimit + 1})})
      OBVIOUS
    <3> DEFINE c == last_result_count
               a == Min({c, RowLimit + 1})
    <3>1. c = ub - lb /\ c \in Int
      BY <2>1, <2>2
    <3>2. \A x, y \in Int : Min({x, y}) = IF x <= y THEN x ELSE y
      BY DEF Min
    <3>3. \A x, y \in Int : Max({x, y}) = IF x >= y THEN x ELSE y
      BY DEF Max
    <3>4. a = (IF c <= RowLimit + 1 THEN c ELSE RowLimit + 1) /\ a \in Int
      BY <3>1, <3>2, RowLimitAssumption
    <3> HIDE DEF a, c
    <3>5. Max({0, a}) = IF 0 >= a THEN 0 ELSE a
      BY <3>3, <3>4
    <3>6. n = IF 0 >= a THEN 0 ELSE a
      BY <2>1, <2>2, <2>3, <3>1, <3>4, RowLimitAssumption
    <3>7. QED
      BY <3>5, <3>6 DEF a, c
  <2>10. QED
    BY <2>7, <2>8, <2>9 DEF RowsAreHits
<1>3. QED
  BY <1>1, <1>2 DEF IInv

(* A search that ended well counted the hits of its word.                  *)
LEMMA CountsHold ==
  ASSUME IInv
  PROVE  CountsOccurrences
<1> SUFFICES ASSUME ret.op = "search", ret.ok, ret.word # <<>>, Aligned
             PROVE  /\ ret.count = Cardinality(Counted(ret.word) \intersect Indexed)
                    /\ IndexWhole => Counted(ret.word) \subseteq Indexed
  BY Zenon DEF CountsOccurrences, Counted
<1>1. /\ text \in Texts /\ FilesAreMade /\ phase # "start" /\ ~ SearchRaises
      /\ ret.word \in Words /\ ret.count = upper_bound(ret.word) - lower_bound(ret.word)
  BY DEF IInv, CountOfWord, Session
<1>2. ret.word \in Seq(Byte)
  BY <1>1, WordIsBytes
<1>3. QED
  BY <1>1, <1>2, HitsCounted

(* A member no smaller, or no greater, than the others is the maximum, or  *)
(* the minimum, of a set.                                                  *)
LEMMA Extremes ==
  ASSUME NEW S, S \subseteq Int, NEW m \in S
  PROVE  /\ (\A x \in S : x <= m) => Max(S) = m
         /\ (\A x \in S : m <= x) => Min(S) = m
<1>1. ASSUME \A x \in S : x <= m PROVE Max(S) = m
  <2> DEFINE M == Max(S)
  <2>1. M = CHOOSE x \in S : \A y \in S : x >= y
    BY DEF Max
  <2>2. \A y \in S : m >= y
    BY <1>1
  <2> HIDE DEF M
  <2>3. M \in S /\ \A y \in S : M >= y
    BY <2>1, <2>2
  <2>4. M >= m /\ M <= m /\ M \in Int /\ m \in Int
    BY <1>1, <2>3
  <2>5. QED
    BY <2>4 DEF M
<1>2. ASSUME \A x \in S : m <= x PROVE Min(S) = m
  <2> DEFINE M == Min(S)
  <2>1. M = CHOOSE x \in S : \A y \in S : x <= y
    BY DEF Min
  <2> HIDE DEF M
  <2>2. M \in S /\ \A y \in S : M <= y
    BY <1>2, <2>1
  <2>3. M >= m /\ M <= m /\ M \in Int /\ m \in Int
    BY <1>2, <2>2
  <2>4. QED
    BY <2>3 DEF M
<1>3. QED
  BY <1>1, <1>2

(* Sorting keeps the values of a list and their number, and puts the least *)
(* one first.                                                              *)
LEMMA SortedSame ==
  ASSUME NEW list \in Seq(Nat)
  PROVE  /\ DOMAIN Sorted(list) = 1 .. Len(list)
         /\ \A k \in 1 .. Len(list) : \E j \in 1 .. Len(list) : Sorted(list)[k] = list[j]
         /\ \A j \in 1 .. Len(list) : \E k \in 1 .. Len(list) : Sorted(list)[k] = list[j]
         /\ \A j \in 1 .. Len(list) : Sorted(list)[1] <= list[j]
<1> DEFINE n == Len(list)
           S == DOMAIN list
           before == [k \in S |-> {l \in S : list[l] < list[k] \/ (list[l] = list[k] /\ l < k)}]
           order == Ordered(S, LAMBDA k, l : list[k] < list[l] \/ (list[k] = list[l] /\ k < l))
<1>1. S = 1 .. n /\ n \in Nat /\ \A k \in S : list[k] \in Nat /\ k \in Nat
  OBVIOUS
<1>2. IsFiniteSet(S) /\ Cardinality(S) = n
  <2>1. IsFiniteSet(1 .. n) /\ Cardinality(1 .. n) = IF 1 > n THEN 0 ELSE n - 1 + 1
    BY <1>1, FS_Interval
  <2>2. QED
    BY <1>1, <2>1
<1> HIDE DEF n, S
<1>3. /\ before \in [S -> SUBSET S]
      /\ \A p \in S : p \notin before[p]
      /\ \A p, q \in S : p # q => p \in before[q] \/ q \in before[p]
      /\ \A p, q \in S : p \in before[q] => before[p] \subseteq before[q]
  <2>1. before \in [S -> SUBSET S] /\ \A p \in S : p \notin before[p]
    BY <1>1
  <2>2. \A p, q \in S : p # q => p \in before[q] \/ q \in before[p]
    BY <1>1
  <2>3. \A p, q, r \in S : p \in before[q] /\ r \in before[p] => r \in before[q]
    BY <1>1
  <2>4. \A p \in S : before[p] \subseteq S
    OBVIOUS
  <2> HIDE DEF before
  <2>5. \A p, q \in S : p \in before[q] => before[p] \subseteq before[q]
    BY <2>3, <2>4
  <2>6. QED
    BY <2>1, <2>2, <2>5
<1>4. /\ \A p \in S : Cardinality(before[p]) + 1 \in 1 .. n
      /\ \A k \in 1 .. n : \E p \in S : Cardinality(before[p]) = k - 1
  <2> HIDE DEF before
  <2>1. QED
    BY <1>2, <1>3, Ranks
<1>5. order = [k \in 1 .. n |->
                 CHOOSE p \in S : Cardinality({q \in S :
                   list[q] < list[p] \/ (list[q] = list[p] /\ q < p)}) = k - 1]
  BY <1>2, Zenon DEF Ordered
<1>10. \A p \in S : before[p] = {q \in S : list[q] < list[p] \/ (list[q] = list[p] /\ q < p)}
  OBVIOUS
<1> HIDE DEF before, order
<1>6. \A k \in 1 .. n : order[k] \in S /\ Cardinality(before[order[k]]) = k - 1
  BY <1>4, <1>5, <1>10
<1>7. Sorted(list) = [k \in S |-> list[order[k]]]
  BY DEF Sorted, S, order
<1>13. ASSUME NEW j \in S PROVE list[order[1]] <= list[j]
  <2>1. 1 \in 1 .. n
    BY <1>1
  <2>2. order[1] \in S /\ Cardinality(before[order[1]]) = 0
    BY <1>6, <2>1
  <2>3. before[order[1]] \in SUBSET S
    BY <1>3, <2>2
  <2>4. before[order[1]] = {}
    BY <1>2, <2>2, <2>3, FS_Subset, FS_EmptySet
  <2>5. ~ (list[j] < list[order[1]])
    BY <1>10, <2>2, <2>4
  <2>6. QED
    BY <1>1, <2>2, <2>5
<1>8. \A j \in S : \E k \in 1 .. n : order[k] = j
  <2> SUFFICES ASSUME NEW j \in S PROVE \E k \in 1 .. n : order[k] = j
    OBVIOUS
  <2> DEFINE k == Cardinality(before[j]) + 1
  <2>1. k \in 1 .. n /\ Cardinality(before[j]) \in Int
    <3>1. before[j] \in SUBSET S
      BY <1>3
    <3>2. Cardinality(before[j]) \in Int
      BY <1>2, <3>1, FS_Subset, FS_CardinalityType
    <3>3. QED
      BY <1>4, <3>2
  <2>2. order[k] \in S /\ Cardinality(before[order[k]]) = Cardinality(before[j])
    BY <1>6, <2>1
  <2>3. \A p, q \in S : p \in before[q] => Cardinality(before[p]) < Cardinality(before[q])
    BY <1>2, <1>3, Ranks
  <2> HIDE DEF k
  <2>4. order[k] = j
    BY <1>3, <2>1, <2>2, <2>3
  <2>5. QED
    BY <2>1, <2>4
<1> HIDE DEF order
<1>9. /\ DOMAIN Sorted(list) = S /\ \A k \in S : Sorted(list)[k] = list[order[k]]
  BY <1>7, Zenon
<1>11. /\ DOMAIN Sorted(list) = 1 .. n
       /\ \A k \in 1 .. n : \E j \in 1 .. n : Sorted(list)[k] = list[j]
       /\ \A j \in 1 .. n : \E k \in 1 .. n : Sorted(list)[k] = list[j]
       /\ \A j \in 1 .. n : Sorted(list)[1] <= list[j]
  <2>1. \A k \in 1 .. n : \E j \in 1 .. n : Sorted(list)[k] = list[j]
    BY <1>1, <1>6, <1>9, Zenon
  <2>2. \A j \in 1 .. n : \E k \in 1 .. n : Sorted(list)[k] = list[j]
    BY <1>1, <1>8, <1>9, Zenon
  <2>4. \A j \in 1 .. n : Sorted(list)[1] <= list[j]
    <3> SUFFICES ASSUME NEW j \in 1 .. n PROVE Sorted(list)[1] <= list[j]
      OBVIOUS
    <3>1. 1 \in S /\ j \in S
      BY <1>1
    <3>2. Sorted(list)[1] = list[order[1]]
      BY <1>9, <3>1
    <3>3. QED
      BY <1>13, <3>1, <3>2
  <2>3. QED
    BY <1>1, <1>9, <2>1, <2>2, <2>4
<1>12. QED
  BY <1>11 DEF n

(* A newline occurs where the byte is one, at a start of the text.         *)
LEMMA NewlineOccurs ==
  ASSUME NEW p \in 0 .. Len(text) - 1, text \in Seq(Byte)
  PROVE  /\ text[p + 1] = Newline => p \in Starts(text)
         /\ Occurs(<<Newline>>, p) <=> text[p + 1] = Newline
         /\ CaseLess(ReadAt(text, p, 1), <<Newline>>) <=> Lower(text[p + 1]) < Newline
<1> DEFINE b == text[p + 1]
           r == ReadAt(text, p, 1)
           w == <<Newline>>
<1>1. p + 1 \in 1 .. Len(text) /\ p \in Nat /\ p + 1 <= Len(text) /\ b \in Byte
  OBVIOUS
<1>2. r = <<b>>
  <2>1. r = SubSeq(text, p + 1, p + 1)
    BY <1>1 DEF ReadAt
  <2>2. QED
    BY <1>1, <2>1
<1>3. Lower(b) \in Byte /\ Lower(b) \in Int
  BY <1>1, ByteRange DEF Byte
<1>4. Lower(b) = Newline <=> b = Newline
  <2> HIDE DEF b
  <2>1. b \in Int
    BY <1>1 DEF Byte
  <2>2. QED
    BY <2>1 DEF Lower, Letters, Newline
<1>5. Lower(Newline) = Newline /\ Newline \in Byte
  BY DEF Lower, Letters, Newline, Byte
<1> HIDE DEF b
<1>6. Lowered(r) = <<Lower(b)>> /\ Lowered(w) = <<Newline>>
  <2>1. \A x : Lowered(<<x>>) = <<Lower(x)>>
    <3> SUFFICES ASSUME NEW x PROVE [k \in 1 .. 1 |-> Lower(<<x>>[k])] = <<Lower(x)>>
      BY DEF Lowered
    <3>1. \A k \in 1 .. 1 : <<x>>[k] = x
      OBVIOUS
    <3> DEFINE y == Lower(x)
    <3>2. [k \in 1 .. 1 |-> Lower(<<x>>[k])] = [k \in 1 .. 1 |-> y]
      BY <3>1, Zenon
    <3> HIDE DEF y
    <3>3. [k \in 1 .. 1 |-> y] = <<y>>
      OBVIOUS
    <3>4. QED
      BY <3>2, <3>3, Zenon DEF y
  <2>2. QED
    BY <1>2, <1>5, <2>1
<1>7. Occurs(w, p) <=> b = Newline
  <2>1. Len(w) = 1
    OBVIOUS
  <2>2. Occurs(w, p) <=> <<Lower(b)>> = <<Newline>>
    BY <1>6, <2>1 DEF Occurs
  <2>3. QED
    BY <1>4, <2>2
<1>8. CaseLess(r, w) <=> Lower(b) < Newline
  <2> DEFINE s == <<Lower(b)>>
             t == <<Newline>>
  <2>1. Len(s) = 1 /\ Len(t) = 1 /\ s[1] = Lower(b) /\ t[1] = Newline
    OBVIOUS
  <2> HIDE DEF s, t
  <2>2. LexLess(s, t) <=> Lower(b) < Newline
    BY <2>1 DEF LexLess
  <2>3. QED
    BY <1>6, <2>2 DEF CaseLess, s, t
<1>9. b = Newline => p \in Starts(text)
  BY <1>1 DEF Starts, UTF8Filter, Newline, b
<1>10. QED
  BY <1>7, <1>8, <1>9 DEF b

(* In a text that ends with a newline, it alone may be left out of the     *)
(* newlines found: it is the suffix below all others.                      *)
LEMMA NewlinesFound ==
  ASSUME text \in Texts, FilesAreMade, phase # "start", ~ SearchRaises, Aligned,
         Last(text) = Newline
  PROVE  LET lb == lower_bound(<<Newline>>)
             ub == upper_bound(<<Newline>>)
         IN  /\ lb \in 1 .. Len(idx) /\ ub \in 1 .. Len(idx) /\ lb <= ub /\ Len(idx) \in Nat
             /\ \A k \in lb + 1 .. ub :
                  /\ k \in 1 .. Len(idx)
                  /\ Position(idx[k]) \in 0 .. Len(text) - 1
                  /\ text[Position(idx[k]) + 1] = Newline
             /\ IndexWhole => \A p \in 0 .. Len(text) - 2 :
                  text[p + 1] = Newline => \E k \in lb + 1 .. ub : Position(idx[k]) = p
<1> DEFINE w == <<Newline>>
           lb == lower_bound(w)
           ub == upper_bound(w)
           n == Len(idx)
<1>1. w \in Seq(Byte) /\ Len(w) = 1
  <2>1. Newline \in Byte
    BY DEF Newline, Byte
  <2>2. QED
    BY <2>1
<1>2. text \in Seq(Byte) /\ HasNoNUL(text) /\ Loaded = text
  BY TextIsUTF8, AlignedLoads
<1>3. /\ n \in Nat /\ n <= Len(Array) /\ Len(Array) \in Nat
      /\ IndexWhole => n = Len(Array)
      /\ Starts(text) \subseteq 0 .. Len(text) - 1
      /\ \A k \in 1 .. n : Position(idx[k]) = Array[k] /\ Array[k] \in Starts(text)
  <2>1. Starts(text) \subseteq 0 .. Len(text) - 1
    BY DEF Starts
  <2>2. QED
    BY <1>2, <2>1, IndexIsArray
<1>4. /\ \A j, k \in 1 .. Len(Array) : j < k => SuffixLess(text, Array[j], Array[k])
      /\ \A p \in Starts(text) : \E k \in 1 .. Len(Array) : Array[k] = p
  BY <1>2, SuffixArrayOrdered DEF Array
<1>5. /\ lb \in 1 .. n /\ ub \in 1 .. n /\ lb <= ub
      /\ \A k \in lb + 1 .. ub : Occurs(w, Array[k])
      /\ \A k \in 1 .. n :
           Occurs(w, Array[k]) => k \in lb + 1 .. ub \/ (k = 1 /\ WordIsLowest(w))
  BY <1>1, HitsBetweenBounds
<1> HIDE DEF lb, ub
<1>6. ASSUME NEW k \in lb + 1 .. ub
      PROVE  /\ k \in 1 .. n /\ Position(idx[k]) \in 0 .. Len(text) - 1
             /\ text[Position(idx[k]) + 1] = Newline
  <2>1. k \in 1 .. n
    BY <1>3, <1>5
  <2>2. Array[k] \in 0 .. Len(text) - 1 /\ Occurs(w, Array[k])
    BY <1>3, <1>5, <2>1
  <2>3. QED
    BY <1>2, <1>3, <2>1, <2>2, NewlineOccurs
<1>7. ASSUME IndexWhole, NEW p \in 0 .. Len(text) - 2, text[p + 1] = Newline
      PROVE  \E k \in lb + 1 .. ub : Position(idx[k]) = p
  <2>1. p \in 0 .. Len(text) - 1 /\ Len(text) \in Nat /\ Len(text) >= 2
    BY <1>2
  <2>2. p \in Starts(text) /\ Occurs(w, p)
    BY <1>2, <1>7, <2>1, NewlineOccurs
  <2>3. PICK k \in 1 .. n : Array[k] = p
    BY <1>3, <1>4, <1>7, <2>2
  <2>4. CASE k \in lb + 1 .. ub
    BY <1>3, <2>3, <2>4
  <2>5. CASE k = 1 /\ WordIsLowest(w)
    <3> DEFINE e == Len(text) - 1
    <3>1. e \in 0 .. Len(text) - 1 /\ e + 1 = Len(text) /\ e # p
      BY <2>1
    <3>2. text[e + 1] = Newline
      BY <3>1, <1>2 DEF Last
    <3>3. e \in Starts(text)
      BY <1>2, <3>1, <3>2, NewlineOccurs
    <3>4. PICK j \in 1 .. n : Array[j] = e
      BY <1>3, <1>4, <1>7, <3>3
    <3>5. SuffixLess(text, p, e)
      <4>1. 1 < j
        <5>1. Array[1] = p /\ Array[j] = e /\ e # p
          BY <2>3, <2>5, <3>1, <3>4
        <5>2. j # 1
          BY <5>1
        <5>3. QED
          BY <1>3, <5>2
      <4>2. QED
        BY <1>3, <1>4, <1>7, <2>3, <2>5, <3>4, <4>1
    <3>6. p \in 0 .. Len(text) /\ e \in 0 .. Len(text)
      BY <2>1
    <3> DEFINE s == Lowered(From(text, p))
               t == Lowered(From(text, e))
    <3>7. LexLess(s, t)
      BY <1>2, <3>5, <3>6, CStringType DEF SuffixLess, CaseLess
    <3>8. /\ From(text, p) \in Seq(Byte) /\ Len(From(text, p)) = Len(text) - p
          /\ From(text, e) \in Seq(Byte) /\ Len(From(text, e)) = 1
          /\ From(text, p)[1] = text[p + 1] /\ From(text, e)[1] = text[e + 1]
      <4> DEFINE fp == From(text, p)
                 fe == From(text, e)
      <4>1. /\ fp \in Seq(Byte) /\ Len(fp) = Len(text) - p
            /\ \A k1 \in 1 .. Len(fp) : fp[k1] = text[p + k1]
        BY <1>2, <3>6, FromType
      <4>2. /\ fe \in Seq(Byte) /\ Len(fe) = Len(text) - e
            /\ \A k1 \in 1 .. Len(fe) : fe[k1] = text[e + k1]
        BY <1>2, <3>6, FromType
      <4> HIDE DEF fp, fe
      <4>3. 1 \in 1 .. Len(fp) /\ 1 \in 1 .. Len(fe) /\ Len(fe) = 1
        <5>1. Len(text) - p >= 1 /\ Len(text) - p \in Int /\ Len(text) - e = 1
          BY <2>1
        <5>2. Len(fp) >= 1 /\ Len(fp) \in Int /\ Len(fe) = 1
          BY <4>1, <4>2, <5>1
        <5>3. QED
          BY <5>2
      <4>4. QED
        BY <4>1, <4>2, <4>3 DEF fp, fe
    <3>9. /\ Len(s) >= 1 /\ s[1] = Lower(Newline)
          /\ Len(t) = 1 /\ t[1] = Lower(Newline) /\ Lower(Newline) = Newline
      <4>1. Lower(Newline) = Newline
        BY DEF Lower, Letters, Newline
      <4>2. Len(s) = Len(text) - p /\ Len(t) = 1
        BY <3>8, LoweredType
      <4>3. s[1] = Lower(From(text, p)[1]) /\ t[1] = Lower(From(text, e)[1])
        <5>1. 1 \in 1 .. Len(From(text, p)) /\ 1 \in 1 .. Len(From(text, e))
          BY <2>1, <3>8
        <5>2. QED
          BY <3>8, <5>1, LoweredType
      <4>4. QED
        BY <1>7, <2>1, <3>2, <3>8, <4>1, <4>2, <4>3
    <3> HIDE DEF s, t
    <3>10. ~ LexLess(s, t)
      BY <3>9 DEF LexLess, Newline
    <3>11. QED
      BY <3>7, <3>10
  <2>6. QED
    BY <1>5, <2>2, <2>3, <2>4, <2>5
<1>8. QED
  BY <1>3, <1>5, <1>6, <1>7 DEF lb, ub

(* The paragraph index has, of the beginning of the text and what follows  *)
(* every newline found, the first ones, whatever the order they were found *)
(* in; and all of them when both files are whole.                          *)
LEMMA ParagraphsStart ==
  ASSUME text \in Texts, FilesAreMade, phase = "ready", Aligned, Last(text) = Newline
  PROVE  LET starts == {Position(pidx[k]) : k \in 1 .. Len(pidx)}
         IN  /\ starts \subseteq 1 .. Len(text) /\ Len(pidx) \in Nat
             /\ Len(pidx) > 0 => 1 \in starts
             /\ \A s \in starts : s = 1 \/ text[s] = Newline
             /\ FilesWhole =>
                  /\ Len(pidx) > 0
                  /\ \A q \in 1 .. Len(text) - 1 : text[q] = Newline => q \in starts
                  /\ (\E q \in 1 .. Len(text) - 1 : text[q] = Newline) => Len(pidx) >= 2
<1> DEFINE w == <<Newline>>
           lb == lower_bound(w)
           ub == upper_bound(w)
           found == PositionsIn(lb, ub)
           dest == <<0>> \o found
           n == Len(dest)
           starts == {Position(pidx[k]) : k \in 1 .. Len(pidx)}
<1>1. text \in Seq(Byte) /\ phase # "start" /\ ~ SearchRaises /\ Len(text) <= INT_MAX
  BY TextIsUTF8 DEF FilesAreMade
<1>2. /\ lb \in 1 .. Len(idx) /\ ub \in 1 .. Len(idx) /\ lb <= ub /\ Len(idx) \in Nat
      /\ \A k \in lb + 1 .. ub :
           /\ k \in 1 .. Len(idx)
           /\ Position(idx[k]) \in 0 .. Len(text) - 1
           /\ text[Position(idx[k]) + 1] = Newline
      /\ IndexWhole => \A p \in 0 .. Len(text) - 2 :
           text[p + 1] = Newline => \E k \in lb + 1 .. ub : Position(idx[k]) = p
  BY <1>1, NewlinesFound
<1>3. \A k \in 1 .. Len(idx) : Position(idx[k]) \in Nat
  BY <1>1, RowsOfSearch
<1>4. pidx \in Prefixes([k \in DOMAIN Sorted(dest) |-> R!Pack(Sorted(dest)[k] + 1)])
  BY Zenon DEF FilesAreMade, ParagraphStarts
<1>19. FilesWhole => IndexWhole /\ Len(pidx) = n
  BY DEF FilesWhole, ParagraphStarts
<1> HIDE DEF lb, ub
<1>5. /\ found \in Seq(Nat) /\ Len(found) = ub - lb
      /\ \A k \in 1 .. Len(found) : lb + k \in lb + 1 .. ub /\ found[k] = Position(idx[lb + k])
  <2>1. /\ found \in Seq(Nat) /\ Len(found) = IF ub <= lb THEN 0 ELSE ub - lb
        /\ \A k \in 1 .. Len(found) :
             lb + k \in lb + 1 .. ub /\ found[k] = Position(idx[lb + k])
    BY <1>2, <1>3, RowsOfRange
  <2>2. QED
    BY <1>2, <2>1
<1> HIDE DEF found
<1>6. /\ dest \in Seq(Nat) /\ n = 1 + (ub - lb) /\ n \in Nat /\ dest[1] = 0
      /\ \A j \in 2 .. n : j - 1 \in 1 .. Len(found) /\ dest[j] = found[j - 1]
  <2> DEFINE zero == <<0>>
  <2>1. zero \in Seq(Nat) /\ Len(zero) = 1 /\ zero[1] = 0
    OBVIOUS
  <2>2. ub - lb \in Nat
    BY <1>2
  <2> HIDE DEF zero
  <2>3. /\ zero \o found \in Seq(Nat) /\ Len(zero \o found) = 1 + Len(found)
        /\ \A j \in 1 .. 1 + Len(found) :
             (zero \o found)[j] = IF j <= 1 THEN zero[j] ELSE found[j - 1]
    <3> HIDE DEF w
    <3>1. /\ zero \o found \in Seq(Nat) /\ Len(zero \o found) = Len(zero) + Len(found)
          /\ \A j \in 1 .. Len(zero) + Len(found) :
               (zero \o found)[j] = IF j <= Len(zero) THEN zero[j] ELSE found[j - Len(zero)]
      BY <1>5, <2>1, ConcatProperties
    <3>2. QED
      BY <2>1, <3>1
  <2>4. dest = zero \o found
    BY DEF zero
  <2> HIDE DEF dest
  <2>5. n = 1 + (ub - lb) /\ n \in Nat /\ n = 1 + Len(found) /\ dest \in Seq(Nat)
    BY <1>5, <2>2, <2>3, <2>4
  <2> HIDE DEF n
  <2>6. dest[1] = 0
    BY <2>1, <2>2, <2>3, <2>4, <2>5
  <2>7. \A j \in 2 .. n : j - 1 \in 1 .. Len(found) /\ dest[j] = found[j - 1]
    BY <1>5, <2>2, <2>3, <2>4, <2>5
  <2>8. QED
    BY <2>5, <2>6, <2>7
<1>7. Len(text) \in Nat /\ Len(text) >= 1
  <2>1. lb + 1 \in lb + 1 .. ub \/ lb = ub
    BY <1>2
  <2>2. Array \in Seq(Starts(Loaded)) /\ Loaded = text
        /\ \A k \in 1 .. Len(idx) : Array[k] \in Starts(Loaded)
    BY <1>1, IndexIsArray, AlignedLoads
  <2>3. \E p : p \in 0 .. Len(text) - 1
    BY <1>2, <2>2 DEF Starts
  <2>4. QED
    BY <1>1, <2>3
<1>8. \A j \in 1 .. n :
        /\ dest[j] \in 0 .. Len(text) - 1
        /\ dest[j] # 0 => text[dest[j]+1] = Newline
  <2> SUFFICES ASSUME NEW j \in 1 .. n
               PROVE  /\ dest[j] \in 0 .. Len(text) - 1
                      /\ dest[j] # 0 => text[dest[j]+1] = Newline
    OBVIOUS
  <2>1. CASE j = 1
    BY <1>6, <1>7, <2>1
  <2>2. CASE j # 1
    <3>1. j \in 2 .. n
      BY <1>6, <2>2
    <3>2. lb + (j - 1) \in lb + 1 .. ub /\ dest[j] = Position(idx[lb + (j - 1)])
      BY <1>5, <1>6, <3>1
    <3>3. QED
      BY <1>2, <3>2
  <2>3. QED
    BY <2>1, <2>2
<1> HIDE DEF dest, n
<1>9. /\ DOMAIN Sorted(dest) = 1 .. n
      /\ \A j \in 1 .. n : Sorted(dest)[1] <= dest[j]
      /\ \A k \in 1 .. n : \E j \in 1 .. n : Sorted(dest)[k] = dest[j]
      /\ \A j \in 1 .. n : \E k \in 1 .. n : Sorted(dest)[k] = dest[j]
  <2>1. n = Len(dest)
    BY DEF n
  <2>2. /\ DOMAIN Sorted(dest) = 1 .. Len(dest)
        /\ \A j \in 1 .. Len(dest) : Sorted(dest)[1] <= dest[j]
        /\ \A k \in 1 .. Len(dest) : \E j \in 1 .. Len(dest) : Sorted(dest)[k] = dest[j]
        /\ \A j \in 1 .. Len(dest) : \E k \in 1 .. Len(dest) : Sorted(dest)[k] = dest[j]
    BY <1>6, SortedSame
  <2>3. QED
    BY <2>1, <2>2
<1>10. /\ Len(pidx) \in 0 .. n
       /\ \A k \in 1 .. Len(pidx) : pidx[k] = R!Pack(Sorted(dest)[k] + 1)
  <2> DEFINE packed == [k \in 1 .. n |-> R!Pack(Sorted(dest)[k] + 1)]
  <2>1. pidx \in Prefixes(packed) /\ packed = [k \in 1 .. n |-> packed[k]]
    BY <1>4, <1>9
  <2>2. \A k \in 1 .. n : packed[k] = R!Pack(Sorted(dest)[k] + 1)
    OBVIOUS
  <2> HIDE DEF packed
  <2>3. Len(pidx) \in 0 .. n /\ \A k \in 1 .. Len(pidx) : pidx[k] = packed[k]
    BY <1>6, <2>1, PrefixOf
  <2>4. QED
    BY <1>6, <2>2, <2>3
<1>11. \A k \in 1 .. Len(pidx) :
         k \in 1 .. n /\ Position(pidx[k]) = Sorted(dest)[k] + 1
  <2> SUFFICES ASSUME NEW k \in 1 .. Len(pidx)
               PROVE  k \in 1 .. n /\ Position(pidx[k]) = Sorted(dest)[k] + 1
    OBVIOUS
  <2>1. k \in 1 .. n
    BY <1>6, <1>10
  <2>2. PICK j \in 1 .. n : Sorted(dest)[k] = dest[j]
    BY <1>9, <2>1
  <2>3. dest[j] + 1 \in Nat /\ dest[j] + 1 <= INT_MAX
    BY <1>1, <1>7, <1>8, IntMax
  <2>4. QED
    BY <1>10, <2>1, <2>2, <2>3, PositionKept
<1>12. \A s \in starts : \E j \in 1 .. n : s = dest[j] + 1
  <2> SUFFICES ASSUME NEW k \in 1 .. Len(pidx)
               PROVE  \E j \in 1 .. n : Position(pidx[k]) = dest[j] + 1
    OBVIOUS
  <2>1. PICK j \in 1 .. n : Sorted(dest)[k] = dest[j]
    BY <1>9, <1>11
  <2>2. QED
    BY <1>11, <2>1
<1>13. FilesWhole => \A j \in 1 .. n : dest[j] + 1 \in starts
  <2> SUFFICES ASSUME FilesWhole, NEW j \in 1 .. n PROVE dest[j] + 1 \in starts
    OBVIOUS
  <2>1. PICK k \in 1 .. n : Sorted(dest)[k] = dest[j]
    BY <1>9
  <2>2. QED
    BY <1>11, <1>19, <2>1
<1> HIDE DEF starts
<1>14. starts \subseteq 1 .. Len(text)
  BY <1>7, <1>8, <1>12
<1>15. ASSUME Len(pidx) > 0 PROVE 1 \in starts
  <2>1. 1 \in 1 .. n /\ dest[1] = 0 /\ 1 \in 1 .. Len(pidx)
    BY <1>2, <1>6, <1>10, <1>15
  <2>2. PICK j \in 1 .. n : Sorted(dest)[1] = dest[j]
    BY <1>9, <2>1
  <2>3. Sorted(dest)[1] = 0
    <3>1. Sorted(dest)[1] <= dest[1]
      BY <1>9, <2>1
    <3>2. dest[j] \in Int /\ dest[j] >= 0
      BY <1>7, <1>8
    <3>3. QED
      BY <2>1, <2>2, <3>1, <3>2
  <2>4. Position(pidx[1]) = 1
    BY <1>11, <2>1, <2>3
  <2>5. QED
    BY <2>1, <2>4 DEF starts
<1>16. \A s \in starts : s = 1 \/ text[s] = Newline
  <2> SUFFICES ASSUME NEW s \in starts, s # 1 PROVE text[s] = Newline
    OBVIOUS
  <2>1. PICK j \in 1 .. n : s = dest[j] + 1
    BY <1>12
  <2>2. dest[j] \in Int /\ dest[j] # 0
    BY <1>8, <2>1
  <2>3. QED
    BY <1>8, <2>1, <2>2
<1>17. ASSUME FilesWhole, NEW q \in 1 .. Len(text) - 1, text[q] = Newline
       PROVE  q \in starts /\ n >= 2
  <2>1. q - 1 \in 0 .. Len(text) - 2 /\ (q - 1) + 1 = q
    BY <1>7
  <2>2. PICK k \in lb + 1 .. ub : Position(idx[k]) = q - 1
    BY <1>2, <1>17, <1>19, <2>1
  <2>3. /\ k - lb \in 1 .. Len(found) /\ lb + (k - lb) = k
        /\ (k - lb) + 1 \in 2 .. n /\ ((k - lb) + 1) - 1 = k - lb
        /\ (k - lb) + 1 \in 1 .. n
    BY <1>2, <1>5, <1>6, <2>2
  <2>4. dest[(k - lb) + 1] = q - 1
    BY <1>5, <1>6, <2>2, <2>3
  <2>5. (q - 1) + 1 \in starts
    BY <1>13, <1>17, <2>3, <2>4
  <2>6. n >= 2
    BY <1>6, <2>3
  <2>7. QED
    BY <2>1, <2>5, <2>6
<1>20. FilesWhole => Len(pidx) = n /\ n > 0
  BY <1>2, <1>6, <1>19
<1>18. QED
  BY <1>6, <1>10, <1>14, <1>15, <1>16, <1>17, <1>20 DEF starts

(* A set of numbers up to a bound has a greatest one.                      *)
LEMMA GreatestExists ==
  ASSUME NEW b \in Nat, NEW T, T \subseteq 0 .. b, T # {}
  PROVE  \E x \in T : \A y \in T : y <= x
<1> DEFINE D == {d \in 0 .. b : b - d \in T}
<1>1. D \subseteq Nat /\ D # {}
  <2>1. PICK y \in T : TRUE
    OBVIOUS
  <2>2. b - y \in 0 .. b /\ b - (b - y) = y
    BY <2>1
  <2>3. b - y \in D
    BY <2>1, <2>2, Zenon
  <2>4. D \subseteq Nat
    OBVIOUS
  <2> HIDE DEF D
  <2>5. QED
    BY <2>3, <2>4
<1>2. PICK d \in D : \A e \in D : d <= e
  BY <1>1, LeastExists
<1>3. b - d \in T /\ d \in 0 .. b
  BY <1>2
<1>4. ASSUME NEW y \in T PROVE y <= b - d
  <2>1. b - y \in 0 .. b /\ b - (b - y) = y /\ y \in 0 .. b
    BY <1>4
  <2>2. b - y \in D
    BY <2>1
  <2>3. QED
    BY <1>2, <1>3, <2>1, <2>2
<1>5. QED
  BY <1>3, <1>4

(* Looking a position up among the paragraphs gives the beginning of a     *)
(* line no later than its own, or 1; and that of its own line, or 1 in the *)
(* first line, when the files are whole.                                   *)
LEMMA LineFound ==
  ASSUME text \in Texts, FilesAreMade, phase = "ready", Aligned, Last(text) = Newline,
         Len(pidx) > 0, NEW pos \in 0 .. Len(text) - 1
  PROVE  LET line == Max({1, LineStart(pos)})
         IN  /\ ParagraphAt(pos) \in {1} \union {q \in 1 .. line : text[q] = Newline}
             /\ FilesWhole => ParagraphAt(pos) = line
<1> DEFINE starts == {Position(pidx[k]) : k \in 1 .. Len(pidx)}
           before == {p \in starts : p <= pos}
           newlines == {q \in 1 .. pos : text[q] = Newline}
           m == Max({0} \union newlines)
           line == Max({1, LineStart(pos)})
           found == ParagraphAt(pos)
<1>1. /\ starts \subseteq 1 .. Len(text) /\ 1 \in starts
      /\ \A s \in starts : s = 1 \/ text[s] = Newline
      /\ FilesWhole => \A q \in 1 .. Len(text) - 1 : text[q] = Newline => q \in starts
  BY ParagraphsStart
<1>2. Len(text) \in Nat /\ pos \in Nat /\ pos <= Len(text) - 1
  BY TextIsUTF8
<1>3. LineStart(pos) = m
  BY DEF LineStart
<1>4. found = IF before = {} THEN Min(starts) ELSE Max(before)
  BY DEF ParagraphAt
<1> HIDE DEF starts, found
<1>5. FilesWhole => newlines \subseteq before
  <2> SUFFICES ASSUME FilesWhole, NEW q \in newlines PROVE q \in before
    OBVIOUS
  <2>1. q \in 1 .. Len(text) - 1 /\ text[q] = Newline /\ q <= pos
    BY <1>2
  <2>2. QED
    BY <1>1, <2>1
<1>6. \A s \in before : s \in 1 .. pos /\ (s = 1 \/ s \in newlines)
  BY <1>1, <1>2
<1>7. m \in {0} \union newlines /\ \A q \in newlines : q <= m
  <2> DEFINE S == {0} \union newlines
  <2>1. S \subseteq 0 .. pos /\ S \subseteq Int /\ S # {}
    BY <1>2
  <2>2. PICK g \in S : \A y \in S : y <= g
    BY <1>2, <2>1, GreatestExists
  <2>3. Max(S) = g
    BY <2>1, <2>2, Extremes
  <2>4. QED
    BY <2>2, <2>3
<1>8. m \in Int /\ m >= 0 /\ m <= pos /\ line = IF m >= 1 THEN m ELSE 1
  <2>1. newlines \subseteq 1 .. pos
    OBVIOUS
  <2> HIDE DEF m, newlines
  <2>2. m \in Int /\ m >= 0 /\ m <= pos
    BY <1>2, <1>7, <2>1
  <2>3. line = Max({1, m})
    BY <1>3
  <2>4. {1, m} \subseteq Int /\ 1 \in {1, m} /\ m \in {1, m}
    BY <2>2
  <2>5. (m >= 1 => \A x \in {1, m} : x <= m) /\ (m < 1 => \A x \in {1, m} : x <= 1)
    BY <2>2
  <2> HIDE DEF line
  <2>6. m >= 1 => Max({1, m}) = m
    BY <2>4, <2>5, Extremes
  <2>7. ASSUME m < 1 PROVE Max({1, m}) = 1
    <3>1. \A x \in {1, m} : x <= 1
      BY <2>5, <2>7
    <3> DEFINE S == {1, m}
               one == 1
    <3>2. S \subseteq Int /\ one \in S /\ \A x \in S : x <= one
      BY <2>4, <3>1
    <3> HIDE DEF S, one
    <3>3. Max(S) = one
      BY <3>2, Extremes
    <3>4. QED
      BY <3>3 DEF S, one
  <2>8. QED
    BY <2>2, <2>3, <2>6, <2>7
<1> HIDE DEF m, line
<1>9. CASE pos = 0
  <2>1. before = {}
    BY <1>6, <1>9
  <2>2. starts \subseteq Int /\ \A x \in starts : 1 <= x
    BY <1>1, <1>2
  <2>3. found = 1
    BY <1>1, <1>4, <2>1, <2>2, Extremes
  <2>4. line = 1
    BY <1>8, <1>9
  <2>5. QED
    BY <2>3, <2>4 DEF found, line
<1>10. CASE pos # 0
  <2>1. 1 \in before
    BY <1>1, <1>2, <1>10
  <2>2. before \subseteq 0 .. pos /\ before \subseteq Int
    BY <1>2, <1>6
  <2> HIDE DEF before
  <2>3. PICK g \in before : \A y \in before : y <= g
    BY <1>2, <2>1, <2>2, GreatestExists
  <2>4. found = g
    BY <1>4, <2>1, <2>2, <2>3, Extremes
  <2>5. g \in 1 .. pos /\ (g = 1 \/ (g \in newlines /\ g <= m))
    BY <1>6, <1>7, <2>3
  <2>6. g = 1 \/ (g \in 1 .. line /\ text[g] = Newline)
    BY <1>2, <1>8, <2>5
  <2>7. ASSUME FilesWhole PROVE g = line
    <3>1. CASE m = 0
      <4>1. g = 1
        BY <1>2, <2>5, <3>1
      <4>2. QED
        BY <1>8, <3>1, <4>1
    <3>2. CASE m # 0
      <4>1. m \in before /\ m >= 1
        BY <1>5, <1>7, <1>8, <2>7, <3>2
      <4>2. m <= g
        BY <2>3, <4>1
      <4>3. QED
        BY <1>2, <1>8, <2>5, <4>1, <4>2
    <3>3. QED
      BY <3>1, <3>2
  <2>8. QED
    BY <2>4, <2>6, <2>7 DEF found, line
<1>11. QED
  BY <1>9, <1>10

(* A row selected shows its line, and can be selected.                     *)
LEMMA SelectsHold ==
  ASSUME IInv
  PROVE  SelectsLine
<1> SUFFICES ASSUME ret.op = "select", Aligned, Last(text) = Newline
             PROVE  LET line == Max({1, LineStart(last_pos_list[ret.n + 1])})
                    IN  /\ ret.ok => \E p \in {1} \union {q \in 1 .. line : text[q] = Newline} :
                             /\ paragraph = Split(ReadLine(text, p))
                             /\ FilesWhole => p = line
                        /\ FilesWhole /\ Paragraphs >= 2 => ret.ok
  BY DEF SelectsLine
<1>1. /\ text \in Texts /\ FilesAreMade /\ phase # "start"
      /\ ret.n + 1 \in DOMAIN last_pos_list
      /\ IF ret.ok THEN /\ Len(pidx) >= 2
                        /\ paragraph = Split(ReadLine(text,
                             ParagraphAt(last_pos_list[ret.n + 1])))
                   ELSE Len(pidx) < 2
  BY DEF IInv, SelectedRow, Session
<1>2. ASSUME ret.ok
      PROVE  LET line == Max({1, LineStart(last_pos_list[ret.n + 1])})
             IN  \E p \in {1} \union {q \in 1 .. line : text[q] = Newline} :
                   /\ paragraph = Split(ReadLine(text, p))
                   /\ FilesWhole => p = line
  <2> DEFINE i == ret.n + 1
             pos == last_pos_list[i]
  <2>1. RowsOfWord
    <3>1. ~ NoRows
      BY <1>1 DEF NoRows
    <3>2. QED
      BY <3>1 DEF IInv
  <2>2. phase = "ready"
    <3> SUFFICES ASSUME phase # "ready" PROVE FALSE
      OBVIOUS
    <3>1. pidx = <<>>
      BY <1>1 DEF FilesAreMade
    <3>2. Len(pidx) = 0
      BY <3>1
    <3>3. QED
      BY <1>1, <1>2, <3>2
  <2>3. pos \in 0 .. Len(text) - 1
    <3> DEFINE lb == lower_bound(last_search_word)
               ub == upper_bound(last_search_word)
    <3>1. last_pos_list = Rows(lb, ub) /\ ~ SearchRaises
      BY <2>1 DEF RowsOfWord
    <3>2. /\ lb \in 1 .. Len(idx) /\ ub \in 1 .. Len(idx) /\ Len(idx) \in Nat
          /\ \A k \in 1 .. Len(idx) : Position(idx[k]) \in Nat
      BY <1>1, <3>1, RowsOfSearch
    <3>3. /\ Rows(lb, ub) \in Seq(Nat)
          /\ \A k \in 1 .. Len(Rows(lb, ub)) :
               lb + k \in lb + 1 .. ub /\ Rows(lb, ub)[k] = Position(idx[lb + k])
      BY <3>2, RowsOfRange
    <3> HIDE DEF lb, ub
    <3>4. i \in 1 .. Len(last_pos_list) /\ last_pos_list = Rows(lb, ub)
      BY <1>1, <3>1, <3>3
    <3> HIDE DEF i
    <3>5. lb + i \in lb + 1 .. ub /\ pos = Position(idx[lb + i])
      BY <3>3, <3>4
    <3>6. lb + i \in 1 .. Len(idx)
      BY <3>2, <3>5
    <3>7. Position(idx[lb + i]) \in Starts(text)
      <4>1. Loaded = text
        BY <1>1, AlignedLoads
      <4>2. \A k \in 1 .. Len(idx) : Position(idx[k]) = Array[k] /\ Array[k] \in Starts(Loaded)
        BY <1>1, IndexIsArray
      <4>3. QED
        BY <3>6, <4>1, <4>2
    <3>8. QED
      BY <3>5, <3>7 DEF Starts
  <2> HIDE DEF pos
  <2> DEFINE line == Max({1, LineStart(pos)})
  <2>4. Len(pidx) > 0
    <3>1. Len(pidx) \in Nat
      BY <1>1, <2>2, ParagraphsStart
    <3>2. QED
      BY <1>1, <1>2, <3>1
  <2>5. /\ ParagraphAt(pos) \in {1} \union {q \in 1 .. line : text[q] = Newline}
        /\ FilesWhole => ParagraphAt(pos) = line
    BY <1>1, <2>2, <2>3, <2>4, LineFound
  <2>6. paragraph = Split(ReadLine(text, ParagraphAt(pos)))
    BY <1>1, <1>2 DEF pos
  <2>7. QED
    BY <2>5, <2>6 DEF pos
<1>3. ASSUME FilesWhole, Paragraphs >= 2 PROVE ret.ok
  <2> DEFINE NL == {k \in 1 .. Len(text) : text[k] = Newline}
             n == Len(text)
  <2>1. n \in Nat
    BY <1>1, TextIsUTF8
  <2>2. \E q \in 1 .. n - 1 : text[q] = Newline
    <3> SUFFICES ASSUME ~ \E q \in 1 .. n - 1 : text[q] = Newline PROVE FALSE
      OBVIOUS
    <3>1. NL \in SUBSET {n}
      BY <2>1
    <3>2. IsFiniteSet({n}) /\ Cardinality({n}) = 1
      BY FS_Singleton
    <3> HIDE DEF NL, n
    <3>3. IsFiniteSet(NL) /\ Cardinality(NL) <= Cardinality({n})
      BY <3>1, <3>2, FS_Subset
    <3>4. Cardinality(NL) \in Nat /\ Cardinality(NL) <= 1
      BY <3>2, <3>3, FS_CardinalityType
    <3>5. Cardinality(NL) >= 2
      BY <1>3 DEF Paragraphs, NL
    <3>6. QED
      BY <3>4, <3>5
  <2>3. Len(pidx) >= 2
    BY <1>1, <1>3, <2>2, ParagraphsStart DEF FilesWhole
  <2>4. QED
    BY <1>1, <2>3
<1>4. QED
  BY <1>2, <1>3
-----------------------------------------------------------------------------
(* The same things said of any files and answers, so that they can be said *)
(* of those before a step and those after it.                              *)
BoundAt(t, ix, w) ==
  LET below == [k \in 1 .. Len(ix) |-> CaseLess(ReadAt(t, Position(ix[k]), Len(w)), w)]
  IN  CHOOSE k \in 1 .. Len(ix) : IsBoundary(Len(ix), below, k)

TopAt(t, ix, w) == BoundAt(t, ix, Append(w, 255))

HitsAt(ix, lb, ub) == [k \in 1 .. ub - lb |-> Position(ix[lb + k])]

RowsAt(ix, lb, ub) ==
  LET all == HitsAt(ix, lb, ub)
  IN  SubSeq(all, 1, IF Len(all) <= RowLimit THEN Len(all) ELSE RowLimit + 1)

RowsOf(t, ix, w) == RowsAt(ix, BoundAt(t, ix, w), TopAt(t, ix, w))

LinesOf(t, list) == [k \in DOMAIN list |-> ReadLine(t, list[k])]

StartsAt(t, ix) ==
  LET word == <<Newline>> IN <<0>> \o HitsAt(ix, BoundAt(t, ix, word), TopAt(t, ix, word))

ParagraphIn(px, pos) ==
  LET starts == {Position(px[k]) : k \in 1 .. Len(px)}
      before == {p \in starts : p <= pos}
  IN  IF before = {} THEN Min(starts) ELSE Max(before)

RecordsOf(t) ==
  LET order == SuffixArray(LoadedText(t))
  IN  [k \in DOMAIN order |-> R!Pack(order[k])]

ParagraphsOf(t, ix) ==
  [k \in DOMAIN Sorted(StartsAt(t, ix)) |-> R!Pack(Sorted(StartsAt(t, ix))[k] + 1)]

FilesAt(t, ix, px, ph) ==
  /\ ph \in {"start", "indexed", "ready", "failed"}
  /\ IF ph = "start" THEN ix = <<>> ELSE ix \in Prefixes(RecordsOf(t))
  /\ ph = "ready" => ~ (Len(ix) < 2)
  /\ IF ph = "ready" THEN px \in Prefixes(ParagraphsOf(t, ix)) ELSE px = <<>>

InSession(ph) == ph \in {"ready", "failed"}

RowsMade(t, ix, ph, w, count, list, lines) ==
  /\ InSession(ph) /\ ~ (Len(ix) < 2) /\ w \in Words \ {<<>>}
  /\ list = RowsOf(t, ix, w)
  /\ lines = LinesOf(t, RowsOf(t, ix, w))
  /\ count \in {0, TopAt(t, ix, w) - BoundAt(t, ix, w)}

CountMade(t, ix, ph, r) ==
  r.op = "search" /\ r.ok /\ r.word # <<>> =>
    /\ InSession(ph) /\ ~ (Len(ix) < 2) /\ r.word \in Words
    /\ r.count = TopAt(t, ix, r.word) - BoundAt(t, ix, r.word)

SelectedMade(t, px, ph, list, par, r) ==
  r.op = "select" =>
    /\ InSession(ph) /\ r.n + 1 \in DOMAIN list
    /\ IF r.ok THEN /\ Len(px) >= 2
                    /\ par = Split(ReadLine(t, ParagraphIn(px, list[r.n + 1])))
               ELSE Len(px) < 2

InvAt(t, ix, px, ph, w, count, list, lines, par, r) ==
  /\ t \in Texts
  /\ FilesAt(t, ix, px, ph)
  /\ (list = <<>> /\ lines = <<>> /\ count = 0)
     \/ RowsMade(t, ix, ph, w, count, list, lines)
  /\ InSession(ph) \/ r.op = "none"
  /\ CountMade(t, ix, ph, r)
  /\ SelectedMade(t, px, ph, list, par, r)

(* The invariant, before a step and after it.                              *)
LEMMA InvariantAt ==
  /\ IInv <=> InvAt(text, idx, pidx, phase, last_search_word, last_result_count,
                    last_pos_list, last_text_list, paragraph, ret)
  /\ IInv' <=> InvAt(text', idx', pidx', phase', last_search_word', last_result_count',
                     last_pos_list', last_text_list', paragraph', ret')
<1>1. IInv <=> InvAt(text, idx, pidx, phase, last_search_word, last_result_count,
                     last_pos_list, last_text_list, paragraph, ret)
  <2>1. FilesAreMade <=> FilesAt(text, idx, pidx, phase)
    BY Zenon DEF FilesAreMade, FilesAt, WholeIndex, RecordsOf, ParagraphsOf, StartsAt, ParagraphStarts,
       PositionsIn, HitsAt, lower_bound, upper_bound, BoundAt, TopAt, SearchRaises
  <2>2. RowsOfWord <=> RowsMade(text, idx, phase, last_search_word, last_result_count,
                                last_pos_list, last_text_list)
    BY Zenon DEF RowsOfWord, RowsMade, RowsOf, LinesOf, Rows, RowsAt, PositionsIn, HitsAt,
       lower_bound, upper_bound, BoundAt, TopAt, SearchRaises, Session, InSession
  <2>3. CountOfWord <=> CountMade(text, idx, phase, ret)
    BY Zenon DEF CountOfWord, CountMade, lower_bound, upper_bound, BoundAt, TopAt,
       SearchRaises, Session, InSession
  <2>4. SelectedRow <=> SelectedMade(text, pidx, phase, last_pos_list, paragraph, ret)
    BY Zenon DEF SelectedRow, SelectedMade, ParagraphAt, ParagraphIn, Session, InSession
  <2>5. QED
    BY <2>1, <2>2, <2>3, <2>4, Zenon DEF IInv, InvAt, NoRows, Session, InSession
<1>2. IInv' <=> InvAt(text', idx', pidx', phase', last_search_word', last_result_count',
                      last_pos_list', last_text_list', paragraph', ret')
  <2>1. FilesAreMade' <=> FilesAt(text', idx', pidx', phase')
    BY Zenon DEF FilesAreMade, FilesAt, WholeIndex, RecordsOf, ParagraphsOf, StartsAt, ParagraphStarts,
       PositionsIn, HitsAt, lower_bound, upper_bound, BoundAt, TopAt, SearchRaises
  <2>2. RowsOfWord' <=> RowsMade(text', idx', phase', last_search_word', last_result_count',
                                 last_pos_list', last_text_list')
    BY Zenon DEF RowsOfWord, RowsMade, RowsOf, LinesOf, Rows, RowsAt, PositionsIn, HitsAt,
       lower_bound, upper_bound, BoundAt, TopAt, SearchRaises, Session, InSession
  <2>3. CountOfWord' <=> CountMade(text', idx', phase', ret')
    BY Zenon DEF CountOfWord, CountMade, lower_bound, upper_bound, BoundAt, TopAt,
       SearchRaises, Session, InSession
  <2>4. SelectedRow' <=> SelectedMade(text', pidx', phase', last_pos_list', paragraph', ret')
    BY Zenon DEF SelectedRow, SelectedMade, ParagraphAt, ParagraphIn, Session, InSession
  <2>5. QED
    BY <2>1, <2>2, <2>3, <2>4, Zenon DEF IInv, InvAt, NoRows, Session, InSession
<1>3. QED
  BY <1>1, <1>2

(* What the actions work out, said of the files there are.                 *)
LEMMA WorkedOut ==
  /\ \A w : lower_bound(w) = BoundAt(text, idx, w) /\ upper_bound(w) = TopAt(text, idx, w)
  /\ \A lb, ub : Rows(lb, ub) = RowsAt(idx, lb, ub)
  /\ \A pos : ParagraphAt(pos) = ParagraphIn(pidx, pos)
  /\ ParagraphStarts = StartsAt(text, idx)
<1>1. \A w : lower_bound(w) = BoundAt(text, idx, w) /\ upper_bound(w) = TopAt(text, idx, w)
  BY Zenon DEF lower_bound, upper_bound, BoundAt, TopAt
<1>2. \A lb, ub : Rows(lb, ub) = RowsAt(idx, lb, ub)
  BY Zenon DEF Rows, RowsAt, PositionsIn, HitsAt
<1>3. \A pos : ParagraphAt(pos) = ParagraphIn(pidx, pos)
  BY Zenon DEF ParagraphAt, ParagraphIn
<1>4. ParagraphStarts = StartsAt(text, idx)
  BY Zenon DEF ParagraphStarts, StartsAt, PositionsIn, HitsAt, lower_bound, upper_bound,
     BoundAt, TopAt
<1>5. QED
  BY <1>1, <1>2, <1>3, <1>4

(* A session begins without files and rows.                                *)
LEMMA Initially == Init => IInv
<1> SUFFICES ASSUME Init PROVE IInv
  OBVIOUS
<1>1. FilesAreMade
  BY DEF Init, FilesAreMade
<1>2. NoRows /\ ret.op = "none" /\ text \in Texts
  BY DEF Init, NoRows
<1>3. CountOfWord /\ SelectedRow
  BY <1>2 DEF CountOfWord, SelectedRow
<1>4. QED
  BY <1>1, <1>2, <1>3 DEF IInv

(* The steps of mkindex, before there is anything to search.               *)
LEMMA MkindexStep ==
  ASSUME IInv, SaveIndex \/ SaveParagraphs \/ StopMkindex
  PROVE  IInv'
<1>1. InvAt(text, idx, pidx, phase, last_search_word, last_result_count,
            last_pos_list, last_text_list, paragraph, ret)
  BY InvariantAt
<1>2. text' = text /\ UNCHANGED <<results, paragraph, ret>>
  BY DEF SaveIndex, SaveParagraphs, StopMkindex
<1>3. ~ InSession(phase) /\ phase \in {"start", "indexed"}
  BY DEF SaveIndex, SaveParagraphs, StopMkindex, InSession
<1>4. /\ last_pos_list = <<>> /\ last_text_list = <<>> /\ last_result_count = 0
      /\ ret.op = "none"
  BY <1>1, <1>3 DEF InvAt, RowsMade
<1>5. FilesAt(text, idx, pidx, phase)
  BY <1>1 DEF InvAt
<1>6. FilesAt(text, idx', pidx', phase')
  <2>1. CASE SaveIndex
    <3>1. idx' \in Prefixes(RecordsOf(text))
      BY <2>1 DEF SaveIndex, WholeIndex, RecordsOf
    <3>2. phase = "start" /\ phase' = "indexed" /\ pidx' = pidx
      BY <2>1 DEF SaveIndex
    <3>3. pidx = <<>>
      BY <1>5, <3>2 DEF FilesAt
    <3>4. QED
      BY <3>1, <3>2, <3>3 DEF FilesAt
  <2>2. CASE SaveParagraphs
    <3>1. /\ phase = "indexed" /\ ~ (Len(idx) < 2) /\ phase' = "ready" /\ idx' = idx
          /\ pidx' \in Prefixes([k \in DOMAIN Sorted(ParagraphStarts) |->
                                  R!Pack(Sorted(ParagraphStarts)[k] + 1)])
      BY <2>2 DEF SaveParagraphs, SearchRaises
    <3>2. pidx' \in Prefixes(ParagraphsOf(text, idx))
      BY <3>1, WorkedOut DEF ParagraphsOf
    <3>3. idx \in Prefixes(RecordsOf(text))
      BY <1>5, <3>1 DEF FilesAt
    <3>4. QED
      BY <3>1, <3>2, <3>3 DEF FilesAt
  <2>3. CASE StopMkindex
    <3>1. phase = "indexed" /\ phase' = "failed" /\ idx' = idx /\ pidx' = pidx
      BY <2>3 DEF StopMkindex
    <3>2. QED
      BY <1>5, <3>1 DEF FilesAt
  <2>4. QED
    BY <2>1, <2>2, <2>3
<1>7. /\ text' = text /\ last_pos_list' = <<>> /\ last_text_list' = <<>>
      /\ last_result_count' = 0 /\ ret' = ret
  BY <1>2, <1>4 DEF results
<1>8. CountMade(text', idx', phase', ret')
      /\ SelectedMade(text', pidx', phase', last_pos_list', paragraph', ret')
  BY <1>4, <1>7 DEF CountMade, SelectedMade
<1>9. InvAt(text', idx', pidx', phase', last_search_word', last_result_count',
            last_pos_list', last_text_list', paragraph', ret')
  BY <1>1, <1>4, <1>6, <1>7, <1>8 DEF InvAt
<1>10. QED
  BY <1>9, InvariantAt

(* What every step of a session leaves alone.                              *)
LEMMA SessionStep ==
  ASSUME IInv, Session, UNCHANGED files,
         (last_pos_list' = <<>> /\ last_text_list' = <<>> /\ last_result_count' = 0)
         \/ RowsMade(text, idx, phase, last_search_word', last_result_count',
                     last_pos_list', last_text_list'),
         CountMade(text, idx, phase, ret'),
         SelectedMade(text, pidx, phase, last_pos_list', paragraph', ret')
  PROVE  IInv'
<1>1. text \in Texts /\ FilesAt(text, idx, pidx, phase) /\ InSession(phase)
  BY InvariantAt DEF InvAt, Session, InSession
<1>2. text' = text /\ idx' = idx /\ pidx' = pidx /\ phase' = phase
  BY DEF files
<1>3. InvAt(text', idx', pidx', phase', last_search_word', last_result_count',
            last_pos_list', last_text_list', paragraph', ret')
  BY <1>1, <1>2 DEF InvAt
<1>4. QED
  BY <1>3, InvariantAt

(* The searches.                                                           *)
LEMMA SearchEmptyStep ==
  ASSUME IInv, SearchEmpty
  PROVE  IInv'
<1>1. /\ Session /\ UNCHANGED files /\ last_result_count' = 0
      /\ last_search_word' = last_search_word /\ last_pos_list' = last_pos_list
      /\ last_text_list' = last_text_list
      /\ ret' = [op |-> "search", ok |-> TRUE, word |-> <<>>, count |-> 0]
  BY DEF SearchEmpty
<1>2. \/ last_pos_list = <<>> /\ last_text_list = <<>> /\ last_result_count = 0
      \/ RowsMade(text, idx, phase, last_search_word, last_result_count,
                  last_pos_list, last_text_list)
  BY InvariantAt DEF InvAt
<1>3. \/ last_pos_list' = <<>> /\ last_text_list' = <<>> /\ last_result_count' = 0
      \/ RowsMade(text, idx, phase, last_search_word', last_result_count',
                  last_pos_list', last_text_list')
  BY <1>1, <1>2 DEF RowsMade
<1>4. ret'.op = "search" /\ ret'.word = <<>>
  BY <1>1
<1>5. CountMade(text, idx, phase, ret')
      /\ SelectedMade(text, pidx, phase, last_pos_list', paragraph', ret')
  BY <1>4 DEF CountMade, SelectedMade
<1>6. QED
  BY <1>1, <1>3, <1>5, SessionStep

(* A search that raises remembers its word but has no rows to go with it:  *)
(* there can be none beside an index of fewer than two records.            *)
LEMMA SearchFailsStep ==
  ASSUME IInv, NEW word \in Words, SearchFails(word)
  PROVE  IInv'
<1>1. /\ Session /\ UNCHANGED files /\ SearchRaises
      /\ last_result_count' = last_result_count /\ last_pos_list' = last_pos_list
      /\ last_text_list' = last_text_list
      /\ ret' = [op |-> "search", ok |-> FALSE, word |-> word]
  BY DEF SearchFails
<1>2. last_pos_list = <<>> /\ last_text_list = <<>> /\ last_result_count = 0
  BY <1>1, InvariantAt DEF InvAt, RowsMade, SearchRaises
<1>3. ret'.op = "search" /\ ~ ret'.ok
  BY <1>1
<1>4. CountMade(text, idx, phase, ret')
      /\ SelectedMade(text, pidx, phase, last_pos_list', paragraph', ret')
  BY <1>3 DEF CountMade, SelectedMade
<1>5. QED
  BY <1>1, <1>2, <1>4, SessionStep

(* search_on_file keeps the invariant.                                     *)
LEMMA SearchStep ==
  ASSUME IInv, NEW word \in Words, Search(word)
  PROVE  IInv'
<1> DEFINE lb == lower_bound(word)
           ub == upper_bound(word)
<1>1. /\ Session /\ UNCHANGED files /\ ~ SearchRaises /\ word # <<>>
      /\ last_search_word' = word
      /\ last_pos_list' = Rows(lb, ub)
      /\ last_text_list' = [k \in DOMAIN Rows(lb, ub) |-> ReadLine(text, Rows(lb, ub)[k])]
      /\ last_result_count' = ub - lb
      /\ ret' = [op |-> "search", ok |-> TRUE, word |-> word, count |-> ub - lb]
  BY DEF Search
<1>2. /\ lb = BoundAt(text, idx, word) /\ ub = TopAt(text, idx, word)
      /\ Rows(lb, ub) = RowsOf(text, idx, word)
  BY WorkedOut DEF RowsOf
<1> HIDE DEF lb, ub
<1>3. RowsMade(text, idx, phase, last_search_word', last_result_count',
               last_pos_list', last_text_list')
  BY <1>1, <1>2 DEF RowsMade, LinesOf, Session, InSession, SearchRaises
<1>4. /\ ret'.op = "search" /\ ret'.word = word
      /\ ret'.count = TopAt(text, idx, word) - BoundAt(text, idx, word)
  BY <1>1, <1>2
<1>5. CountMade(text, idx, phase, ret')
      /\ SelectedMade(text, pidx, phase, last_pos_list', paragraph', ret')
  BY <1>1, <1>4 DEF CountMade, SelectedMade, Session, InSession, SearchRaises
<1>6. QED
  BY <1>1, <1>3, <1>5, SessionStep

(* The selections.                                                         *)
LEMMA SelectStep ==
  ASSUME IInv, NEW n \in 0 .. RowLimit, Select(n) \/ SelectFails(n)
  PROVE  IInv'
<1>1. /\ Session /\ UNCHANGED files /\ UNCHANGED results
      /\ n + 1 \in DOMAIN last_pos_list
  BY DEF Select, SelectFails
<1>2. /\ last_search_word' = last_search_word /\ last_result_count' = last_result_count
      /\ last_pos_list' = last_pos_list /\ last_text_list' = last_text_list
  BY <1>1 DEF results
<1>3. \/ last_pos_list' = <<>> /\ last_text_list' = <<>> /\ last_result_count' = 0
      \/ RowsMade(text, idx, phase, last_search_word', last_result_count',
                  last_pos_list', last_text_list')
  BY <1>2, InvariantAt DEF InvAt
<1>4. ret'.op = "select" /\ SelectedMade(text, pidx, phase, last_pos_list', paragraph', ret')
  <2>1. CASE Select(n)
    <3> DEFINE pos == last_pos_list[n + 1]
               beginpos == ParagraphAt(pos)
    <3>1. /\ Len(pidx) >= 2 /\ paragraph' = Split(ReadLine(text, beginpos))
          /\ ret' = [op |-> "select", ok |-> TRUE, n |-> n, beginpos |-> beginpos]
      BY <2>1 DEF Select
    <3>2. beginpos = ParagraphIn(pidx, pos)
      BY WorkedOut
    <3> HIDE DEF beginpos
    <3>3. ret'.op = "select" /\ ret'.ok /\ ret'.n = n
      BY <3>1
    <3>4. QED
      BY <1>1, <1>2, <3>1, <3>2, <3>3 DEF SelectedMade, Session, InSession
  <2>2. CASE SelectFails(n)
    <3>1. Len(pidx) < 2 /\ ret' = [op |-> "select", ok |-> FALSE, n |-> n]
      BY <2>2 DEF SelectFails
    <3>2. ret'.op = "select" /\ ~ ret'.ok /\ ret'.n = n
      BY <3>1
    <3>3. QED
      BY <1>1, <1>2, <3>1, <3>2 DEF SelectedMade, Session, InSession
  <2>3. QED
    BY <2>1, <2>2
<1>5. CountMade(text, idx, phase, ret')
  BY <1>4 DEF CountMade
<1>6. QED
  BY <1>1, <1>3, <1>4, <1>5, SessionStep

(* The files and answers of a session, whatever the text and the words.    *)
THEOREM SessionInductive == Spec => []IInv
<1>1. Init => IInv
  BY Initially
<1>2. IInv /\ [Next]_vars => IInv'
  <2> SUFFICES ASSUME IInv, [Next]_vars PROVE IInv'
    OBVIOUS
  <2>1. CASE SaveIndex \/ SaveParagraphs \/ StopMkindex
    BY <2>1, MkindexStep
  <2>2. CASE SearchEmpty
    BY <2>2, SearchEmptyStep
  <2>3. CASE \E word \in Words : Search(word) \/ SearchFails(word)
    BY <2>3, SearchStep, SearchFailsStep
  <2>4. CASE \E n \in 0 .. RowLimit : Select(n) \/ SelectFails(n)
    BY <2>4, SelectStep
  <2>5. CASE UNCHANGED vars
    <3>1. /\ text' = text /\ idx' = idx /\ pidx' = pidx /\ phase' = phase
          /\ last_search_word' = last_search_word /\ last_result_count' = last_result_count
          /\ last_pos_list' = last_pos_list /\ last_text_list' = last_text_list
          /\ paragraph' = paragraph /\ ret' = ret
      BY <2>5 DEF vars, files, results
    <3>2. QED
      BY <3>1, InvariantAt
  <2>6. QED
    BY <2>1, <2>2, <2>3, <2>4, <2>5 DEF Next
<1>3. QED
  BY <1>1, <1>2, PTL DEF Spec

(* Every row of a result list is an occurrence of the word searched, shown *)
(* as its own line, and there are as many as the count says up to the      *)
(* limit (indexer.lua, get_result_texts).                                  *)
THEOREM RowsShown == Spec => []RowsAreHits
<1>1. IInv => RowsAreHits
  BY RowsHit
<1>2. QED
  BY <1>1, SessionInductive, PTL

(* A search counts every occurrence of its word that is in the index file, *)
(* and a whole file has all of them, or all but the smallest suffix when   *)
(* no suffix is below the word (indexer.lua, search_range).                *)
THEOREM EveryOccurrenceCounted == Spec => []CountsOccurrences
<1>1. IInv => CountsOccurrences
  BY CountsHold
<1>2. QED
  BY <1>1, SessionInductive, PTL

(* Selecting a row shows the line it is in, or a line before it when a     *)
(* file is cut short; and once mkindex has written both files every row    *)
(* can be selected (indexer.lua, select_item).                             *)
THEOREM LineSelected == Spec => []SelectsLine
<1>1. IInv => SelectsLine
  BY SelectsHold
<1>2. QED
  BY <1>1, SessionInductive, PTL
-----------------------------------------------------------------------------
(* The indexer.                                                            *)

(* Every text loaded is a sequence of bytes.                               *)
LEMMA LoadedFiles == \A t \in SourceTexts : t \in Seq(Byte)
<1>1. \A f \in Files : f \in Seq(Byte)
  BY FilesAssumption DEF Byte
<1>2. QED
  BY <1>1, LoadedType DEF SourceTexts

(* The text is a sequence of bytes, and positions lie within it.           *)
LEMMA InText ==
  ASSUME TypeOK
  PROVE  /\ source \in Seq(Byte) /\ Len(source) \in Nat
         /\ \A p \in Starts(source) : p \in 0 .. Len(source)
         /\ \A p \in tree : p \in Starts(source) /\ p \in 0 .. Len(source) /\ p < turn
         /\ \A k \in 1 .. Len(out) : out[k] \in tree
         /\ out \in Seq(tree) /\ Len(out) \in Nat
<1>1. source \in Seq(Byte)
  BY LoadedFiles DEF TypeOK
<1>2. \A p \in Starts(source) : p \in 0 .. Len(source)
  BY <1>1 DEF Starts
<1>3. QED
  BY <1>1, <1>2 DEF TypeOK

(* What the constructor's loop does to the set at one position: the set    *)
(* keeps what it has, the position gets a representative no later than     *)
(* itself, and is added only if it has no other.                           *)
LEMMA InsertOne ==
  ASSUME TypeOK, Scan
  PROVE  /\ source' = source /\ turn' = turn + 1 /\ turn \in 0 .. Len(source)
         /\ turn \in Starts(source) <=> UTF8Filter(source[turn + 1])
         /\ tree \subseteq tree'
         /\ turn \in Starts(source) =>
              \E q \in tree' : q <= turn /\ SameSuffix(source, q, turn)
         /\ \A q \in tree' \ tree :
              /\ q = turn /\ turn \in Starts(source)
              /\ \A r \in tree : ~ SameSuffix(source, r, turn)
<1>1. /\ source' = source /\ turn' = turn + 1
      /\ turn \in 0 .. Len(source) - 1 /\ source \in Seq(Byte)
      /\ tree' = IF UTF8Filter(source[turn + 1]) THEN Insert ELSE tree
  BY InText DEF Scan, TypeOK
<1>2. turn \in Starts(source) <=> UTF8Filter(source[turn + 1])
  BY <1>1 DEF Starts
<1>3. SameSuffix(source, turn, turn)
  BY <1>1, SameSuffixReflexive
<1>4. \A q \in tree : q <= turn
  BY <1>1, InText
<1>5. QED
  BY <1>1, <1>2, <1>3, <1>4 DEF Insert

(* One turn of the constructor's loop inserts the next suffix, or finds    *)
(* its class in the set.                                                   *)
LEMMA ScanKeeps ==
  ASSUME IndexerInv, Scan
  PROVE  /\ tree' \subseteq {p \in Starts(source') : p < turn'}
         /\ FirstOfClassKept'
         /\ NoSuffixLost'
<1> USE InsertOne
<1>1. TypeOK /\ FirstOfClassKept /\ NoSuffixLost
  BY DEF IndexerInv
<1>2. /\ tree \subseteq {p \in Starts(source) : p < turn} /\ turn \in Int
      /\ Starts(source) \subseteq Int /\ turn' \in Int
  BY <1>1, InText DEF TypeOK
<1>3. tree' \subseteq {p \in Starts(source) : p < turn + 1}
  BY <1>1, <1>2
<1>4. ASSUME NEW p \in Starts(source), p < turn + 1
      PROVE  \E q \in tree' : q <= p /\ SameSuffix(source, q, p)
  <2>1. CASE p = turn
    BY <1>1, <1>4, <2>1
  <2>2. CASE p < turn
    BY <1>1, <1>4, <2>2 DEF FirstOfClassKept
  <2>3. QED
    BY <1>2, <1>4, <2>1, <2>2
<1>5. ASSUME NEW p \in tree', NEW q \in tree', SameSuffix(source, p, q)
      PROVE  p = q
  <2>1. SameSuffix(source, q, p)
    BY <1>5 DEF SameSuffix
  <2>2. CASE p \in tree /\ q \in tree
    BY <1>1, <1>5, <2>2 DEF FirstOfClassKept
  <2>3. CASE p \notin tree \/ q \notin tree
    BY <1>1, <1>5, <2>1, <2>3
  <2>4. QED
    BY <2>2, <2>3
<1>6. ASSUME HasNoNUL(source)
      PROVE  {p \in Starts(source) : p < turn + 1} \subseteq tree'
  <2> SUFFICES ASSUME NEW p \in Starts(source), p < turn + 1
               PROVE  p \in tree'
    OBVIOUS
  <2>1. PICK q \in tree' : q <= p /\ SameSuffix(source, q, p)
    BY <1>4
  <2>2. q \in 0 .. Len(source) /\ p \in 0 .. Len(source) /\ source \in Seq(Byte)
    BY <1>1, <1>3, InText
  <2>3. q = p
    BY <1>6, <2>1, <2>2, SuffixesDiffer
  <2>4. QED
    BY <2>1, <2>3
<1>7. tree' \subseteq {p \in Starts(source') : p < turn'}
  BY <1>1, <1>3
<1>8. FirstOfClassKept'
  BY <1>1, <1>4, <1>5 DEF FirstOfClassKept
<1>9. NoSuffixLost'
  BY <1>1, <1>3, <1>6 DEF NoSuffixLost
<1>10. QED
  BY <1>7, <1>8, <1>9

(* Writing the least element left keeps the records in order and everything*)
(* left after them.                                                        *)
LEMMA WriteKeeps ==
  ASSUME IndexerInv, Write
  PROVE  IndexerInv'
<1>1. /\ source' = source /\ turn' = turn /\ tree' = tree /\ pc' = pc /\ pc = "write"
  BY DEF Write
<1>2. PICK p \in left :
        /\ \A q \in left \ {p} : SuffixLess(source, p, q)
        /\ out' = Append(out, p)
        /\ left' = left \ {p}
  BY DEF Write
<1>3. TypeOK /\ FirstOfClassKept /\ NoSuffixLost /\ WrittenInOrder
  BY DEF IndexerInv
<1>4. /\ out \in Seq(tree) /\ Len(out) \in Nat /\ p \in tree
      /\ \A k \in 1 .. Len(out), q \in left : SuffixLess(source, out[k], q)
      /\ \A k, l \in 1 .. Len(out) : k < l => SuffixLess(source, out[k], out[l])
      /\ tree = left \union Written
  BY <1>1, <1>3 DEF IndexerInv, TypeOK, WrittenInOrder
<1>5. /\ out' \in Seq(tree) /\ Len(out') = Len(out) + 1
      /\ out'[Len(out) + 1] = p
      /\ \A k \in 1 .. Len(out) : out'[k] = out[k]
      /\ \A k \in 1 .. Len(out') : k \in 1 .. Len(out) \/ k = Len(out) + 1
  BY <1>2, <1>4
<1>6. TypeOK'
  BY <1>1, <1>2, <1>3, <1>5 DEF TypeOK
<1>7. FirstOfClassKept' /\ NoSuffixLost'
  BY <1>1, <1>3 DEF FirstOfClassKept, NoSuffixLost
<1>8. WrittenInOrder'
  <2>1. ASSUME NEW k \in 1 .. Len(out'), NEW l \in 1 .. Len(out'), k < l
        PROVE  SuffixLess(source, out'[k], out'[l])
    <3>1. k \in 1 .. Len(out)
      BY <1>4, <1>5, <2>1
    <3>2. CASE l \in 1 .. Len(out)
      BY <1>4, <1>5, <2>1, <3>1, <3>2
    <3>3. CASE l = Len(out) + 1
      BY <1>4, <1>5, <3>1, <3>3
    <3>4. QED
      BY <1>5, <3>2, <3>3
  <2>2. QED
    BY <1>1, <2>1 DEF WrittenInOrder
<1>9. \A k \in 1 .. Len(out'), q \in left' : SuffixLess(source', out'[k], q)
  BY <1>1, <1>2, <1>4, <1>5
<1>10. tree' = left' \union Written'
  <2>1. Written' = Written \union {p}
    <3>1. \A k \in 1 .. Len(out') : out'[k] \in Written \union {p}
      BY <1>5 DEF Written
    <3>2. 1 .. Len(out) \subseteq 1 .. Len(out') /\ Len(out) + 1 \in 1 .. Len(out')
      BY <1>4, <1>5
    <3>3. Written \subseteq Written' /\ p \in Written'
      BY <1>5, <3>2 DEF Written
    <3>4. QED
      BY <3>1, <3>3 DEF Written
  <2>2. QED
    BY <1>1, <1>2, <1>4, <2>1
<1>11. QED
  BY <1>1, <1>3, <1>6, <1>7, <1>8, <1>9, <1>10 DEF IndexerInv

(* The invariant of the indexer: classes and their first members while the *)
(* text is scanned, order while the set is written.                        *)
THEOREM IndexInductive == IndexerSpec => []IndexerInv
<1>1. IndexerInit => IndexerInv
  <2> SUFFICES ASSUME IndexerInit PROVE IndexerInv
    OBVIOUS
  <2>1. source \in Seq(Byte) /\ out \in Seq(tree) /\ Len(out) = 0 /\ tree = {} /\ left = {}
    BY LoadedFiles DEF IndexerInit
  <2>2. Starts(source) \subseteq Nat
    BY <2>1 DEF Starts
  <2>3. TypeOK
    BY <2>1 DEF IndexerInit, TypeOK
  <2>4. FirstOfClassKept /\ NoSuffixLost /\ WrittenInOrder
    BY <2>1, <2>2 DEF IndexerInit, FirstOfClassKept, NoSuffixLost, WrittenInOrder
  <2>5. QED
    BY <2>1, <2>3, <2>4 DEF IndexerInit, IndexerInv
<1>2. IndexerInv /\ [IndexerNext]_indexerVars => IndexerInv'
  <2> SUFFICES ASSUME IndexerInv, [IndexerNext]_indexerVars
               PROVE  IndexerInv'
    OBVIOUS
  <2>1. TypeOK /\ WrittenInOrder
    BY DEF IndexerInv
  <2>2. CASE Scan
    <3>1. /\ turn' = turn + 1 /\ turn \in 0 .. Len(source) - 1 /\ source' = source
          /\ left = {} /\ left' = {} /\ out = <<>> /\ out' = <<>> /\ pc' = "scan"
      BY <2>1, <2>2 DEF Scan, IndexerInv, TypeOK
    <3>2. tree' \subseteq {p \in Starts(source') : p < turn'} /\ FirstOfClassKept' /\ NoSuffixLost'
      BY <2>2, ScanKeeps
    <3>3. turn' \in 0 .. Len(source)
      BY <2>1, <3>1, InText
    <3>4. TypeOK'
      BY <2>1, <3>1, <3>2, <3>3 DEF TypeOK
    <3>5. QED
      BY <3>1, <3>2, <3>4 DEF IndexerInv, WrittenInOrder
  <2>3. CASE EndScan
    <3>1. Written = {}
      BY <2>3 DEF EndScan, IndexerInv, Written
    <3>2. TypeOK' /\ FirstOfClassKept' /\ NoSuffixLost'
      BY <2>3 DEF EndScan, IndexerInv, TypeOK, FirstOfClassKept, NoSuffixLost
    <3>3. QED
      BY <2>3, <3>1, <3>2 DEF EndScan, IndexerInv, WrittenInOrder, Written
  <2>4. CASE Write
    BY <2>4, WriteKeeps
  <2>5. CASE Finish
    BY <2>5 DEF Finish, IndexerInv, TypeOK, FirstOfClassKept, NoSuffixLost,
                WrittenInOrder, Written
  <2>6. CASE UNCHANGED indexerVars
    BY <2>6 DEF indexerVars, IndexerInv, TypeOK, FirstOfClassKept, NoSuffixLost,
                WrittenInOrder, Written
  <2>7. QED
    BY <2>2, <2>3, <2>4, <2>5, <2>6 DEF IndexerNext
<1>3. QED
  BY <1>1, <1>2, PTL DEF IndexerSpec

(* The indexer's variables keep their types; no position comes twice into  *)
(* the set or from outside the text.                                       *)
THEOREM IndexTyping == IndexerSpec => []TypeOK
  BY IndexInductive, PTL DEF IndexerInv

(* Every indexed position of a text without NUL gets into the set.         *)
THEOREM NothingLost == IndexerSpec => []NoSuffixLost
  BY IndexInductive, PTL DEF IndexerInv

(* Of suffixes equal up to a NUL exactly the first is kept.                *)
THEOREM FirstKept == IndexerSpec => []FirstOfClassKept
  BY IndexInductive, PTL DEF IndexerInv

(* The file lists the whole set in strict order of suffixes.               *)
THEOREM InOrder == IndexerSpec => []WrittenInOrder
  BY IndexInductive, PTL DEF IndexerInv

(* Whatever the text without NUL and the word, the records below the word  *)
(* precede the others: the precondition of lower_bound's search.           *)
THEOREM ServesSearch == IndexerSpec => []OrderServesSearch
<1>1. IndexerInv => OrderServesSearch
  <2> SUFFICES ASSUME IndexerInv, HasNoNUL(source),
                      NEW word \in LaterWords \union {Append(w, 255) : w \in LaterWords},
                      NEW k \in 1 .. Len(out), NEW l \in 1 .. Len(out),
                      k < l, ReadsBelow(word, l)
               PROVE  ReadsBelow(word, k)
    BY DEF OrderServesSearch
  <2>1. SuffixLess(source, out[k], out[l])
    BY DEF IndexerInv, WrittenInOrder
  <2>2. /\ source \in Seq(Byte)
        /\ out[k] \in 0 .. Len(source) /\ out[l] \in 0 .. Len(source)
    BY InText DEF IndexerInv
  <2>3. word \in Seq(Byte)
    <3>1. \A w \in LaterWords : w \in Seq(Byte)
      BY LaterWordsAssumption DEF Byte
    <3>2. 255 \in Byte
      BY DEF Byte
    <3>3. QED
      BY <3>1, <3>2
  <2>4. Len(word) \in Nat
    BY <2>3
  <2>5. CaseLess(ReadAt(source, out[l], Len(word)), word)
    BY DEF ReadsBelow
  <2>6. CaseLess(ReadAt(source, out[k], Len(word)), word)
    BY <2>1, <2>2, <2>3, <2>4, <2>5, ReadKeepsOrder
  <2>7. QED
    BY <2>6 DEF ReadsBelow
<1>2. QED
  BY <1>1, IndexInductive, PTL
=============================================================================
