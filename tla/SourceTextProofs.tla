-------------------------- MODULE SourceTextProofs --------------------------
(***************************************************************************)
(* Facts about the order of suffixes, for every text: the order is strict  *)
(* and total, distinct suffixes of a text without NUL are told apart, and  *)
(* cutting suffixes to a few bytes keeps their order.                      *)
(***************************************************************************)
EXTENDS SourceText, FiniteSetTheorems, WellFoundedInduction, TLAPS

Byte == 0 .. 255

(* A set of natural numbers that is not empty has a least member.          *)
LEMMA LeastExists ==
  ASSUME NEW T, T \subseteq Nat, T # {}
  PROVE  \E x \in T : \A y \in T : x <= y
<1>1. PICK x \in T : \A y \in T : ~ (<<y, x>> \in OpToRel(<, Nat))
  BY NatLessThanWellFounded, WFMin, Zenon
<1>2. \A y \in T : ~ (y < x)
  BY <1>1, Zenon DEF OpToRel
<1>3. \A y \in T : x <= y
  BY <1>2
<1>4. QED
  BY <1>3

(* A byte is an integer from 0 to 255, and lower-casing it gives a byte.   *)
LEMMA ByteRange ==
  ASSUME NEW b \in Byte
  PROVE  b \in Int /\ 0 <= b /\ b <= 255 /\ Lower(b) \in Byte
  BY DEF Byte, Lower, Letters

(* The elements of a sequence of bytes are integers from 0 to 255.         *)
LEMMA ByteAt ==
  ASSUME NEW s \in Seq(Byte), NEW k \in 1 .. Len(s)
  PROVE  s[k] \in Int /\ 0 <= s[k] /\ s[k] <= 255
<1>1. s[k] \in Byte
  OBVIOUS
<1>2. QED
  BY <1>1, ByteRange

(* What is loaded of a file is a sequence of bytes.                        *)
LEMMA LoadedType ==
  ASSUME NEW file \in Seq(Byte)
  PROVE  LoadedText(file) \in Seq(Byte)
<1> DEFINE Kept == {k \in 1 .. Len(file) : file[k] \notin Blank}
           first == CHOOSE k \in Kept : \A j \in Kept : k <= j
<1>1. CASE Kept = {}
  <2>1. LoadedText(file) = <<>>
    BY <1>1 DEF LoadedText
  <2>2. QED
    BY <2>1
<1>2. CASE Kept # {}
  <2>1. Kept \subseteq Nat
    OBVIOUS
  <2>2. first \in Kept
    BY <1>2, <2>1, LeastExists
  <2>3. first \in 1 .. Len(file) /\ LoadedText(file) = SubSeq(file, first, Len(file))
    BY <1>2, <2>2 DEF LoadedText
  <2> HIDE DEF first, Kept
  <2>4. QED
    BY <2>3
<1>3. QED
  BY <1>1, <1>2

(* Lower-casing changes no length and stays within the bytes.              *)
LEMMA LoweredType ==
  ASSUME NEW s \in Seq(Byte)
  PROVE  /\ Lowered(s) \in Seq(Byte)
         /\ Len(Lowered(s)) = Len(s)
         /\ \A k \in 1 .. Len(s) : Lowered(s)[k] = Lower(s[k])
<1>1. \A k \in 1 .. Len(s) : Lower(s[k]) \in Byte
  <2> SUFFICES ASSUME NEW k \in 1 .. Len(s)
               PROVE  Lower(s[k]) \in Byte
    OBVIOUS
  <2>1. s[k] \in Byte
    OBVIOUS
  <2>2. QED
    BY <2>1, ByteRange
<1>2. QED
  BY <1>1 DEF Lowered

(* No sequence is below itself.                                            *)
LEMMA LessIrreflexive ==
  ASSUME NEW s \in Seq(Byte)
  PROVE  ~ LexLess(s, s)
<1>1. \A k \in 1 .. Len(s) : ~ (s[k] < s[k])
  BY ByteAt
<1>2. QED
  BY <1>1 DEF LexLess

(* Of two different sequences one is below the other: the first position   *)
(* where they differ, or where one has ended, decides.                     *)
LEMMA LessTotal ==
  ASSUME NEW s \in Seq(Byte), NEW t \in Seq(Byte), s # t
  PROVE  LexLess(s, t) \/ LexLess(t, s)
<1> DEFINE D == {k \in 1 .. Len(s) : k <= Len(t) /\ s[k] # t[k]}
<1>1. CASE D # {}
  <2>1. PICK k \in D : \A j \in D : k <= j
    <3>1. D \subseteq Nat
      OBVIOUS
    <3>2. QED
      BY <1>1, <3>1, LeastExists, Zenon
  <2>2. k \in 1 .. Len(s) /\ k \in 1 .. Len(t) /\ s[k] # t[k]
    BY <2>1
  <2>3. \A j \in 1 .. k - 1 : s[j] = t[j]
    BY <2>1, <2>2
  <2>4. s[k] < t[k] \/ t[k] < s[k]
    BY <2>2, ByteAt
  <2>5. QED
    BY <2>2, <2>3, <2>4 DEF LexLess
<1>2. CASE D = {}
  <2>1. \A k \in 1 .. Len(s) : k <= Len(t) => s[k] = t[k]
    BY <1>2
  <2>2. Len(s) # Len(t)
    BY <2>1
  <2>3. CASE Len(s) < Len(t)
    <3>1. Len(s) + 1 \in 1 .. Len(t)
      BY <2>3
    <3>2. \A j \in 1 .. (Len(s) + 1) - 1 : s[j] = t[j]
      BY <2>1, <2>3
    <3>3. QED
      BY <3>1, <3>2 DEF LexLess
  <2>4. CASE Len(t) < Len(s)
    <3>1. Len(t) + 1 \in 1 .. Len(s)
      BY <2>4
    <3>2. \A j \in 1 .. (Len(t) + 1) - 1 : t[j] = s[j]
      BY <2>1, <2>4
    <3>3. QED
      BY <3>1, <3>2 DEF LexLess
  <2>5. QED
    BY <2>2, <2>3, <2>4
<1>3. QED
  BY <1>1, <1>2

(* The first n elements of a sequence, or all of a shorter one.            *)
Cut(s, n) == SubSeq(s, 1, IF n <= Len(s) THEN n ELSE Len(s))

(* Of a longer sequence its first n elements are left.                     *)
LEMMA CutType ==
  ASSUME NEW s \in Seq(Byte), NEW n \in Nat
  PROVE  /\ Cut(s, n) \in Seq(Byte)
         /\ Len(Cut(s, n)) = IF n <= Len(s) THEN n ELSE Len(s)
         /\ \A k \in 1 .. Len(Cut(s, n)) : Cut(s, n)[k] = s[k]
  BY DEF Cut

(* If t is above s and its first bytes are below w, so are those of s.     *)
LEMMA CutKeepsOrder ==
  ASSUME NEW s \in Seq(Byte), NEW t \in Seq(Byte), NEW w \in Seq(Byte),
         NEW n \in Nat, LexLess(s, t), LexLess(Cut(t, n), w)
  PROVE  LexLess(Cut(s, n), w)
<1> DEFINE a == Cut(s, n)
           b == Cut(t, n)
<1>1. /\ a \in Seq(Byte) /\ Len(a) = (IF n <= Len(s) THEN n ELSE Len(s))
      /\ \A k \in 1 .. Len(a) : a[k] = s[k]
      /\ b \in Seq(Byte) /\ Len(b) = (IF n <= Len(t) THEN n ELSE Len(t))
      /\ \A k \in 1 .. Len(b) : b[k] = t[k]
  BY CutType
<1>2. PICK j \in 1 .. Len(t) :
        /\ j <= Len(s) + 1
        /\ \A h \in 1 .. j - 1 : s[h] = t[h]
        /\ j <= Len(s) => s[j] < t[j]
  BY DEF LexLess
<1>3. PICK k \in 1 .. Len(w) :
        /\ k <= Len(b) + 1
        /\ \A h \in 1 .. k - 1 : b[h] = w[h]
        /\ k <= Len(b) => b[k] < w[k]
  BY DEF LexLess
<1> HIDE DEF a, b
<1>4. CASE k < j
  <2>1. k <= Len(a) + 1 /\ (k <= Len(a) => k <= Len(b))
    BY <1>1, <1>2, <1>3, <1>4
  <2>2. \A h \in 1 .. k - 1 : a[h] = w[h]
    BY <1>1, <1>2, <1>3, <1>4, <2>1
  <2>3. k <= Len(a) => a[k] < w[k]
    BY <1>1, <1>2, <1>3, <1>4, <2>1
  <2>4. QED
    BY <2>1, <2>2, <2>3 DEF LexLess, a
<1>5. CASE j <= k
  <2>1. CASE j <= Len(b)
    <3>1. j <= Len(a) + 1 /\ j \in 1 .. Len(w) /\ (j <= Len(a) => j <= Len(s))
      BY <1>1, <1>2, <1>3, <1>5, <2>1
    <3>2. \A h \in 1 .. j - 1 : a[h] = w[h]
      <4> SUFFICES ASSUME NEW h \in 1 .. j - 1
                   PROVE  a[h] = w[h]
        OBVIOUS
      <4>1. h \in 1 .. Len(a) /\ h \in 1 .. Len(b) /\ h \in 1 .. k - 1
        BY <1>1, <1>2, <1>3, <1>5, <2>1, <3>1
      <4>2. QED
        BY <4>1, <1>1, <1>2, <1>3
    <3>3. ASSUME j <= Len(a) PROVE a[j] < w[j]
      <4>1. a[j] = s[j] /\ b[j] = t[j] /\ s[j] < t[j]
        BY <1>1, <1>2, <2>1, <3>1, <3>3
      <4>2. b[j] = w[j] \/ b[j] < w[j]
        BY <1>3, <1>5, <2>1
      <4>3. a[j] \in Int /\ b[j] \in Int /\ w[j] \in Int
        BY <1>1, <1>5, <2>1, <3>1, <3>3, ByteAt
      <4>4. QED
        BY <4>1, <4>2, <4>3
    <3>4. QED
      BY <3>1, <3>2, <3>3 DEF LexLess, a
  <2>2. CASE j > Len(b)
    <3>1. k = j /\ Len(b) = n /\ Len(a) = n /\ k = n + 1
      BY <1>1, <1>2, <1>3, <1>5, <2>2
    <3>2. \A h \in 1 .. k - 1 : a[h] = w[h]
      BY <1>1, <1>2, <1>3, <3>1
    <3>3. QED
      BY <1>3, <3>1, <3>2 DEF LexLess, a
  <2>3. QED
    BY <1>1, <1>2, <2>1, <2>2
<1>6. QED
  BY <1>4, <1>5

(* A C string is part of its text; without NUL it is all the rest of it.   *)
LEMMA CStringType ==
  ASSUME NEW text \in Seq(Byte), NEW p \in 0 .. Len(text)
  PROVE  /\ CString(text, p) \in Seq(Byte)
         /\ HasNoNUL(text) => CString(text, p) = From(text, p)
<1> DEFINE Ends == {e \in p .. Len(text) : e = Len(text) \/ text[e + 1] = NUL}
           end == CHOOSE e \in Ends : \A f \in Ends : e <= f
<1>1. Ends \subseteq Nat /\ Len(text) \in Ends
  OBVIOUS
<1>2. \E e \in Ends : \A f \in Ends : e <= f
  BY <1>1, LeastExists
<1>3. end \in Ends
  BY <1>2
<1>4. end \in p .. Len(text) /\ (end = Len(text) \/ text[end + 1] = NUL)
  BY <1>3
<1>5. CString(text, p) = SubSeq(text, p + 1, end)
  BY DEF CString
<1> HIDE DEF end, Ends
<1>6. SubSeq(text, p + 1, end) \in Seq(Byte)
  BY <1>4
<1>7. HasNoNUL(text) => end = Len(text)
  BY <1>4 DEF HasNoNUL
<1>8. QED
  BY <1>5, <1>6, <1>7 DEF From

(* What follows a position, its length and its bytes.                      *)
LEMMA FromType ==
  ASSUME NEW text \in Seq(Byte), NEW p \in 0 .. Len(text)
  PROVE  /\ From(text, p) \in Seq(Byte) /\ Len(From(text, p)) = Len(text) - p
         /\ \A k \in 1 .. Len(From(text, p)) : From(text, p)[k] = text[p + k]
  BY DEF From

(* A position's suffix is the same key as itself.                          *)
LEMMA SameSuffixReflexive ==
  ASSUME NEW text \in Seq(Byte), NEW p \in 0 .. Len(text)
  PROVE  SameSuffix(text, p, p) /\ ~ SuffixLess(text, p, p)
<1>1. Lowered(CString(text, p)) \in Seq(Byte)
  BY CStringType, LoweredType
<1>2. QED
  BY <1>1, LessIrreflexive DEF SameSuffix, SuffixLess, CaseLess

(* Without NUL, no two positions have suffixes that are the same key.      *)
LEMMA SuffixesDiffer ==
  ASSUME NEW text \in Seq(Byte), HasNoNUL(text),
         NEW p \in 0 .. Len(text), NEW q \in 0 .. Len(text), p # q
  PROVE  ~ SameSuffix(text, p, q)
<1> DEFINE s == Lowered(CString(text, p))
           t == Lowered(CString(text, q))
<1>1. /\ s \in Seq(Byte) /\ Len(s) = Len(text) - p
      /\ t \in Seq(Byte) /\ Len(t) = Len(text) - q
  BY CStringType, FromType, LoweredType
<1> HIDE DEF s, t
<1>2. s # t
  BY <1>1
<1>3. LexLess(s, t) \/ LexLess(t, s)
  BY <1>1, <1>2, LessTotal
<1>4. QED
  BY <1>3 DEF SameSuffix, SuffixLess, CaseLess, s, t

(* A short read, lower-cased, is the beginning of the lower-cased suffix.  *)
LEMMA ReadIsCut ==
  ASSUME NEW text \in Seq(Byte), NEW p \in 0 .. Len(text), NEW n \in Nat
  PROVE  Lowered(ReadAt(text, p, n)) = Cut(Lowered(From(text, p)), n)
<1> DEFINE f == From(text, p)
           r == ReadAt(text, p, n)
<1>1. /\ f \in Seq(Byte) /\ Len(f) = Len(text) - p
      /\ \A k \in 1 .. Len(f) : f[k] = text[p + k]
  BY DEF From
<1>2. /\ r \in Seq(Byte) /\ Len(r) = IF n <= Len(f) THEN n ELSE Len(f)
      /\ \A k \in 1 .. Len(r) : r[k] = text[p + k]
  <2> DEFINE end == IF p + n <= Len(text) THEN p + n ELSE Len(text)
  <2>1. end \in p .. Len(text) /\ r = SubSeq(text, p + 1, end)
    BY DEF ReadAt
  <2>2. end - p = IF n <= Len(f) THEN n ELSE Len(f)
    BY <1>1
  <2> HIDE DEF end, r, f
  <2>3. /\ r \in Seq(Byte) /\ Len(r) = end - p
        /\ \A k \in 1 .. Len(r) : r[k] = text[p + k]
    BY <2>1
  <2>4. QED
    BY <2>2, <2>3
<1> HIDE DEF f, r
<1> DEFINE lf == Lowered(f)
           lr == Lowered(r)
           c == Cut(lf, n)
<1>3. /\ lf \in Seq(Byte) /\ Len(lf) = Len(f)
      /\ \A k \in 1 .. Len(f) : lf[k] = Lower(f[k])
  BY <1>1, LoweredType
<1>4. /\ lr \in Seq(Byte) /\ Len(lr) = Len(r)
      /\ \A k \in 1 .. Len(r) : lr[k] = Lower(r[k])
  BY <1>2, LoweredType
<1> HIDE DEF lf, lr
<1>5. /\ c \in Seq(Byte) /\ Len(c) = IF n <= Len(lf) THEN n ELSE Len(lf)
      /\ \A k \in 1 .. Len(c) : c[k] = lf[k]
  BY <1>3, CutType
<1> HIDE DEF c
<1>6. Len(lr) = Len(c)
  BY <1>2, <1>3, <1>4, <1>5
<1>7. \A k \in 1 .. Len(lr) : lr[k] = c[k]
  <2> SUFFICES ASSUME NEW k \in 1 .. Len(lr)
               PROVE  lr[k] = c[k]
    OBVIOUS
  <2>1. k \in 1 .. Len(r) /\ k \in 1 .. Len(f) /\ k \in 1 .. Len(c)
    BY <1>1, <1>2, <1>4, <1>6
  <2>2. r[k] = f[k]
    BY <1>1, <1>2, <2>1
  <2>3. QED
    BY <1>3, <1>4, <1>5, <2>1, <2>2
<1>8. lr = c
  BY <1>4, <1>5, <1>6, <1>7
<1>9. QED
  BY <1>8 DEF lr, c, lf, f, r

(* If suffix p is before suffix q, and the first bytes at q are below a    *)
(* word, then the first bytes at p are.                                    *)
LEMMA ReadKeepsOrder ==
  ASSUME NEW text \in Seq(Byte), HasNoNUL(text),
         NEW p \in 0 .. Len(text), NEW q \in 0 .. Len(text),
         NEW word \in Seq(Byte), NEW n \in Nat,
         SuffixLess(text, p, q), CaseLess(ReadAt(text, q, n), word)
  PROVE  CaseLess(ReadAt(text, p, n), word)
<1> DEFINE s == Lowered(From(text, p))
           t == Lowered(From(text, q))
           w == Lowered(word)
<1>1. s \in Seq(Byte) /\ t \in Seq(Byte) /\ w \in Seq(Byte)
  BY FromType, LoweredType
<1>2. LexLess(s, t)
  BY CStringType DEF SuffixLess, CaseLess
<1>3. LexLess(Cut(t, n), w)
  BY ReadIsCut DEF CaseLess
<1> HIDE DEF s, t, w
<1>4. LexLess(Cut(s, n), w)
  BY <1>1, <1>2, <1>3, CutKeepsOrder
<1>5. QED
  BY <1>4, ReadIsCut DEF CaseLess, s, w

(* The order of sequences is transitive.                                   *)
LEMMA LessTransitive ==
  ASSUME NEW s \in Seq(Byte), NEW t \in Seq(Byte), NEW w \in Seq(Byte),
         LexLess(s, t), LexLess(t, w)
  PROVE  LexLess(s, w)
<1> DEFINE n == Len(s) + Len(t)
<1>1. n \in Nat /\ Len(s) <= n /\ Len(t) <= n
  OBVIOUS
<1> HIDE DEF n
<1>2. Cut(s, n) = s /\ Cut(t, n) = t
  BY <1>1 DEF Cut
<1>3. QED
  BY <1>1, <1>2, CutKeepsOrder

(* In a finite set with a strict and total order, counting the members     *)
(* below each gives every number from 0 to the size less one once.         *)
LEMMA Ranks ==
  ASSUME NEW S, IsFiniteSet(S), NEW before \in [S -> SUBSET S],
         \A p \in S : p \notin before[p],
         \A p, q \in S : p # q => p \in before[q] \/ q \in before[p],
         \A p, q \in S : p \in before[q] => before[p] \subseteq before[q]
  PROVE  /\ \A p \in S : Cardinality(before[p]) + 1 \in 1 .. Cardinality(S)
         /\ \A p, q \in S :
              p \in before[q] => Cardinality(before[p]) < Cardinality(before[q])
         /\ \A k \in 1 .. Cardinality(S) :
              \E p \in S : Cardinality(before[p]) = k - 1
<1> DEFINE n == Cardinality(S)
           Rank == [p \in S |-> Cardinality(before[p]) + 1]
<1>1. n \in Nat
  BY FS_CardinalityType
<1>2. \A p \in S : IsFiniteSet(before[p]) /\ Cardinality(before[p]) \in Nat
  BY FS_Subset, FS_CardinalityType
<1>3. ASSUME NEW p \in S PROVE Cardinality(before[p]) < n
  <2>1. before[p] \in SUBSET S /\ before[p] # S
    OBVIOUS
  <2>2. Cardinality(before[p]) <= n /\ Cardinality(before[p]) # n
    BY <2>1, FS_Subset
  <2>3. QED
    BY <2>2, <1>1, <1>2
<1>4. ASSUME NEW p \in S, NEW q \in S, p \in before[q]
      PROVE  Cardinality(before[p]) < Cardinality(before[q])
  <2>1. before[p] \in SUBSET before[q] /\ before[p] # before[q]
    BY <1>4
  <2>2. Cardinality(before[p]) <= Cardinality(before[q])
        /\ Cardinality(before[p]) # Cardinality(before[q])
    BY <2>1, <1>2, FS_Subset
  <2>3. QED
    BY <2>2, <1>2
<1>5. Rank \in [S -> 1 .. n]
  BY <1>1, <1>2, <1>3
<1>6. \A p, q \in S : p # q => Rank[p] # Rank[q]
  <2> SUFFICES ASSUME NEW p \in S, NEW q \in S, p # q
               PROVE  Rank[p] # Rank[q]
    OBVIOUS
  <2>1. p \in before[q] \/ q \in before[p]
    OBVIOUS
  <2>2. Cardinality(before[p]) # Cardinality(before[q])
    BY <2>1, <1>2, <1>4
  <2>3. QED
    BY <2>2, <1>2
<1>7. Rank \in Injection(S, 1 .. n)
  BY <1>5, <1>6, Zenon DEF Injection, IsInjective
<1>8. IsFiniteSet(1 .. n) /\ Cardinality(1 .. n) = n
  BY <1>1, FS_Interval
<1>9. Rank \in Surjection(S, 1 .. n)
  BY <1>7, <1>8, FS_Injection
<1>10. \A k \in 1 .. n : \E p \in S : Rank[p] = k
  BY <1>9 DEF Surjection
<1>11. \A k \in 1 .. n : \E p \in S : Cardinality(before[p]) = k - 1
  BY <1>1, <1>2, <1>10
<1>12. QED
  BY <1>1, <1>2, <1>3, <1>4, <1>11

(* The order of the suffixes of a text is transitive, and without NUL it   *)
(* is total.                                                               *)
LEMMA SuffixOrder ==
  ASSUME NEW text \in Seq(Byte)
  PROVE  /\ \A p, q, r \in 0 .. Len(text) :
              SuffixLess(text, p, q) /\ SuffixLess(text, q, r) => SuffixLess(text, p, r)
         /\ HasNoNUL(text) => \A p, q \in 0 .. Len(text) :
              p # q => SuffixLess(text, p, q) \/ SuffixLess(text, q, p)
<1>1. \A p \in 0 .. Len(text) : Lowered(CString(text, p)) \in Seq(Byte)
  BY CStringType, LoweredType
<1>2. QED
  BY <1>1, LessTransitive, SuffixesDiffer DEF SameSuffix, SuffixLess, CaseLess

(* The index of a text without NUL has every start of the text, in order.  *)
LEMMA SuffixArrayOrdered ==
  ASSUME NEW text \in Seq(Byte), HasNoNUL(text)
  PROVE  /\ IsFiniteSet(Starts(text))
         /\ SuffixArray(text) \in Seq(Starts(text))
         /\ Len(SuffixArray(text)) = Cardinality(Starts(text))
         /\ \A k, l \in 1 .. Len(SuffixArray(text)) :
              k < l => SuffixLess(text, SuffixArray(text)[k], SuffixArray(text)[l])
         /\ \A p \in Starts(text) :
              \E k \in 1 .. Len(SuffixArray(text)) : SuffixArray(text)[k] = p
<1> DEFINE S == Starts(text)
           before == [p \in S |-> {q \in S : SuffixLess(text, q, p)}]
           n == Cardinality(S)
           a == SuffixArray(text)
<1>1. S \subseteq 0 .. Len(text) /\ S \in SUBSET (0 .. Len(text))
  BY DEF Starts
<1>2. IsFiniteSet(S)
  <2>1. IsFiniteSet(0 .. Len(text))
    BY FS_Interval
  <2> HIDE DEF S
  <2>2. QED
    BY <1>1, <2>1, FS_Subset
<1>3. n \in Nat
  BY <1>2, FS_CardinalityType
<1>4. /\ \A p \in S : ~ SuffixLess(text, p, p)
      /\ \A p, q \in S : p # q => SuffixLess(text, p, q) \/ SuffixLess(text, q, p)
      /\ \A p, q, r \in S :
           SuffixLess(text, p, q) /\ SuffixLess(text, q, r) => SuffixLess(text, p, r)
  BY <1>1, SameSuffixReflexive, SuffixOrder
<1>5. a = [k \in 1 .. n |->
             CHOOSE p \in S : Cardinality({q \in S : SuffixLess(text, q, p)}) = k - 1]
  BY DEF SuffixArray, Ordered
<1> HIDE DEF a, S
<1>6. /\ \A p \in S : Cardinality(before[p]) + 1 \in 1 .. n
      /\ \A p, q \in S : p \in before[q] => Cardinality(before[p]) < Cardinality(before[q])
      /\ \A k \in 1 .. n : \E p \in S : Cardinality(before[p]) = k - 1
  <2>1. before \in [S -> SUBSET S]
    OBVIOUS
  <2>2. /\ \A p \in S : p \notin before[p]
        /\ \A p, q \in S : p # q => p \in before[q] \/ q \in before[p]
        /\ \A p, q \in S : p \in before[q] => before[p] \subseteq before[q]
    BY <1>4
  <2> HIDE DEF before, n
  <2>3. QED
    BY <1>2, <2>1, <2>2, Ranks DEF n
<1>7. \A p \in S : Cardinality(before[p]) \in Int
  <2>1. \A p \in S : before[p] \in SUBSET S
    OBVIOUS
  <2>2. QED
    BY <1>2, <2>1, FS_Subset, FS_CardinalityType
<1>8. \A p \in S : before[p] = {q \in S : SuffixLess(text, q, p)}
  OBVIOUS
<1> HIDE DEF before, n
<1>9. \A k \in 1 .. n : a[k] \in S /\ Cardinality(before[a[k]]) = k - 1
  BY <1>5, <1>6, <1>8
<1>10. a \in Seq(S) /\ Len(a) = n
  <2>1. a \in [1 .. n -> S]
    BY <1>5, <1>9
  <2>2. QED
    BY <1>3, <2>1
<1>11. ASSUME NEW k \in 1 .. n, NEW l \in 1 .. n, k < l
       PROVE  SuffixLess(text, a[k], a[l])
  <2>1. a[k] \in S /\ a[l] \in S /\ a[k] # a[l]
        /\ ~ (Cardinality(before[a[l]]) < Cardinality(before[a[k]]))
    BY <1>9, <1>11
  <2>2. ~ (a[l] \in before[a[k]])
    BY <1>6, <2>1
  <2>3. QED
    BY <1>4, <1>8, <2>1, <2>2
<1>12. ASSUME NEW p \in S PROVE \E k \in 1 .. n : a[k] = p
  <2> DEFINE k == Cardinality(before[p]) + 1
  <2>1. k \in 1 .. n /\ a[k] \in S /\ Cardinality(before[a[k]]) = Cardinality(before[p])
    BY <1>6, <1>7, <1>9
  <2>2. a[k] \notin before[p] /\ p \notin before[a[k]]
    BY <1>6, <1>7, <2>1
  <2>3. a[k] = p
    BY <1>4, <1>8, <2>1, <2>2
  <2>4. QED
    BY <2>1, <2>3
<1>13. QED
  BY <1>2, <1>10, <1>11, <1>12 DEF a, S, n

(* For sequences without byte 255, those that begin with w are the ones    *)
(* between w and w with byte 255: whether whole or cut to the bound.       *)
LEMMA PrefixesBetween ==
  ASSUME NEW s \in Seq(Byte), \A k \in 1 .. Len(s) : s[k] # 255,
         NEW w \in Seq(Byte)
  PROVE  /\ Cut(s, Len(w)) = w <=>
              /\ ~ LexLess(Cut(s, Len(w)), w)
              /\ LexLess(Cut(s, Len(w) + 1), Append(w, 255))
         /\ Cut(s, Len(w)) = w <=>
              ~ LexLess(s, w) /\ ~ LexLess(Append(w, 255), s)
<1> DEFINE n == Len(w)
           a == Cut(s, n)
           b == Cut(s, n + 1)
           v == Append(w, 255)
<1>1. /\ n \in Nat
      /\ a \in Seq(Byte) /\ Len(a) = (IF n <= Len(s) THEN n ELSE Len(s))
      /\ \A k \in 1 .. Len(a) : a[k] = s[k]
      /\ b \in Seq(Byte) /\ Len(b) = (IF n + 1 <= Len(s) THEN n + 1 ELSE Len(s))
      /\ \A k \in 1 .. Len(b) : b[k] = s[k]
  BY CutType
<1>2. /\ v \in Seq(Byte) /\ Len(v) = n + 1 /\ v[n + 1] = 255
      /\ \A k \in 1 .. n : v[k] = w[k]
  BY DEF Byte
<1>3. /\ Len(s) \in Nat
      /\ \A k \in 1 .. Len(s) : s[k] \in Int /\ s[k] < 255
      /\ \A k \in 1 .. n : w[k] \in Int
  BY ByteAt
<1>4. a = w <=> n <= Len(s) /\ \A k \in 1 .. n : s[k] = w[k]
  <2>1. a = w => n <= Len(s) /\ \A k \in 1 .. n : s[k] = w[k]
    BY <1>1, <1>3
  <2> HIDE DEF a
  <2>2. ASSUME n <= Len(s), \A k \in 1 .. n : s[k] = w[k]
        PROVE  a = w
    <3>1. a \in Seq(Byte) /\ Len(a) = Len(w) /\ \A k \in 1 .. Len(a) : a[k] = w[k]
      BY <1>1, <2>2
    <3> HIDE DEF n
    <3>2. QED
      BY <3>1
  <2>3. QED
    BY <2>1, <2>2
<1> HIDE DEF a, b, v, n
<1>5. ASSUME a = w
      PROVE  /\ ~ LexLess(a, w) /\ LexLess(b, v)
             /\ ~ LexLess(s, w) /\ ~ LexLess(v, s)
  <2>1. n <= Len(s) /\ (\A k \in 1 .. n : s[k] = w[k]) /\ n = Len(w)
    BY <1>4, <1>5 DEF n
  <2>2. ~ LexLess(a, w)
    BY <1>5, LessIrreflexive
  <2>3. LexLess(b, v)
    <3>1. n + 1 \in 1 .. Len(v) /\ n + 1 <= Len(b) + 1
      BY <1>1, <1>2, <1>3, <2>1
    <3>2. \A j \in 1 .. (n + 1) - 1 : b[j] = v[j]
      BY <1>1, <1>2, <1>3, <2>1
    <3>3. n + 1 <= Len(b) => b[n + 1] < v[n + 1]
      BY <1>1, <1>2, <1>3, <2>1
    <3>4. QED
      BY <3>1, <3>2, <3>3 DEF LexLess
  <2>4. ~ LexLess(s, w)
    <3>1. \A k \in 1 .. Len(w) : k <= Len(s) /\ ~ (s[k] < w[k])
      BY <1>1, <1>3, <2>1
    <3>2. QED
      BY <3>1 DEF LexLess
  <2>5. ~ LexLess(v, s)
    <3> SUFFICES ASSUME NEW k \in 1 .. Len(s), k <= Len(v) + 1,
                        \A j \in 1 .. k - 1 : v[j] = s[j],
                        k <= Len(v) => v[k] < s[k]
                 PROVE  FALSE
      BY DEF LexLess
    <3>1. CASE k <= n
      BY <1>1, <1>2, <1>3, <2>1, <3>1
    <3>2. CASE k = n + 1
      BY <1>1, <1>2, <1>3, <3>2
    <3>3. CASE k = n + 2
      <4>1. v[n + 1] = s[n + 1] /\ n + 1 \in 1 .. Len(s)
        BY <1>1, <1>3, <3>3
      <4>2. QED
        BY <1>2, <1>3, <4>1
    <3>4. QED
      BY <1>1, <1>2, <3>1, <3>2, <3>3
  <2>6. QED
    BY <2>2, <2>3, <2>4, <2>5
<1>6. ASSUME LexLess(b, v), a # w PROVE LexLess(a, w)
  <2>1. PICK k \in 1 .. Len(v) :
          /\ k <= Len(b) + 1
          /\ \A j \in 1 .. k - 1 : b[j] = v[j]
          /\ k <= Len(b) => b[k] < v[k]
    BY <1>6 DEF LexLess
  <2>2. k # n + 1
    <3> SUFFICES ASSUME k = n + 1 PROVE FALSE
      OBVIOUS
    <3>1. n <= Len(s) /\ n <= Len(b)
      BY <1>1, <1>3, <2>1
    <3>2. \A j \in 1 .. n : s[j] = w[j]
      BY <1>1, <1>2, <2>1, <3>1
    <3>3. QED
      BY <1>4, <1>6, <3>1, <3>2
  <2>3. k \in 1 .. Len(w) /\ k <= Len(a) + 1 /\ (k <= Len(a) => k <= Len(b))
    BY <1>1, <1>2, <1>3, <2>1, <2>2 DEF n
  <2>4. \A j \in 1 .. k - 1 : a[j] = w[j]
    <3> SUFFICES ASSUME NEW j \in 1 .. k - 1
                 PROVE  a[j] = w[j]
      OBVIOUS
    <3>1. j \in 1 .. Len(a) /\ j \in 1 .. Len(b) /\ j \in 1 .. n
      BY <1>1, <1>3, <2>3 DEF n
    <3>2. QED
      BY <1>1, <1>2, <2>1, <3>1
  <2>5. k <= Len(a) => a[k] < w[k]
    BY <1>1, <1>2, <1>3, <2>1, <2>3 DEF n
  <2>6. QED
    BY <2>3, <2>4, <2>5 DEF LexLess
<1>7. ASSUME a # w PROVE LexLess(s, w) \/ LexLess(v, s)
  <2>1. LexLess(a, w) \/ LexLess(w, a)
    BY <1>1, <1>7, LessTotal
  <2>2. ASSUME LexLess(a, w) PROVE LexLess(s, w)
    <3>1. PICK k \in 1 .. Len(w) :
            /\ k <= Len(a) + 1
            /\ \A j \in 1 .. k - 1 : a[j] = w[j]
            /\ k <= Len(a) => a[k] < w[k]
      BY <2>2 DEF LexLess
    <3>2. k <= Len(s) + 1 /\ (k <= Len(s) => k <= Len(a))
      BY <1>1, <1>3, <3>1 DEF n
    <3>3. (\A j \in 1 .. k - 1 : s[j] = w[j]) /\ (k <= Len(s) => s[k] < w[k])
      BY <1>1, <1>3, <3>1, <3>2
    <3>4. QED
      BY <3>1, <3>2, <3>3 DEF LexLess
  <2>3. ASSUME LexLess(w, a) PROVE LexLess(v, s)
    <3>1. PICK k \in 1 .. Len(a) :
            /\ k <= Len(w) + 1
            /\ \A j \in 1 .. k - 1 : w[j] = a[j]
            /\ k <= Len(w) => w[k] < a[k]
      BY <2>3 DEF LexLess
    <3>2. k \in 1 .. Len(s) /\ k <= n /\ k \in 1 .. Len(w)
      BY <1>1, <1>3, <3>1 DEF n
    <3>3. k <= Len(v) + 1 /\ (\A j \in 1 .. k - 1 : v[j] = s[j]) /\ v[k] < s[k]
      BY <1>1, <1>2, <1>3, <3>1, <3>2
    <3>4. QED
      BY <3>2, <3>3 DEF LexLess
  <2>4. QED
    BY <2>1, <2>2, <2>3
<1>8. QED
  BY <1>5, <1>6, <1>7 DEF a, b, v, n

(* Lower-casing makes no byte 255 of another.                              *)
LEMMA LoweredBelowTop ==
  ASSUME NEW s \in Seq(Byte), \A k \in 1 .. Len(s) : s[k] # 255
  PROVE  \A k \in 1 .. Len(Lowered(s)) : Lowered(s)[k] # 255
<1>1. \A c \in Byte : c # 255 => Lower(c) # 255
  BY DEF Byte, Lower, Letters
<1>2. \A k \in 1 .. Len(s) : s[k] \in Byte
  OBVIOUS
<1>3. QED
  BY <1>1, <1>2, LoweredType

(* Lower-casing leaves byte 255 alone.                                     *)
LEMMA LoweredTop ==
  ASSUME NEW s \in Seq(Byte)
  PROVE  /\ Append(s, 255) \in Seq(Byte)
         /\ Lowered(Append(s, 255)) = Append(Lowered(s), 255)
<1> DEFINE v == Append(s, 255)
           lv == Lowered(v)
           ls == Lowered(s)
           vl == Append(ls, 255)
<1>1. 255 \in Byte
  BY DEF Byte
<1>2. v \in Seq(Byte) /\ Len(v) = Len(s) + 1 /\ v[Len(s) + 1] = 255
      /\ \A k \in 1 .. Len(s) : v[k] = s[k]
  BY <1>1
<1>3. ls \in Seq(Byte) /\ Len(ls) = Len(s) /\ \A k \in 1 .. Len(s) : ls[k] = Lower(s[k])
  BY LoweredType
<1> HIDE DEF v, ls
<1>4. lv \in Seq(Byte) /\ Len(lv) = Len(v) /\ \A k \in 1 .. Len(v) : lv[k] = Lower(v[k])
  BY <1>2, LoweredType
<1>5. vl \in Seq(Byte) /\ Len(vl) = Len(s) + 1 /\ vl[Len(s) + 1] = 255
      /\ \A k \in 1 .. Len(s) : vl[k] = ls[k]
  BY <1>1, <1>3
<1>6. Lower(255) = 255
  BY DEF Lower, Letters
<1> HIDE DEF lv, vl
<1>7. lv = vl
  <2>1. \A k \in 1 .. Len(lv) : lv[k] = vl[k]
    BY <1>2, <1>3, <1>4, <1>5, <1>6
  <2>2. QED
    BY <1>2, <1>4, <1>5, <2>1
<1>8. QED
  BY <1>2, <1>7 DEF v, ls, lv, vl

(* The text is UTF-8: it has no byte 255 (nor a NUL, which C would end at). *)
IsUTF8(text) == HasNoNUL(text) /\ \A k \in 1 .. Len(text) : text[k] # 255

(* A word occurs at a position just when the bytes read there are not      *)
(* below the word and one byte more is below the word with byte 255; and   *)
(* just when the suffix is neither below the one nor above the other.      *)
LEMMA OccursBetween ==
  ASSUME NEW text \in Seq(Byte), IsUTF8(text),
         NEW p \in 0 .. Len(text), NEW word \in Seq(Byte)
  PROVE  /\ Lowered(ReadAt(text, p, Len(word))) = Lowered(word) <=>
              /\ ~ CaseLess(ReadAt(text, p, Len(word)), word)
              /\ CaseLess(ReadAt(text, p, Len(word) + 1), Append(word, 255))
         /\ Lowered(ReadAt(text, p, Len(word))) = Lowered(word) <=>
              /\ ~ CaseLess(CString(text, p), word)
              /\ ~ CaseLess(Append(word, 255), CString(text, p))
<1> DEFINE f == From(text, p)
           s == Lowered(f)
           w == Lowered(word)
<1>1. /\ f \in Seq(Byte) /\ \A k \in 1 .. Len(f) : f[k] # 255
      /\ CString(text, p) = f
  <2>1. \A k \in 1 .. Len(f) : p + k \in 1 .. Len(text) /\ f[k] = text[p + k]
    BY DEF From
  <2>2. f \in Seq(Byte) /\ CString(text, p) = f
    BY FromType, CStringType DEF IsUTF8
  <2> HIDE DEF f
  <2>3. \A k \in 1 .. Len(text) : text[k] # 255
    BY DEF IsUTF8
  <2>4. \A k \in 1 .. Len(f) : f[k] # 255
    BY <2>1, <2>3
  <2>5. QED
    BY <2>2, <2>4
<1> HIDE DEF f
<1>2. s \in Seq(Byte) /\ w \in Seq(Byte) /\ Len(w) = Len(word)
      /\ \A k \in 1 .. Len(s) : s[k] # 255
  <2>1. s \in Seq(Byte) /\ w \in Seq(Byte) /\ Len(w) = Len(word)
    BY <1>1, LoweredType
  <2>2. \A k \in 1 .. Len(s) : s[k] # 255
    BY <1>1, LoweredBelowTop
  <2>3. QED
    BY <2>1, <2>2
<1>3. Lowered(Append(word, 255)) = Append(w, 255)
  BY LoweredTop
<1>4. /\ Lowered(ReadAt(text, p, Len(word))) = Cut(s, Len(w))
      /\ Lowered(ReadAt(text, p, Len(word) + 1)) = Cut(s, Len(w) + 1)
  <2>1. Len(word) \in Nat /\ Len(word) + 1 \in Nat
    OBVIOUS
  <2>2. QED
    BY <1>2, <2>1, ReadIsCut DEF f
<1>5. /\ CaseLess(ReadAt(text, p, Len(word)), word) <=> LexLess(Cut(s, Len(w)), w)
      /\ CaseLess(ReadAt(text, p, Len(word) + 1), Append(word, 255)) <=>
           LexLess(Cut(s, Len(w) + 1), Append(w, 255))
      /\ CaseLess(CString(text, p), word) <=> LexLess(s, w)
      /\ CaseLess(Append(word, 255), CString(text, p)) <=> LexLess(Append(w, 255), s)
  BY <1>1, <1>3, <1>4 DEF CaseLess
<1> HIDE DEF s, w
<1>6. /\ Cut(s, Len(w)) = w <=>
           ~ LexLess(Cut(s, Len(w)), w) /\ LexLess(Cut(s, Len(w) + 1), Append(w, 255))
      /\ Cut(s, Len(w)) = w <=> ~ LexLess(s, w) /\ ~ LexLess(Append(w, 255), s)
  BY <1>2, PrefixesBetween
<1>7. Lowered(ReadAt(text, p, Len(word))) = Lowered(word) <=> Cut(s, Len(w)) = w
  BY <1>4 DEF w
<1>8. QED
  BY <1>5, <1>6, <1>7

(* What is loaded of a text is no longer than the text, and has none but   *)
(* its bytes.                                                              *)
LEMMA LoadedKeeps ==
  ASSUME NEW file \in Seq(Byte)
  PROVE  /\ Len(LoadedText(file)) <= Len(file)
         /\ IsUTF8(file) => IsUTF8(LoadedText(file))
         /\ HasNoNUL(file) => HasNoNUL(LoadedText(file))
<1> DEFINE Kept == {k \in 1 .. Len(file) : file[k] \notin Blank}
           start == CHOOSE k \in Kept : \A j \in Kept : k <= j
           t == LoadedText(file)
<1>1. Len(t) <= Len(file) /\ \A k \in 1 .. Len(t) : \E j \in 1 .. Len(file) : t[k] = file[j]
  <2>1. CASE Kept = {}
    BY <2>1 DEF LoadedText
  <2>2. CASE Kept # {}
    <3>1. Kept \subseteq Nat
      OBVIOUS
    <3>2. start \in Kept
      BY <2>2, <3>1, LeastExists
    <3>3. start \in 1 .. Len(file) /\ t = SubSeq(file, start, Len(file))
      BY <2>2, <3>2 DEF LoadedText
    <3> HIDE DEF start, Kept, t
    <3>4. /\ Len(t) = Len(file) - start + 1
          /\ \A k \in 1 .. Len(t) : start + k - 1 \in 1 .. Len(file) /\ t[k] = file[start + k - 1]
      BY <3>3
    <3>5. QED
      BY <3>3, <3>4
  <2>3. QED
    BY <2>1, <2>2
<1> HIDE DEF t
<1>2. HasNoNUL(file) => HasNoNUL(t)
  BY <1>1 DEF HasNoNUL
<1>3. IsUTF8(file) => IsUTF8(t)
  BY <1>1, <1>2 DEF IsUTF8
<1>4. QED
  BY <1>1, <1>2, <1>3 DEF t

(* A line read is the text up to its first newline or its end.             *)
LEMMA LineRead ==
  ASSUME NEW text \in Seq(Byte), NEW p \in 0 .. Len(text)
  PROVE  /\ LineEnd(text, p) \in p .. Len(text)
         /\ LineEnd(text, p) = Len(text) \/ text[LineEnd(text, p) + 1] = Newline
         /\ \A f \in p .. LineEnd(text, p) - 1 : text[f + 1] # Newline
<1> DEFINE Ends == {e \in p .. Len(text) : e = Len(text) \/ text[e + 1] = Newline}
<1>1. Ends \subseteq Nat /\ Len(text) \in Ends
  OBVIOUS
<1>2. PICK e \in Ends : \A f \in Ends : e <= f
  BY <1>1, LeastExists
<1>3. /\ e \in p .. Len(text)
      /\ e = Len(text) \/ text[e + 1] = Newline
      /\ \A f \in p .. e - 1 : text[f + 1] # Newline
  <2>1. e \in p .. Len(text) /\ (e = Len(text) \/ text[e + 1] = Newline)
    BY <1>2
  <2>2. ASSUME NEW f \in p .. e - 1 PROVE text[f + 1] # Newline
    <3>1. f \in p .. Len(text) /\ ~ (e <= f)
      BY <2>1
    <3>2. f \notin Ends
      BY <1>2, <3>1
    <3>3. QED
      BY <3>1, <3>2
  <2>3. QED
    BY <2>1, <2>2
<1>4. QED
  BY <1>3 DEF LineEnd

(* Where a word without newline occurs, the line read begins with it.      *)
LEMMA LineShowsWord ==
  ASSUME NEW text \in Seq(Byte), NEW p \in 0 .. Len(text),
         NEW word \in Seq(Byte), \A k \in 1 .. Len(word) : word[k] # Newline,
         Lowered(ReadAt(text, p, Len(word))) = Lowered(word)
  PROVE  Lowered(SubSeq(ReadLine(text, p), 1, Len(word))) = Lowered(word)
<1> DEFINE n == Len(word)
           r == ReadAt(text, p, n)
           e == LineEnd(text, p)
<1>1. n \in Nat /\ e \in p .. Len(text) /\ (e = Len(text) \/ text[e + 1] = Newline)
  BY LineRead
<1>2. r = SubSeq(text, p + 1, IF p + n <= Len(text) THEN p + n ELSE Len(text))
  BY DEF ReadAt
<1> HIDE DEF r, e
<1>3. r \in Seq(Byte)
  BY <1>1, <1>2
<1>4. Len(r) = n /\ \A k \in 1 .. n : Lower(r[k]) = Lower(word[k])
  <2>1. Len(Lowered(r)) = Len(r) /\ Len(Lowered(word)) = n
    BY <1>3, LoweredType
  <2>2. Len(r) = n
    BY <2>1 DEF r
  <2>3. \A k \in 1 .. n : Lowered(r)[k] = Lower(r[k]) /\ Lowered(word)[k] = Lower(word[k])
    BY <1>3, <2>2, LoweredType
  <2>4. QED
    BY <2>2, <2>3 DEF r
<1>5. p + n <= Len(text) /\ r = SubSeq(text, p + 1, p + n)
  BY <1>1, <1>2, <1>4
<1>6. p + n <= e
  <2> SUFFICES ASSUME e < p + n PROVE FALSE
    BY <1>1
  <2>1. text[e + 1] = Newline /\ e + 1 - p \in 1 .. n
    BY <1>1, <1>5
  <2>2. r[e + 1 - p] = Newline
    BY <1>1, <1>5, <2>1
  <2>3. word[e + 1 - p] \in Byte /\ Lower(word[e + 1 - p]) = Lower(Newline)
    BY <1>4, <2>1, <2>2
  <2>4. \A b \in Byte : Lower(b) = Lower(Newline) => b = Newline
    BY DEF Byte, Lower, Letters, Newline
  <2>5. QED
    BY <2>1, <2>3, <2>4
<1>7. SubSeq(ReadLine(text, p), 1, n) = r
  <2> DEFINE l == ReadLine(text, p)
             m == SubSeq(l, 1, n)
  <2>1. /\ l \in Seq(Byte) /\ Len(l) = e - p
        /\ \A k \in 1 .. Len(l) : l[k] = text[p + k]
    BY <1>1 DEF ReadLine, e
  <2>2. \A k \in 1 .. n : r[k] = text[p + k]
    BY <1>1, <1>5
  <2> HIDE DEF l
  <2>3. m \in Seq(Byte) /\ Len(m) = n /\ \A k \in 1 .. n : m[k] = l[k]
    BY <1>1, <1>6, <2>1
  <2>4. \A k \in 1 .. n : m[k] = r[k]
    BY <1>1, <1>6, <2>1, <2>2, <2>3
  <2> HIDE DEF m, n
  <2>5. m = r
    BY <1>3, <1>4, <2>3, <2>4
  <2>6. QED
    BY <2>5 DEF m, l
<1>8. QED
  BY <1>7 DEF r

(* A text whose first bytes are below a word is below the word with byte   *)
(* 255 after one byte more.                                                *)
LEMMA ShortReadBelow ==
  ASSUME NEW text \in Seq(Byte), HasNoNUL(text), NEW p \in 0 .. Len(text),
         NEW word \in Seq(Byte),
         CaseLess(ReadAt(text, p, Len(word)), word)
  PROVE  CaseLess(ReadAt(text, p, Len(word) + 1), Append(word, 255))
<1> DEFINE s == Lowered(From(text, p))
           w == Lowered(word)
           n == Len(word)
           a == Cut(s, n)
           b == Cut(s, n + 1)
           v == Append(w, 255)
<1>1. s \in Seq(Byte) /\ w \in Seq(Byte) /\ Len(w) = n /\ n \in Nat
  BY FromType, LoweredType
<1>2. LexLess(a, w)
  BY ReadIsCut DEF CaseLess
<1>3. Lowered(Append(word, 255)) = v
  BY LoweredTop
<1>4. Lowered(ReadAt(text, p, n + 1)) = b
  BY <1>1, ReadIsCut
<1> HIDE DEF s, w
<1>5. /\ a \in Seq(Byte) /\ Len(a) = (IF n <= Len(s) THEN n ELSE Len(s))
      /\ \A k \in 1 .. Len(a) : a[k] = s[k]
      /\ b \in Seq(Byte) /\ Len(b) = (IF n + 1 <= Len(s) THEN n + 1 ELSE Len(s))
      /\ \A k \in 1 .. Len(b) : b[k] = s[k]
  BY <1>1, CutType
<1>6. v \in Seq(Byte) /\ Len(v) = n + 1 /\ \A k \in 1 .. n : v[k] = w[k]
  BY <1>1 DEF Byte
<1> HIDE DEF a, b, v
<1>7. PICK k \in 1 .. Len(w) :
        /\ k <= Len(a) + 1
        /\ \A j \in 1 .. k - 1 : a[j] = w[j]
        /\ k <= Len(a) => a[k] < w[k]
  BY <1>2 DEF LexLess
<1> HIDE DEF n
<1>8. k \in 1 .. Len(v) /\ k <= n /\ k <= Len(b) + 1 /\ (k <= Len(b) => k <= Len(a))
  BY <1>1, <1>5, <1>6, <1>7
<1>9. \A j \in 1 .. k - 1 : b[j] = v[j]
  <2> SUFFICES ASSUME NEW j \in 1 .. k - 1
               PROVE  b[j] = v[j]
    OBVIOUS
  <2>1. j \in 1 .. Len(a) /\ j \in 1 .. Len(b) /\ j \in 1 .. n
    BY <1>1, <1>5, <1>7, <1>8
  <2>2. QED
    BY <1>5, <1>6, <1>7, <2>1
<1>10. k <= Len(b) => b[k] < v[k]
  BY <1>5, <1>6, <1>7, <1>8
<1>11. LexLess(b, v)
  BY <1>8, <1>9, <1>10 DEF LexLess
<1>12. QED
  BY <1>3, <1>4, <1>11 DEF CaseLess, n
=============================================================================
