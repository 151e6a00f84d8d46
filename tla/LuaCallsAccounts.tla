------------------------- MODULE LuaCallsAccounts -------------------------
(***************************************************************************)
(* Lemmas about LuaCalls, for any coroutines, scripts and limits: the      *)
(* accounts the C stack and each thread keep of each other (Counted,       *)
(* Framed, LaidOut, Fits, Captured and Handled), and what a step on one    *)
(* thread leaves of them.  LuaCallsProofs proves from these that every     *)
(* step keeps them.                                                        *)
(***************************************************************************)
EXTENDS LuaCalls, FiniteSetTheorems, SequenceTheorems, WellFoundedInduction, TLAPS

Value == {Nil, "v", "L", "H", "yield", "error", "xpcall", "pcall", "resume", "wrap"} \union Coroutine

Frame == [func : Nat, wanted : Int]

ThreadState ==
  [stack : Seq(Value), ci : Seq(Frame), size_ci : Nat,
   nCcalls : Nat, baseCcalls : Nat, status : {"0", "YIELD"} \union Errors,
   errfunc : Nat, open : SUBSET Nat]

Activation ==
  [kind : {"call", "errormsg", "resume"}, th : Threads]
    \union [kind : {"execute"}, th : Threads, n : Nat \ {0}]
    \union [kind : {"cfun"}, th : Threads, name : Value]
    \union [kind : {"pcall"}, th : Threads, old_top : Nat, old_ci : Nat,
            oldnCcalls : Nat, old_errfunc : Nat, ef : Nat]
-----------------------------------------------------------------------------
(* A set of natural numbers has a least element.                           *)
LEMMA LeastOf ==
  ASSUME NEW S, S \subseteq Nat, S # {}
  PROVE  \E m \in S : \A k \in S : m <= k
<1>1. PICK x \in S : \A y \in S : ~ (<<y, x>> \in OpToRel(<, Nat))
  BY NatLessThanWellFounded, WFMin, Zenon
<1>2. \A y \in S : ~ (y < x)
  BY <1>1, Zenon DEF OpToRel
<1>3. \A y \in S : x <= y
  BY <1>2
<1> QED BY <1>3

(* The number of C calls, activation by activation.                        *)
LEMMA CallsStep ==
  ASSUME NEW s
  PROVE  /\ CallsIn(s, 0) = 0
         /\ \A i \in Nat : CallsIn(s, i) \in Nat
         /\ \A i \in Nat \ {0} :
              CallsIn(s, i) = CallsIn(s, i - 1)
                                + (IF s[i].kind \in {"call", "resume"} THEN 1 ELSE 0)
<1> DEFINE C(i) == {j \in 1 .. i : s[j].kind \in {"call", "resume"}}
<1>1. ASSUME NEW i \in Nat PROVE IsFiniteSet(C(i)) /\ CallsIn(s, i) \in Nat
  <2>1. IsFiniteSet(1 .. i) /\ C(i) \in SUBSET (1 .. i)
    BY FS_Interval
  <2>2. IsFiniteSet(C(i))
    BY <2>1, FS_Subset
  <2> QED BY <2>2, FS_CardinalityType DEF CallsIn
<1>2. CallsIn(s, 0) = 0
  <2>1. C(0) = {}
    OBVIOUS
  <2> QED BY <2>1, FS_EmptySet DEF CallsIn
<1>3. ASSUME NEW i \in Nat \ {0}
      PROVE  CallsIn(s, i) = CallsIn(s, i - 1)
                               + (IF s[i].kind \in {"call", "resume"} THEN 1 ELSE 0)
  <2>1. i - 1 \in Nat /\ IsFiniteSet(C(i - 1))
    BY <1>1
  <2>2. CASE s[i].kind \in {"call", "resume"}
    <3>1. C(i) = C(i - 1) \union {i} /\ i \notin C(i - 1)
      BY <2>2
    <3>2. Cardinality(C(i)) = Cardinality(C(i - 1)) + 1
      BY <2>1, <3>1, FS_AddElement
    <3> QED BY <2>2, <3>2 DEF CallsIn
  <2>3. CASE s[i].kind \notin {"call", "resume"}
    <3>1. C(i) = C(i - 1)
      BY <2>3
    <3>2. Cardinality(C(i - 1)) + 0 = Cardinality(C(i - 1))
      BY <1>1, <2>1 DEF CallsIn
    <3> QED BY <2>3, <3>1, <3>2 DEF CallsIn
  <2> QED BY <2>2, <2>3
<1> QED BY <1>1, <1>2, <1>3

(* Stacks that agree up to i have the same calls there; calls never become *)
(* fewer.                                                                  *)
LEMMA CallsSame ==
  ASSUME NEW s, NEW r, NEW i \in Nat, \A j \in 1 .. i : s[j].kind = r[j].kind
  PROVE  CallsIn(s, i) = CallsIn(r, i)
<1>1. {j \in 1 .. i : s[j].kind \in {"call", "resume"}}
        = {j \in 1 .. i : r[j].kind \in {"call", "resume"}}
  OBVIOUS
<1> QED BY <1>1 DEF CallsIn

(* Further up the C stack there are never fewer calls.                     *)
LEMMA CallsGrow ==
  ASSUME NEW s, NEW i \in Nat, NEW k \in Nat, i <= k
  PROVE  CallsIn(s, i) <= CallsIn(s, k)
<1> DEFINE C(n) == {j \in 1 .. n : s[j].kind \in {"call", "resume"}}
<1>1. IsFiniteSet(1 .. k) /\ C(k) \in SUBSET (1 .. k)
  BY FS_Interval
<1>2. IsFiniteSet(C(k))
  BY <1>1, FS_Subset
<1>3. C(i) \in SUBSET C(k)
  OBVIOUS
<1> QED BY <1>2, <1>3, FS_Subset DEF CallsIn

(* The frames of the first i activations are finitely many, activation by  *)
(* activation.                                                             *)
OwnFrames(s, th, i) ==
  UNION {{j} \X FramesOf(s[j]) : j \in {j \in 1 .. i : s[j].th = th}}

Size(a) == IF a.kind = "execute" THEN a.n ELSE IF a.kind = "cfun" THEN 1 ELSE 0

(* An activation runs as many frames as its size.                          *)
LEMMA FramesCounted ==
  ASSUME NEW a \in Activation
  PROVE  FramesOf(a) = 1 .. Size(a) /\ Size(a) \in Nat
<1>1. CASE a.kind = "execute"
  <2>1. a.n \in Nat
    BY <1>1 DEF Activation
  <2> QED BY <1>1, <2>1 DEF FramesOf, Size
<1>2. CASE a.kind = "cfun"
  BY <1>2 DEF FramesOf, Size
<1>3. CASE a.kind \notin {"execute", "cfun"}
  BY <1>3 DEF FramesOf, Size
<1> QED BY <1>1, <1>2, <1>3

(* One activation more brings its own frames and no others.                *)
LEMMA FramesAdded ==
  ASSUME NEW s \in Seq(Activation), NEW th, NEW i \in 1 .. Len(s), IsFiniteSet(OwnFrames(s, th, i - 1))
  PROVE  /\ IsFiniteSet(OwnFrames(s, th, i))
         /\ Cardinality(OwnFrames(s, th, i)) =
              Cardinality(OwnFrames(s, th, i - 1)) + (IF s[i].th = th THEN Size(s[i]) ELSE 0)
<1> DEFINE A == OwnFrames(s, th, i - 1)
           n == Size(s[i])
           B == {i} \X (1 .. n)
<1>1. s[i] \in Activation /\ FramesOf(s[i]) = 1 .. n /\ n \in Nat
  BY FramesCounted
<1>2. Cardinality(A) \in Nat
  BY FS_CardinalityType
<1>3. CASE s[i].th # th
  <2>1. {j \in 1 .. i : s[j].th = th} = {j \in 1 .. i - 1 : s[j].th = th}
    BY <1>3
  <2>2. OwnFrames(s, th, i) = A
    BY <2>1 DEF OwnFrames
  <2> QED BY <1>2, <1>3, <2>2
<1>4. CASE s[i].th = th
  <2>1. {j \in 1 .. i : s[j].th = th} = {j \in 1 .. i - 1 : s[j].th = th} \union {i}
    BY <1>4
  <2>2. OwnFrames(s, th, i) = A \union ({i} \X FramesOf(s[i]))
    BY <2>1, Zenon DEF OwnFrames
  <2>3. A \cap B = {}
    BY DEF OwnFrames
  <2>4. IsFiniteSet(B) /\ Cardinality(B) = n
    <3>1. IsFiniteSet(1 .. n) /\ Cardinality(1 .. n) = n
      BY <1>1, FS_Interval
    <3> DEFINE f == [k \in 1 .. n |-> <<i, k>>]
    <3>2. f \in Bijection(1 .. n, B)
      <4>1. f \in [1 .. n -> B]
        OBVIOUS
      <4>2. \A k, l \in 1 .. n : f[k] = f[l] => k = l
        OBVIOUS
      <4>3. \A b \in B : \E k \in 1 .. n : f[k] = b
        OBVIOUS
      <4> HIDE DEF f, B
      <4> QED BY <4>1, <4>2, <4>3 DEF Bijection, Injection, Surjection, IsInjective
    <3> QED BY <3>1, <3>2, FS_Bijection DEF ExistsBijection
  <2>5. IsFiniteSet(A \cap B) /\ Cardinality(A \cap B) = 0
    BY <2>3, FS_EmptySet
  <2>6. IsFiniteSet(A \union B) /\ Cardinality(A \union B) = Cardinality(A) + n
    <3> HIDE DEF A, B, n
    <3>1. /\ IsFiniteSet(A \union B)
          /\ Cardinality(A \union B) = Cardinality(A) + Cardinality(B) - Cardinality(A \cap B)
      BY <2>4, FS_Union DEF A
    <3> QED BY <1>1, <1>2, <2>4, <2>5, <3>1
  <2> QED BY <1>1, <1>4, <2>2, <2>6
<1> QED BY <1>3, <1>4

(* A thread has finitely many frames.                                      *)
LEMMA FramesFinite ==
  ASSUME NEW s \in Seq(Activation), NEW th, NEW i \in 0 .. Len(s)
  PROVE  IsFiniteSet(OwnFrames(s, th, i))
<1> DEFINE Bad == {k \in 0 .. Len(s) : ~ IsFiniteSet(OwnFrames(s, th, k))}
<1> SUFFICES ASSUME Bad # {} PROVE FALSE
  OBVIOUS
<1>1. PICK m \in Bad : \A k \in Bad : m <= k
  <2>1. Bad \subseteq Nat
    OBVIOUS
  <2> HIDE DEF Bad
  <2> QED BY <2>1, LeastOf
<1>2. CASE m = 0
  <2>1. OwnFrames(s, th, 0) = {}
    BY DEF OwnFrames
  <2> QED BY <1>2, <2>1, FS_EmptySet
<1>3. CASE m # 0
  <2>1. m \in 1 .. Len(s) /\ m - 1 \in 0 .. Len(s) /\ m - 1 \notin Bad
    BY <1>1, <1>3
  <2>2. IsFiniteSet(OwnFrames(s, th, m - 1))
    BY <2>1
  <2> QED BY <2>1, <2>2, FramesAdded
<1> QED BY <1>2, <1>3

(* How many frames a thread has, activation by activation; one is the      *)
(* base.                                                                   *)
LEMMA DepthStep ==
  ASSUME NEW s \in Seq(Activation), NEW th
  PROVE  /\ Depth(s, th, 0) = 1
         /\ \A i \in 0 .. Len(s) : Depth(s, th, i) \in Nat \ {0}
         /\ \A i \in 1 .. Len(s) :
              Depth(s, th, i) = Depth(s, th, i - 1) + (IF s[i].th = th THEN Size(s[i]) ELSE 0)
<1>1. \A i : Depth(s, th, i) = 1 + Cardinality(OwnFrames(s, th, i))
  BY DEF Depth, OwnFrames
<1>2. \A i \in 0 .. Len(s) : Cardinality(OwnFrames(s, th, i)) \in Nat
  BY FramesFinite, FS_CardinalityType
<1>3. OwnFrames(s, th, 0) = {}
  BY DEF OwnFrames
<1>4. ASSUME NEW i \in 1 .. Len(s)
      PROVE  Depth(s, th, i) = Depth(s, th, i - 1) + (IF s[i].th = th THEN Size(s[i]) ELSE 0)
  <2>1. i - 1 \in 0 .. Len(s) /\ i \in 0 .. Len(s) /\ Size(s[i]) \in Nat
    BY FramesCounted
  <2>2. IsFiniteSet(OwnFrames(s, th, i - 1))
    BY <2>1, FramesFinite
  <2>3. Cardinality(OwnFrames(s, th, i)) =
          Cardinality(OwnFrames(s, th, i - 1)) + (IF s[i].th = th THEN Size(s[i]) ELSE 0)
    BY <2>2, FramesAdded
  <2>4. /\ Depth(s, th, i) = 1 + Cardinality(OwnFrames(s, th, i))
        /\ Depth(s, th, i - 1) = 1 + Cardinality(OwnFrames(s, th, i - 1))
    BY <1>1, Zenon
  <2>5. /\ Cardinality(OwnFrames(s, th, i)) \in Nat
        /\ Cardinality(OwnFrames(s, th, i - 1)) \in Nat
    BY <1>2, <2>1
  <2> QED BY <2>1, <2>3, <2>4, <2>5
<1>5. Cardinality({}) = 0
  BY FS_EmptySet
<1>6. Depth(s, th, 0) = 1
  BY <1>1, <1>3, <1>5
<1>7. \A i \in 0 .. Len(s) : Depth(s, th, i) \in Nat \ {0}
  BY <1>1, <1>2
<1> QED BY <1>4, <1>6, <1>7

(* The frames an activation adds are of its own thread.                    *)
LEMMA FramesOwned ==
  ASSUME NEW s \in Seq(Activation), NEW th, NEW i \in 1 .. Len(s),
         NEW k \in Depth(s, th, i - 1) + 1 .. Depth(s, th, i)
  PROVE  s[i].th = th /\ k \in Depth(s, th, i - 1) + 1 .. Depth(s, th, i - 1) + Size(s[i])
<1> DEFINE a == Depth(s, th, i - 1)
           b == Depth(s, th, i)
<1>1. \A j \in 1 .. Len(s) :
        Depth(s, th, j) = Depth(s, th, j - 1) + (IF s[j].th = th THEN Size(s[j]) ELSE 0)
  BY DepthStep, Zenon
<1>2. b = a + (IF s[i].th = th THEN Size(s[i]) ELSE 0)
  BY <1>1, Zenon
<1>3. i \in 0 .. Len(s) /\ i - 1 \in 0 .. Len(s)
  OBVIOUS
<1>4. a \in Nat /\ b \in Nat
  BY <1>3, DepthStep
<1>5. k \in a + 1 .. b
  OBVIOUS
<1> HIDE DEF a, b
<1>6. s[i].th = th /\ k \in a + 1 .. a + Size(s[i])
  BY <1>2, <1>4, <1>5
<1> QED BY <1>6 DEF a

(* Two stacks with the same activations of a thread give it as many        *)
(* frames.                                                                 *)
LEMMA DepthSame ==
  ASSUME NEW s, NEW r, NEW th, NEW i \in Nat, NEW k \in Nat,
         {j \in 1 .. i : s[j].th = th} = {j \in 1 .. k : r[j].th = th},
         \A j \in 1 .. i : s[j].th = th => s[j] = r[j]
  PROVE  Depth(s, th, i) = Depth(r, th, k)
<1>1. OwnFrames(s, th, i) = OwnFrames(r, th, k)
  <2>1. \A j \in {j \in 1 .. i : s[j].th = th} : s[j] = r[j]
    OBVIOUS
  <2> QED BY <2>1 DEF OwnFrames
<1> QED BY <1>1 DEF Depth, OwnFrames

(* Further up the C stack a thread never has fewer frames.                 *)
LEMMA DepthGrows ==
  ASSUME NEW s \in Seq(Activation), NEW th, NEW k \in 0 .. Len(s), NEW i \in 0 .. k
  PROVE  Depth(s, th, i) <= Depth(s, th, k)
<1>1. IsFiniteSet(OwnFrames(s, th, k)) /\ OwnFrames(s, th, i) \in SUBSET OwnFrames(s, th, k)
  <2>1. {j \in 1 .. i : s[j].th = th} \subseteq {j \in 1 .. k : s[j].th = th}
    OBVIOUS
  <2>2. OwnFrames(s, th, i) \in SUBSET OwnFrames(s, th, k)
    BY <2>1, Zenon DEF OwnFrames
  <2> QED BY <2>2, FramesFinite
<1>2. /\ Cardinality(OwnFrames(s, th, i)) <= Cardinality(OwnFrames(s, th, k))
      /\ Cardinality(OwnFrames(s, th, k)) \in Nat /\ Cardinality(OwnFrames(s, th, i)) \in Nat
  BY <1>1, FS_Subset, FS_CardinalityType
<1>3. \A x : Depth(s, th, x) = 1 + Cardinality(OwnFrames(s, th, x))
  BY DEF Depth, OwnFrames
<1> QED BY <1>2, <1>3
-----------------------------------------------------------------------------
(* The handler that errfunc should name: that of the nearest protected     *)
(* call of the thread among the first i activations.                       *)
Nearest(s, th, i) ==
  LET own == {j \in 1 .. i : s[j].th = th /\ s[j].kind = "pcall"}
  IN  IF own = {} THEN 0 ELSE s[Max(own)].ef

(* The maximum of a set is its element that no other exceeds.              *)
LEMMA MaxOf ==
  ASSUME NEW S, S \subseteq Nat, NEW m \in S, \A x \in S : x <= m
  PROVE  Max(S) = m
<1>1. \A x \in S : m >= x
  OBVIOUS
<1>2. Max(S) \in S /\ \A y \in S : Max(S) >= y
  BY <1>1, Zenon DEF Max
<1>3. Max(S) \in Nat /\ m \in Nat /\ Max(S) >= m /\ Max(S) <= m
  BY <1>2
<1> QED BY <1>3

(* Positions of a stack have a maximum.                                    *)
LEMMA MaxExists ==
  ASSUME NEW n \in Nat, NEW S, S \subseteq 1 .. n, S # {}
  PROVE  Max(S) \in S /\ \A x \in S : x <= Max(S)
<1> DEFINE Gaps == {n - x : x \in S}
<1>0. S \subseteq Nat /\ \A x \in S : n - x \in Nat
  OBVIOUS
<1>1. Gaps \subseteq Nat /\ Gaps # {}
  BY <1>0
<1>2. PICK g \in Gaps : \A k \in Gaps : g <= k
  <2> HIDE DEF Gaps
  <2> QED BY <1>1, LeastOf
<1>3. PICK m \in S : g = n - m
  OBVIOUS
<1>4. ASSUME NEW x \in S PROVE x <= m
  <2>1. g <= n - x
    BY <1>2
  <2> QED BY <1>0, <1>3, <2>1
<1>5. Max(S) = m
  <2> HIDE DEF Gaps
  <2> QED BY <1>0, <1>4, MaxOf
<1> QED BY <1>4, <1>5

(* A protected call on top names the handler.                              *)
LEMMA NearestIs ==
  ASSUME NEW s, NEW th, NEW i \in Nat \ {0}, s[i].th = th, s[i].kind = "pcall"
  PROVE  Nearest(s, th, i) = s[i].ef
<1> DEFINE own == {j \in 1 .. i : s[j].th = th /\ s[j].kind = "pcall"}
<1>1. own \subseteq Nat /\ i \in own /\ \A x \in own : x <= i
  OBVIOUS
<1>2. Max(own) = i /\ own # {}
  <2> HIDE DEF own
  <2> QED BY <1>1, MaxOf
<1> QED BY <1>2 DEF Nearest

(* Two stacks with the same protected calls of a thread name the same      *)
(* handler.                                                                *)
LEMMA NearestSame ==
  ASSUME NEW s, NEW r, NEW th, NEW i \in Nat, NEW k \in Nat,
         {j \in 1 .. i : s[j].th = th /\ s[j].kind = "pcall"}
           = {j \in 1 .. k : r[j].th = th /\ r[j].kind = "pcall"},
         \A j \in 1 .. i : s[j].th = th /\ s[j].kind = "pcall" => s[j].ef = r[j].ef
  PROVE  Nearest(s, th, i) = Nearest(r, th, k)
<1> DEFINE own == {j \in 1 .. i : s[j].th = th /\ s[j].kind = "pcall"}
<1>1. Nearest(s, th, i) = IF own = {} THEN 0 ELSE s[Max(own)].ef
  BY DEF Nearest
<1>2. Nearest(r, th, k) = IF own = {} THEN 0 ELSE r[Max(own)].ef
  BY DEF Nearest
<1>3. own # {} => Max(own) \in own
  <2>1. own \subseteq 1 .. i
    OBVIOUS
  <2> HIDE DEF own
  <2> QED BY <2>1, MaxExists
<1>4. \A j \in own : s[j].ef = r[j].ef
  OBVIOUS
<1> QED BY <1>1, <1>2, <1>3, <1>4

(* Any other activation leaves the handler as it is.                       *)
LEMMA NearestSkips ==
  ASSUME NEW s, NEW th, NEW i \in Nat \ {0}, ~ (s[i].th = th /\ s[i].kind = "pcall")
  PROVE  Nearest(s, th, i) = Nearest(s, th, i - 1)
<1>1. {j \in 1 .. i : s[j].th = th /\ s[j].kind = "pcall"}
        = {j \in 1 .. i - 1 : s[j].th = th /\ s[j].kind = "pcall"}
  OBVIOUS
<1> QED BY <1>1, NearestSame

(* A handler that is named was given by a protected call of the thread.    *)
LEMMA NearestFound ==
  ASSUME NEW s \in Seq(Activation), NEW th, NEW i \in 0 .. Len(s)
  PROVE  /\ Nearest(s, th, i) \in Nat
         /\ Nearest(s, th, i) # 0 => \E j \in 1 .. i : /\ s[j].th = th /\ s[j].kind = "pcall"
                                                       /\ s[j].ef = Nearest(s, th, i)
<1> DEFINE own == {j \in 1 .. i : s[j].th = th /\ s[j].kind = "pcall"}
<1>1. Nearest(s, th, i) = IF own = {} THEN 0 ELSE s[Max(own)].ef
  BY DEF Nearest
<1>2. own # {} => Max(own) \in own
  <2>1. own \subseteq 1 .. i /\ i \in Nat
    OBVIOUS
  <2> HIDE DEF own
  <2> QED BY <2>1, MaxExists
<1>3. \A j \in own : /\ j \in 1 .. i /\ s[j].th = th /\ s[j].kind = "pcall"
                     /\ s[j].ef \in Nat
  BY DEF Activation
<1> HIDE DEF own
<1> QED BY <1>1, <1>2, <1>3
-----------------------------------------------------------------------------
(* The C stack: the program's protected call at the bottom, what may be on *)
(* what, and the activations of a thread in one piece that begins with its *)
(* lua_resume.                                                             *)
Stands ==
  ({"call", "resume"} \X {"execute"}) \union ({"call", "execute"} \X {"cfun"})
    \union ({"pcall", "errormsg", "execute"} \X {"call"})
    \union ({"cfun"} \X {"pcall", "resume"})
    \union ({"call", "execute", "cfun"} \X {"errormsg"})

Founded(s) == s # <<>> => s[1].kind = "pcall" /\ s[1].th = Main
StandsWell(s) == \A i \in 1 .. Len(s) - 1 : <<s[i].kind, s[i + 1].kind>> \in Stands
InPieces(s) ==
  \A i, k \in 1 .. Len(s) : i < k =>
    (s[i].th = s[k].th <=> \A j \in i + 1 .. k : s[j].kind # "resume")
Begun(s) ==
  /\ \A i \in 1 .. Len(s) : s[i].kind = "resume" => s[i].th \in Coroutine
  /\ \A i \in 1 .. Len(s) : s[i].th # Main =>
       \E j \in 1 .. i : s[j].kind = "resume" /\ s[j].th = s[i].th

Stacked(s) == Founded(s) /\ StandsWell(s) /\ InPieces(s) /\ Begun(s)

(* exec_lua's protected call is a C stack.                                 *)
LEMMA StackedBegins ==
  ASSUME NEW a \in Activation, a.kind = "pcall", a.th = Main
  PROVE  Stacked(<<a>>)
  BY DEF Stacked, Founded, StandsWell, InPieces, Begun

(* What may stand on the last activation may be put on it.                 *)
LEMMA StackedMore ==
  ASSUME NEW s \in Seq(Activation), Stacked(s), s # <<>>, NEW a \in Activation,
         a.th = s[Len(s)].th, a.kind # "resume", <<s[Len(s)].kind, a.kind>> \in Stands
  PROVE  Stacked(Append(s, a))
<1> DEFINE r == Append(s, a)
           n == Len(s)
<1>1. /\ Len(r) = n + 1 /\ n \in Nat \ {0} /\ r[n + 1] = a /\ r # <<>>
      /\ \A i \in 1 .. n : r[i] = s[i]
  OBVIOUS
<1> HIDE DEF r
<1>2. r[1].kind = "pcall" /\ r[1].th = Main
  BY <1>1 DEF Stacked, Founded
<1>3. ASSUME NEW i \in 1 .. Len(r) - 1 PROVE <<r[i].kind, r[i + 1].kind>> \in Stands
  <2>1. CASE i = n
    BY <1>1, <2>1
  <2>2. CASE i \in 1 .. n - 1
    BY <1>1, <2>2 DEF Stacked, StandsWell
  <2> QED BY <1>1, <2>1, <2>2
<1>4. ASSUME NEW i \in 1 .. Len(r), NEW k \in 1 .. Len(r), i < k
      PROVE  r[i].th = r[k].th <=> \A j \in i + 1 .. k : r[j].kind # "resume"
  <2>1. CASE k <= n
    <3>1. s[i].th = s[k].th <=> \A j \in i + 1 .. k : s[j].kind # "resume"
      BY <1>1, <1>4, <2>1 DEF Stacked, InPieces
    <3>2. \A j \in i .. k : r[j] = s[j]
      BY <1>1, <2>1
    <3> QED BY <1>1, <1>4, <3>1, <3>2
  <2>2. CASE k = n + 1 /\ i = n
    BY <1>1, <2>2
  <2>3. CASE k = n + 1 /\ i < n
    <3>1. s[i].th = s[n].th <=> \A j \in i + 1 .. n : s[j].kind # "resume"
      BY <1>1, <1>4, <2>3 DEF Stacked, InPieces
    <3>2. (\A j \in i + 1 .. n : s[j].kind # "resume")
            <=> (\A j \in i + 1 .. k : r[j].kind # "resume")
      <4>1. \A j \in i + 1 .. k : (j \in i + 1 .. n /\ r[j] = s[j]) \/ r[j] = a
        <5>1. \A j \in i + 1 .. k : (j \in i + 1 .. n /\ j \in 1 .. n) \/ j = n + 1
          BY <1>1, <2>3
        <5> QED BY <1>1, <5>1
      <4>2. \A j \in i + 1 .. n : j \in i + 1 .. k /\ r[j] = s[j]
        BY <1>1, <2>3
      <4> QED BY <4>1, <4>2
    <3> QED BY <1>1, <2>3, <3>1, <3>2
  <2> QED BY <1>1, <1>4, <2>1, <2>2, <2>3
<1>5. \A i \in 1 .. Len(r) : r[i].kind = "resume" => r[i].th \in Coroutine
  BY <1>1 DEF Stacked, Begun
<1>6. ASSUME NEW i \in 1 .. Len(r), r[i].th # Main
      PROVE  \E j \in 1 .. i : r[j].kind = "resume" /\ r[j].th = r[i].th
  <2> DEFINE k == IF i <= n THEN i ELSE n
  <2>1. k \in 1 .. n /\ s[k].th = r[i].th /\ k <= i
    BY <1>1
  <2>2. PICK j \in 1 .. k : s[j].kind = "resume" /\ s[j].th = s[k].th
    BY <1>6, <2>1 DEF Stacked, Begun
  <2> QED BY <1>1, <2>1, <2>2
<1>7. Stacked(r)
  BY <1>2, <1>3, <1>4, <1>5, <1>6, Zenon DEF Stacked, Founded, StandsWell, InPieces, Begun
<1> QED BY <1>7 DEF r

(* A C function may resume a coroutine that is not on the C stack.         *)
LEMMA StackedResumed ==
  ASSUME NEW s \in Seq(Activation), Stacked(s), s # <<>>, NEW co \in Coroutine,
         \A i \in 1 .. Len(s) : s[i].th # co, s[Len(s)].kind = "cfun",
         NEW a \in Activation, a.kind = "resume", a.th = co
  PROVE  Stacked(Append(s, a))
<1> DEFINE r == Append(s, a)
           n == Len(s)
<1>1. /\ Len(r) = n + 1 /\ n \in Nat \ {0} /\ r[n + 1] = a /\ r # <<>>
      /\ \A i \in 1 .. n : r[i] = s[i]
  OBVIOUS
<1> HIDE DEF r
<1>2. r[1].kind = "pcall" /\ r[1].th = Main
  BY <1>1 DEF Stacked, Founded
<1>3. ASSUME NEW i \in 1 .. Len(r) - 1 PROVE <<r[i].kind, r[i + 1].kind>> \in Stands
  <2>1. CASE i = n
    BY <1>1, <2>1 DEF Stands
  <2>2. CASE i \in 1 .. n - 1
    BY <1>1, <2>2 DEF Stacked, StandsWell
  <2> QED BY <1>1, <2>1, <2>2
<1>4. ASSUME NEW i \in 1 .. Len(r), NEW k \in 1 .. Len(r), i < k
      PROVE  r[i].th = r[k].th <=> \A j \in i + 1 .. k : r[j].kind # "resume"
  <2>1. CASE k <= n
    <3>1. s[i].th = s[k].th <=> \A j \in i + 1 .. k : s[j].kind # "resume"
      BY <1>1, <1>4, <2>1 DEF Stacked, InPieces
    <3>2. \A j \in i .. k : r[j] = s[j]
      BY <1>1, <2>1
    <3> QED BY <1>1, <1>4, <3>1, <3>2
  <2>2. CASE k = n + 1
    BY <1>1, <1>4, <2>2
  <2> QED BY <1>1, <1>4, <2>1, <2>2
<1>5. \A i \in 1 .. Len(r) : r[i].kind = "resume" => r[i].th \in Coroutine
  BY <1>1 DEF Stacked, Begun
<1>6. ASSUME NEW i \in 1 .. Len(r), r[i].th # Main
      PROVE  \E j \in 1 .. i : r[j].kind = "resume" /\ r[j].th = r[i].th
  <2>1. CASE i = n + 1
    BY <1>1, <2>1
  <2>2. CASE i # n + 1
    <3>1. i \in 1 .. n /\ r[i] = s[i]
      BY <1>1, <2>2
    <3>2. PICK j \in 1 .. i : s[j].kind = "resume" /\ s[j].th = s[i].th
      BY <1>6, <3>1 DEF Stacked, Begun
    <3> QED BY <1>1, <3>1, <3>2
  <2> QED BY <2>1, <2>2
<1>7. Stacked(r)
  BY <1>2, <1>3, <1>4, <1>5, <1>6, Zenon DEF Stacked, Founded, StandsWell, InPieces, Begun
<1> QED BY <1>7 DEF r

(* Activations that leave, and frames that come and go under one of them,  *)
(* change nothing in that.                                                 *)
LEMMA StackedLess ==
  ASSUME NEW s \in Seq(Activation), Stacked(s), NEW r \in Seq(Activation), Len(r) <= Len(s),
         \A i \in 1 .. Len(r) : r[i].kind = s[i].kind /\ r[i].th = s[i].th
  PROVE  Stacked(r)
<1>1. Len(r) \in Nat /\ Len(s) \in Nat /\ (r # <<>> => Len(r) > 0 /\ s # <<>>)
  OBVIOUS
<1>2. r # <<>> => r[1].kind = "pcall" /\ r[1].th = Main
  BY <1>1 DEF Stacked, Founded
<1>3. \A i \in 1 .. Len(r) - 1 : <<r[i].kind, r[i + 1].kind>> \in Stands
  BY <1>1 DEF Stacked, StandsWell
<1>4. ASSUME NEW i \in 1 .. Len(r), NEW k \in 1 .. Len(r), i < k
      PROVE  r[i].th = r[k].th <=> \A j \in i + 1 .. k : r[j].kind # "resume"
  <2>1. s[i].th = s[k].th <=> \A j \in i + 1 .. k : s[j].kind # "resume"
    BY <1>1, <1>4 DEF Stacked, InPieces
  <2>2. \A j \in i .. k : r[j].th = s[j].th /\ r[j].kind = s[j].kind
    BY <1>1
  <2> QED BY <1>1, <1>4, <2>1, <2>2
<1>5. \A i \in 1 .. Len(r) : r[i].kind = "resume" => r[i].th \in Coroutine
  BY <1>1 DEF Stacked, Begun
<1>6. ASSUME NEW i \in 1 .. Len(r), r[i].th # Main
      PROVE  \E j \in 1 .. i : r[j].kind = "resume" /\ r[j].th = r[i].th
  <2>1. PICK j \in 1 .. i : s[j].kind = "resume" /\ s[j].th = s[i].th
    BY <1>1, <1>6 DEF Stacked, Begun
  <2> QED BY <1>1, <2>1
<1> QED BY <1>2, <1>3, <1>4, <1>5, <1>6, Zenon DEF Stacked, Founded, StandsWell, InPieces, Begun
-----------------------------------------------------------------------------
(* The accounts a thread t keeps of the C stack s.                         *)

(* nCcalls, what lua_resume and luaD_pcall remember of it.                 *)
Counted(th, t, s) ==
  /\ \A i \in 1 .. Len(s) :
       s[i].th = th /\ (\A j \in i + 1 .. Len(s) : s[j].th # th) => t.nCcalls = CallsIn(s, i)
  /\ th = Main => /\ t.baseCcalls = 0
                  /\ (\A i \in 1 .. Len(s) : s[i].th # th) => t.nCcalls = 0
  /\ \A i \in 1 .. Len(s) : s[i].th = th =>
       /\ s[i].kind = "resume" => t.baseCcalls = CallsIn(s, i)
       /\ s[i].kind = "pcall" => s[i].oldnCcalls = CallsIn(s, i)

(* The frames are those the activations run; those of a coroutine that has *)
(* failed are of no activation.                                            *)
Framed(th, t, s) ==
  /\ t.status = "YIELD" =>
       /\ Len(t.ci) >= 3
       /\ \A k \in 2 .. Len(t.ci) : RunsLua(t, k) <=> k < Len(t.ci)
  /\ t.status = "0" =>
       /\ Len(t.ci) = Depth(s, th, Len(s))
       /\ \A i \in 1 .. Len(s) : \A k \in Depth(s, th, i - 1) + 1 .. Depth(s, th, i) :
            RunsLua(t, k) <=> s[i].kind = "execute"
       /\ \A i \in 1 .. Len(s) : s[i].th = th /\ s[i].kind = "pcall" =>
            s[i].old_ci = Depth(s, th, i)

(* A frame needs its function's slot, and a register if that is Lua's; the *)
(* frames lie one over the other, those of a protected call over its       *)
(* handler and the others under it.                                        *)
Needs(t, k) == IF k > 1 /\ RunsLua(t, k) THEN t.ci[k].func + 1 ELSE t.ci[k].func

LaidOut(th, t, s) ==
  /\ Len(t.ci) >= 1 /\ t.ci[1].func = 1
  /\ \A k, l \in 1 .. Len(t.ci) : k < l => Needs(t, k) < t.ci[l].func
  /\ \A i \in 1 .. Len(s) : s[i].th = th /\ s[i].kind = "pcall" =>
       /\ \A k \in 1 .. Len(t.ci) : IF k <= s[i].old_ci THEN Needs(t, k) < s[i].old_top
                                                         ELSE s[i].old_top <= t.ci[k].func
       /\ s[i].ef < s[i].old_top
       /\ s[i].ef # 0 => t.stack[s[i].ef] = "H"

(* All of it is within the first slots of the stack.                       *)
Fits(th, t, s, top) ==
  /\ \A k \in 1 .. Len(t.ci) : Needs(t, k) <= top
  /\ \A i \in 1 .. Len(s) : s[i].th = th /\ s[i].kind = "pcall" => s[i].old_top <= top + 1

(* Open upvalues are the registers of Lua functions that run.              *)
Captured(t) ==
  \A i \in t.open : \E k \in 2 .. Len(t.ci) : t.ci[k].func = i - 1 /\ RunsLua(t, k)

Handled(th, t, s) ==
  /\ t.errfunc = Nearest(s, th, Len(s))
  /\ \A i \in 1 .. Len(s) : s[i].th = th /\ s[i].kind = "pcall" =>
       s[i].old_errfunc = Nearest(s, th, i - 1)

Accounts(th, t, s) ==
  /\ Counted(th, t, s) /\ Framed(th, t, s) /\ LaidOut(th, t, s)
  /\ Fits(th, t, s, Len(t.stack)) /\ Captured(t) /\ Handled(th, t, s)

(* What others do on the C stack does not touch the accounts of a thread.  *)
LEMMA OthersKeep ==
  ASSUME NEW s \in Seq(Activation), NEW r \in Seq(Activation), NEW th, NEW t,
         NEW n \in 0 .. Len(s), n <= Len(r), \A j \in 1 .. n : r[j] = s[j],
         \A j \in n + 1 .. Len(s) : s[j].th # th, \A j \in n + 1 .. Len(r) : r[j].th # th,
         Accounts(th, t, s)
  PROVE  Accounts(th, t, r)
<1>1. /\ n \in Nat /\ Len(s) \in Nat /\ Len(r) \in Nat
      /\ \A i \in 1 .. Len(r) : r[i].th = th => i \in 1 .. n /\ i \in 1 .. Len(s) /\ r[i] = s[i]
      /\ \A i \in 1 .. Len(s) : s[i].th = th => i \in 1 .. n /\ i \in 1 .. Len(r) /\ r[i] = s[i]
      /\ \A i \in 1 .. n : i \in 1 .. Len(s) /\ i \in 1 .. Len(r)
  OBVIOUS
<1>2. \A i \in 1 .. n : CallsIn(r, i) = CallsIn(s, i)
  BY <1>1, CallsSame
<1>3. \A i \in 0 .. n : Depth(r, th, i) = Depth(s, th, i) /\ Nearest(r, th, i) = Nearest(s, th, i)
  <2> SUFFICES ASSUME NEW i \in 0 .. n
               PROVE  Depth(r, th, i) = Depth(s, th, i) /\ Nearest(r, th, i) = Nearest(s, th, i)
    OBVIOUS
  <2>1. i \in Nat /\ \A j \in 1 .. i : r[j] = s[j]
    OBVIOUS
  <2>2. Depth(r, th, i) = Depth(s, th, i)
    BY <2>1, DepthSame
  <2>3. /\ {j \in 1 .. i : r[j].th = th /\ r[j].kind = "pcall"}
             = {j \in 1 .. i : s[j].th = th /\ s[j].kind = "pcall"}
        /\ \A j \in 1 .. i : r[j].th = th /\ r[j].kind = "pcall" => r[j].ef = s[j].ef
    BY <2>1
  <2>4. Nearest(r, th, i) = Nearest(s, th, i)
    BY <2>1, <2>3, NearestSame
  <2> QED BY <2>2, <2>4
<1>4. /\ Depth(r, th, Len(r)) = Depth(s, th, Len(s))
      /\ Nearest(r, th, Len(r)) = Nearest(s, th, Len(s))
  <2>1. {j \in 1 .. Len(r) : r[j].th = th} = {j \in 1 .. Len(s) : s[j].th = th}
    BY <1>1
  <2>2. \A j \in 1 .. Len(r) : r[j].th = th => r[j] = s[j]
    BY <1>1
  <2>3. {j \in 1 .. Len(r) : r[j].th = th /\ r[j].kind = "pcall"}
          = {j \in 1 .. Len(s) : s[j].th = th /\ s[j].kind = "pcall"}
    BY <1>1
  <2>4. Depth(r, th, Len(r)) = Depth(s, th, Len(s))
    BY <1>1, <2>1, <2>2, DepthSame
  <2>5. Nearest(r, th, Len(r)) = Nearest(s, th, Len(s))
    BY <1>1, <2>2, <2>3, NearestSame
  <2> QED BY <2>4, <2>5
<1>5. Counted(th, t, r)
  <2>1. ASSUME NEW i \in 1 .. Len(r), r[i].th = th, \A j \in i + 1 .. Len(r) : r[j].th # th
        PROVE  t.nCcalls = CallsIn(r, i)
    <3>1. i \in 1 .. Len(s) /\ s[i].th = th /\ \A j \in i + 1 .. Len(s) : s[j].th # th
      BY <1>1, <2>1
    <3> QED BY <1>1, <1>2, <2>1, <3>1 DEF Accounts, Counted
  <2>2. th = Main => /\ t.baseCcalls = 0
                     /\ (\A i \in 1 .. Len(r) : r[i].th # th) => t.nCcalls = 0
    BY <1>1 DEF Accounts, Counted
  <2>3. ASSUME NEW i \in 1 .. Len(r), r[i].th = th
        PROVE  /\ r[i].kind = "resume" => t.baseCcalls = CallsIn(r, i)
               /\ r[i].kind = "pcall" => r[i].oldnCcalls = CallsIn(r, i)
    BY <1>1, <1>2, <2>3 DEF Accounts, Counted
  <2> QED BY <2>1, <2>2, <2>3 DEF Counted
<1>6. Framed(th, t, r)
  <2>1. CASE t.status = "YIELD"
    BY <2>1 DEF Accounts, Framed
  <2>2. CASE t.status = "0"
    <3>1. Len(t.ci) = Depth(r, th, Len(r))
      BY <1>4, <2>2 DEF Accounts, Framed
    <3>2. ASSUME NEW i \in 1 .. Len(r), NEW k \in Depth(r, th, i - 1) + 1 .. Depth(r, th, i)
          PROVE  RunsLua(t, k) <=> r[i].kind = "execute"
      <4>1. r[i].th = th
        BY FramesOwned
      <4>2. i \in 1 .. n /\ i - 1 \in 0 .. n /\ r[i] = s[i] /\ i \in 1 .. Len(s) /\ i \in 0 .. n
        BY <1>1, <4>1
      <4>3. k \in Depth(s, th, i - 1) + 1 .. Depth(s, th, i)
        BY <1>3, <4>2
      <4> QED BY <2>2, <4>2, <4>3 DEF Accounts, Framed
    <3>3. ASSUME NEW i \in 1 .. Len(r), r[i].th = th, r[i].kind = "pcall"
          PROVE  r[i].old_ci = Depth(r, th, i)
      <4>1. i \in 0 .. n /\ i \in 1 .. Len(s) /\ r[i] = s[i]
        BY <1>1, <3>3
      <4> QED BY <1>3, <2>2, <3>3, <4>1 DEF Accounts, Framed
    <3> QED BY <2>2, <3>1, <3>2, <3>3 DEF Framed
  <2>3. CASE t.status \notin {"0", "YIELD"}
    BY <2>3 DEF Framed
  <2> QED BY <2>1, <2>2, <2>3
<1>7. LaidOut(th, t, r)
  <2>1. \A i \in 1 .. Len(r) : r[i].th = th /\ r[i].kind = "pcall" =>
          i \in 1 .. Len(s) /\ s[i].th = th /\ s[i].kind = "pcall" /\ r[i] = s[i]
    BY <1>1
  <2> QED BY <2>1 DEF Accounts, LaidOut
<1>8. Fits(th, t, r, Len(t.stack))
  BY <1>1 DEF Accounts, Fits
<1>9. Handled(th, t, r)
  <2>1. ASSUME NEW i \in 1 .. Len(r), r[i].th = th, r[i].kind = "pcall"
        PROVE  r[i].old_errfunc = Nearest(r, th, i - 1)
    <3>1. i - 1 \in 0 .. n /\ i \in 1 .. Len(s) /\ r[i] = s[i]
      BY <1>1, <2>1
    <3> QED BY <1>3, <2>1, <3>1 DEF Accounts, Handled
  <2> QED BY <1>4, <2>1 DEF Accounts, Handled
<1> QED BY <1>5, <1>6, <1>7, <1>8, <1>9 DEF Accounts
-----------------------------------------------------------------------------
(* A step of the thread on top: of its frames the first c stay, of the C   *)
(* stack the first n activations, and all these need is in the first slots *)
(* of its stack, which stay.                                               *)
Keeps(th, t, u, s, n, c, top) ==
  /\ t.status = "0" /\ u.status = "0" /\ u.baseCcalls = t.baseCcalls
  /\ Depth(s, th, n) <= c /\ c <= Len(t.ci) /\ c <= Len(u.ci)
  /\ \A k \in 1 .. c : u.ci[k] = t.ci[k] /\ Needs(t, k) <= top
  /\ top <= Len(u.stack) /\ \A j \in 1 .. top : u.stack[j] = t.stack[j]
  /\ \A i \in 1 .. n : s[i].th = th /\ s[i].kind = "pcall" => s[i].old_top <= top + 1

(* What it leaves there: at most one activation and at most one frame more.*)
LeavesOnTop(th, r, n) ==
  /\ Len(r) = n => IF n = 0 THEN th = Main ELSE r[n].th = th
  /\ Len(r) = n + 1 => r[n + 1].th = th /\ r[n + 1].kind # "resume"
  /\ Len(r) \in {n, n + 1}

LeavesFrames(th, u, r, n, c, top) ==
  /\ Len(u.ci) = Depth(r, th, Len(r)) /\ Len(u.ci) <= c + 1
  /\ \A k \in c + 1 .. Len(u.ci) : top < u.ci[k].func /\ Needs(u, k) <= Len(u.stack)
  /\ Len(r) = n + 1 => \A k \in Depth(r, th, n) + 1 .. Len(u.ci) :
                         RunsLua(u, k) <=> r[n + 1].kind = "execute"
  /\ Captured(u)

Saved(th, u, r, i) ==
  /\ r[i].oldnCcalls = CallsIn(r, i) /\ r[i].old_ci = Len(u.ci)
  /\ r[i].old_errfunc = Nearest(r, th, i - 1)
  /\ r[i].old_top <= Len(u.stack) + 1 /\ \A k \in 1 .. Len(u.ci) : Needs(u, k) < r[i].old_top
  /\ r[i].ef < r[i].old_top /\ (r[i].ef # 0 => u.stack[r[i].ef] = "H")

Leaves(th, u, r, n, c, top) ==
  /\ LeavesOnTop(th, r, n) /\ LeavesFrames(th, u, r, n, c, top)
  /\ u.nCcalls = CallsIn(r, Len(r)) /\ u.errfunc = Nearest(r, th, Len(r))
  /\ Len(r) = n + 1 /\ r[n + 1].kind = "pcall" => Saved(th, u, r, n + 1)

(* What the fields of a thread are.                                        *)
LEMMA ThreadFields ==
  ASSUME NEW t \in ThreadState
  PROVE  /\ Len(t.ci) \in Nat /\ Len(t.stack) \in Nat /\ t.size_ci \in Nat
         /\ t.nCcalls \in Nat /\ t.errfunc \in Nat /\ t.baseCcalls \in Nat
         /\ \A k \in 1 .. Len(t.ci) : t.ci[k].func \in Nat /\ t.ci[k].wanted \in Int
         /\ \A j \in 1 .. Len(t.stack) : t.stack[j] \in Value
<1>1. /\ t.stack \in Seq(Value) /\ t.ci \in Seq(Frame)
      /\ t.size_ci \in Nat /\ t.nCcalls \in Nat /\ t.errfunc \in Nat /\ t.baseCcalls \in Nat
  BY DEF ThreadState
<1>2. Len(t.ci) \in Nat /\ Len(t.stack) \in Nat
  BY <1>1
<1>3. \A k \in 1 .. Len(t.ci) : t.ci[k] \in Frame
  BY <1>1
<1>4. \A k \in 1 .. Len(t.ci) : t.ci[k].func \in Nat /\ t.ci[k].wanted \in Int
  BY <1>3 DEF Frame
<1>5. \A j \in 1 .. Len(t.stack) : t.stack[j] \in Value
  <2> DEFINE st == t.stack
  <2>1. st \in Seq(Value)
    BY <1>1
  <2> HIDE DEF st
  <2>2. \A j \in 1 .. Len(st) : st[j] \in Value
    BY <2>1
  <2> QED BY <2>2 DEF st
<1> QED BY <1>1, <1>2, <1>4, <1>5

(* Frames that stay are the frames they were.                              *)
LEMMA FramesStay ==
  ASSUME NEW s \in Seq(Activation), NEW th, NEW t \in ThreadState, NEW u \in ThreadState,
         NEW n \in Nat, NEW c \in Nat, NEW top \in Nat, Keeps(th, t, u, s, n, c, top),
         LaidOut(th, t, s)
  PROVE  \A k \in 1 .. c : /\ RunsLua(u, k) <=> RunsLua(t, k)
                           /\ Needs(u, k) = Needs(t, k)
                           /\ u.ci[k].func = t.ci[k].func /\ t.ci[k].func \in 1 .. top
                           /\ Needs(t, k) \in t.ci[k].func .. top
<1> SUFFICES ASSUME NEW k \in 1 .. c
             PROVE  /\ RunsLua(u, k) <=> RunsLua(t, k)
                    /\ Needs(u, k) = Needs(t, k)
                    /\ u.ci[k].func = t.ci[k].func /\ t.ci[k].func \in 1 .. top
                    /\ Needs(t, k) \in t.ci[k].func .. top
  OBVIOUS
<1>1. c <= Len(t.ci) /\ k \in 1 .. Len(t.ci) /\ Len(t.ci) \in Nat
  BY ThreadFields DEF Keeps
<1>2. u.ci[k] = t.ci[k] /\ Needs(t, k) <= top
  BY DEF Keeps
<1>3. t.ci[k].func \in Nat
  BY <1>1, ThreadFields
<1>4. Needs(t, k) \in Nat /\ t.ci[k].func <= Needs(t, k)
  BY <1>3 DEF Needs
<1>5. t.ci[k].func \in 1 .. top
  <2>1. CASE k = 1
    BY <1>2, <1>3, <1>4, <2>1 DEF LaidOut
  <2>2. CASE k # 1
    <3>1. 1 \in 1 .. Len(t.ci) /\ 1 < k /\ t.ci[1].func = 1
      BY <1>1, <2>2 DEF LaidOut
    <3>2. Needs(t, 1) < t.ci[k].func
      BY <1>1, <3>1 DEF LaidOut
    <3>3. Needs(t, 1) = 1
      BY <3>1 DEF Needs
    <3> QED BY <1>2, <1>3, <1>4, <3>2, <3>3
  <2> QED BY <2>1, <2>2
<1>6. u.stack[t.ci[k].func] = t.stack[t.ci[k].func]
  BY <1>5 DEF Keeps
<1>7. RunsLua(u, k) <=> RunsLua(t, k)
  BY <1>2, <1>6 DEF RunsLua
<1>8. Needs(u, k) = Needs(t, k)
  BY <1>2, <1>7 DEF Needs
<1> QED BY <1>2, <1>4, <1>5, <1>7, <1>8

(* The protected calls that stay are those there were.                     *)
LEMMA TopStep ==
  ASSUME NEW s \in Seq(Activation), NEW r \in Seq(Activation), NEW th,
         NEW t \in ThreadState, NEW u \in ThreadState,
         NEW n \in 0 .. Len(s), n <= Len(r), \A j \in 1 .. n : r[j] = s[j],
         NEW c \in Nat, NEW top \in Nat, Accounts(th, t, s),
         Keeps(th, t, u, s, n, c, top), Leaves(th, u, r, n, c, top)
  PROVE  Accounts(th, u, r)
<1> DEFINE d == Depth(s, th, n)
<1>1. /\ n \in Nat /\ Len(s) \in Nat /\ Len(r) \in Nat /\ Len(u.ci) \in Nat /\ Len(t.ci) \in Nat
      /\ c <= Len(u.ci) /\ c <= Len(t.ci) /\ Len(u.ci) <= c + 1 /\ d <= c
      /\ Len(r) \in {n, n + 1}
      /\ \A i \in 1 .. Len(r) : i # n + 1 => i \in 1 .. n
      /\ \A i \in 1 .. n : i \in 1 .. Len(s) /\ i \in 1 .. Len(r) /\ i - 1 \in 0 .. n /\ i \in 0 .. n
  <2>1. n \in Nat /\ Len(s) \in Nat /\ Len(r) \in Nat /\ Len(u.ci) \in Nat /\ Len(t.ci) \in Nat
    BY ThreadFields
  <2>2. c <= Len(u.ci) /\ c <= Len(t.ci) /\ d <= c
    BY DEF Keeps
  <2>3. Len(u.ci) <= c + 1 /\ Len(r) \in {n, n + 1}
    BY DEF Leaves, LeavesFrames, LeavesOnTop
  <2> HIDE DEF d
  <2> QED BY <2>1, <2>2, <2>3
<1>2. \A i \in 1 .. n : CallsIn(r, i) = CallsIn(s, i)
  BY <1>1, CallsSame
<1>3. ASSUME NEW i \in 0 .. n
      PROVE  Depth(r, th, i) = Depth(s, th, i) /\ Nearest(r, th, i) = Nearest(s, th, i)
  <2>1. i \in Nat /\ \A j \in 1 .. i : r[j] = s[j]
    BY <1>1
  <2>5. /\ {j \in 1 .. i : r[j].th = th} = {j \in 1 .. i : s[j].th = th}
        /\ \A j \in 1 .. i : r[j].th = th => r[j] = s[j]
    BY <2>1
  <2>2. Depth(r, th, i) = Depth(s, th, i)
    BY <2>1, <2>5, DepthSame
  <2>3. /\ {j \in 1 .. i : r[j].th = th /\ r[j].kind = "pcall"}
             = {j \in 1 .. i : s[j].th = th /\ s[j].kind = "pcall"}
        /\ \A j \in 1 .. i : r[j].th = th /\ r[j].kind = "pcall" => r[j].ef = s[j].ef
    BY <2>1
  <2>4. Nearest(r, th, i) = Nearest(s, th, i)
    BY <2>1, <2>3, NearestSame
  <2> QED BY <2>2, <2>4
<1>4. d \in Nat /\ \A i \in 0 .. n : Depth(s, th, i) \in Nat /\ Depth(s, th, i) <= d
  <2>0. n \in 0 .. Len(s)
    OBVIOUS
  <2>3. d \in Nat
    BY <2>0, DepthStep
  <2> SUFFICES ASSUME NEW i \in 0 .. n PROVE Depth(s, th, i) \in Nat /\ Depth(s, th, i) <= d
    BY <2>3
  <2>1. i \in 0 .. Len(s) /\ n \in 0 .. Len(s)
    BY <1>1
  <2> QED BY <2>1, DepthStep, DepthGrows
<1>5. \A k \in 1 .. c : /\ RunsLua(u, k) <=> RunsLua(t, k)
                        /\ Needs(u, k) = Needs(t, k)
                        /\ u.ci[k].func = t.ci[k].func /\ t.ci[k].func \in 1 .. top
                        /\ Needs(t, k) \in t.ci[k].func .. top
  BY <1>1, FramesStay DEF Accounts
<1> HIDE DEF d
<1>6. Counted(th, u, r)
  <2>1. ASSUME NEW i \in 1 .. Len(r), r[i].th = th, \A j \in i + 1 .. Len(r) : r[j].th # th
        PROVE  u.nCcalls = CallsIn(r, i)
    <3>1. i = Len(r)
      BY <1>1, <2>1 DEF Leaves, LeavesOnTop
    <3> QED BY <3>1 DEF Leaves
  <2>2. th = Main => u.baseCcalls = 0
    BY DEF Accounts, Counted, Keeps
  <2>3. ASSUME th = Main, \A i \in 1 .. Len(r) : r[i].th # th
        PROVE  u.nCcalls = 0
    <3>1. Len(r) = 0
      BY <1>1, <2>3 DEF Leaves, LeavesOnTop
    <3> QED BY <3>1, CallsStep DEF Leaves
  <2>4. ASSUME NEW i \in 1 .. Len(r), r[i].th = th
        PROVE  /\ r[i].kind = "resume" => u.baseCcalls = CallsIn(r, i)
               /\ r[i].kind = "pcall" => r[i].oldnCcalls = CallsIn(r, i)
    <3>1. CASE i = n + 1
      BY <1>1, <2>4, <3>1 DEF Leaves, LeavesOnTop, Saved
    <3>2. CASE i \in 1 .. n
      BY <1>1, <1>2, <2>4, <3>2 DEF Accounts, Counted, Keeps
    <3> QED BY <1>1, <3>1, <3>2
  <2> QED BY <2>1, <2>2, <2>3, <2>4 DEF Counted
<1>7. Framed(th, u, r)
  <2>1. u.status = "0" /\ t.status = "0" /\ Len(u.ci) = Depth(r, th, Len(r))
    BY DEF Keeps, Leaves, LeavesFrames
  <2>2. ASSUME NEW i \in 1 .. Len(r), NEW k \in Depth(r, th, i - 1) + 1 .. Depth(r, th, i)
        PROVE  RunsLua(u, k) <=> r[i].kind = "execute"
    <3>1. CASE i = n + 1
      <4>1. Len(r) = n + 1 /\ i - 1 = n
        BY <1>1, <3>1
      <4>2. k \in Depth(r, th, n) + 1 .. Len(u.ci)
        BY <2>1, <3>1, <4>1
      <4> QED BY <3>1, <4>1, <4>2 DEF Leaves, LeavesFrames
    <3>2. CASE i \in 1 .. n
      <4>1. k \in Depth(s, th, i - 1) + 1 .. Depth(s, th, i) /\ r[i] = s[i] /\ i \in 1 .. Len(s)
        BY <1>1, <1>3, <3>2
      <4>2. RunsLua(t, k) <=> s[i].kind = "execute"
        BY <2>1, <4>1 DEF Accounts, Framed
      <4>3. k \in 1 .. c
        <5>1. i \in 0 .. n /\ i - 1 \in 0 .. n
          BY <1>1, <3>2
        <5>2. Depth(s, th, i) \in Nat /\ Depth(s, th, i - 1) \in Nat /\ Depth(s, th, i) <= c
          BY <1>1, <1>4, <5>1
        <5> QED BY <4>1, <5>2
      <4> QED BY <1>5, <4>1, <4>2, <4>3
    <3> QED BY <1>1, <3>1, <3>2
  <2>3. ASSUME NEW i \in 1 .. Len(r), r[i].th = th, r[i].kind = "pcall"
        PROVE  r[i].old_ci = Depth(r, th, i)
    <3>1. CASE i = n + 1
      BY <1>1, <2>1, <2>3, <3>1 DEF Leaves, Saved
    <3>2. CASE i \in 1 .. n
      <4>1. i \in 0 .. n /\ i \in 1 .. Len(s) /\ r[i] = s[i]
        BY <1>1, <3>2
      <4> QED BY <1>3, <2>1, <2>3, <4>1 DEF Accounts, Framed
    <3> QED BY <1>1, <3>1, <3>2
  <2> QED BY <2>1, <2>2, <2>3 DEF Framed
<1>8. ASSUME NEW i \in 1 .. n, r[i].th = th, r[i].kind = "pcall"
      PROVE  /\ i \in 1 .. Len(s) /\ r[i] = s[i] /\ s[i].old_ci \in Nat /\ s[i].old_ci <= c
             /\ s[i].old_top \in Nat /\ s[i].ef \in Nat /\ s[i].old_top <= top + 1
  <2>1. i \in 1 .. Len(s) /\ r[i] = s[i] /\ s[i] \in Activation /\ s[i].kind = "pcall"
    BY <1>1, <1>8
  <2>2. s[i].old_ci \in Nat /\ s[i].old_top \in Nat /\ s[i].ef \in Nat
    BY <2>1 DEF Activation
  <2>3. s[i].old_top <= top + 1
    BY <1>8, <2>1 DEF Keeps
  <2>4. s[i].old_ci = Depth(s, th, i)
    BY <1>8, <2>1 DEF Accounts, Framed, Keeps
  <2>5. i \in 0 .. n
    BY <1>1
  <2>6. Depth(s, th, i) \in Nat /\ Depth(s, th, i) <= d
    BY <1>4, <2>5
  <2>7. d \in Nat /\ d <= c
    BY <1>1, <1>4
  <2> QED BY <2>1, <2>2, <2>3, <2>4, <2>6, <2>7
<1>9. \A k \in c + 1 .. Len(u.ci) : /\ top < u.ci[k].func /\ u.ci[k].func \in Nat
                                    /\ Needs(u, k) <= Len(u.stack)
  <2>1. \A k \in 1 .. Len(u.ci) : u.ci[k].func \in Nat
    BY ThreadFields
  <2> QED BY <1>1, <2>1 DEF Leaves, LeavesFrames
<1>10. LaidOut(th, u, r)
  <2>1. 1 <= c
    <3>1. n \in 0 .. Len(s)
      OBVIOUS
    <3>2. d \in Nat \ {0}
      BY <3>1, DepthStep DEF d
    <3> QED BY <1>1, <3>2
  <2>2. Len(u.ci) >= 1 /\ u.ci[1].func = 1
    <3>1. 1 \in 1 .. c /\ t.ci[1].func = 1
      BY <1>1, <2>1 DEF Accounts, LaidOut
    <3>2. u.ci[1].func = 1
      BY <1>5, <3>1
    <3> QED BY <1>1, <2>1, <3>2
  <2>3. ASSUME NEW k \in 1 .. Len(u.ci), NEW l \in 1 .. Len(u.ci), k < l
        PROVE  Needs(u, k) < u.ci[l].func
    <3>1. k \in 1 .. c /\ k \in 1 .. Len(t.ci)
      BY <1>1, <2>3
    <3>2. CASE l <= c
      <4>1. l \in 1 .. c /\ l \in 1 .. Len(t.ci)
        BY <1>1, <3>2
      <4>2. Needs(t, k) < t.ci[l].func
        BY <2>3, <3>1, <4>1 DEF Accounts, LaidOut
      <4> QED BY <1>5, <3>1, <4>1, <4>2
    <3>3. CASE l > c
      <4>1. l \in c + 1 .. Len(u.ci)
        BY <3>3
      <4>2. top < u.ci[l].func /\ u.ci[l].func \in Nat
        BY <1>9, <4>1
      <4>3. Needs(u, k) \in Nat /\ Needs(u, k) <= top
        <5>1. /\ Needs(u, k) = Needs(t, k) /\ t.ci[k].func \in 1 .. top
              /\ Needs(t, k) \in t.ci[k].func .. top
          BY <1>5, <3>1
        <5> QED BY <5>1
      <4> QED BY <4>2, <4>3
    <3> QED BY <1>1, <3>2, <3>3
  <2>4. ASSUME NEW i \in 1 .. Len(r), r[i].th = th, r[i].kind = "pcall"
        PROVE  /\ \A k \in 1 .. Len(u.ci) : IF k <= r[i].old_ci THEN Needs(u, k) < r[i].old_top
                                                               ELSE r[i].old_top <= u.ci[k].func
               /\ r[i].ef < r[i].old_top
               /\ r[i].ef # 0 => u.stack[r[i].ef] = "H"
    <3>1. CASE i = n + 1
      BY <1>1, <2>4, <3>1 DEF Leaves, Saved
    <3>2. CASE i \in 1 .. n
      <4>1. /\ i \in 1 .. Len(s) /\ r[i] = s[i] /\ s[i].old_ci \in Nat /\ s[i].old_ci <= c
            /\ s[i].old_top \in Nat /\ s[i].ef \in Nat /\ s[i].old_top <= top + 1
        BY <1>8, <2>4, <3>2
      <4>2. /\ \A k \in 1 .. Len(t.ci) : IF k <= s[i].old_ci THEN Needs(t, k) < s[i].old_top
                                                            ELSE s[i].old_top <= t.ci[k].func
            /\ s[i].ef < s[i].old_top
            /\ s[i].ef # 0 => t.stack[s[i].ef] = "H"
        BY <2>4, <4>1 DEF Accounts, LaidOut
      <4>3. ASSUME NEW k \in 1 .. Len(u.ci)
            PROVE  IF k <= s[i].old_ci THEN Needs(u, k) < s[i].old_top
                                       ELSE s[i].old_top <= u.ci[k].func
        <5>1. CASE k <= c
          <6>1. k \in 1 .. c /\ k \in 1 .. Len(t.ci)
            BY <1>1, <5>1
          <6> QED BY <1>5, <4>2, <6>1
        <5>2. CASE k > c
          <6>1. k \in c + 1 .. Len(u.ci)
            BY <5>2
          <6>2. top < u.ci[k].func /\ u.ci[k].func \in Nat /\ ~ (k <= s[i].old_ci)
            BY <1>9, <4>1, <5>2, <6>1
          <6>3. s[i].old_top <= u.ci[k].func
            BY <4>1, <6>2
          <6> QED BY <6>2, <6>3
        <5> QED BY <1>1, <5>1, <5>2
      <4>4. s[i].ef # 0 => u.stack[s[i].ef] = "H"
        <5>1. s[i].ef # 0 => s[i].ef \in 1 .. top
          BY <4>1, <4>2
        <5> QED BY <4>2, <5>1 DEF Keeps
      <4> QED BY <4>1, <4>2, <4>3, <4>4
    <3> QED BY <1>1, <3>1, <3>2
  <2> QED BY <2>2, <2>3, <2>4 DEF LaidOut
<1>11. Fits(th, u, r, Len(u.stack))
  <2>0. top <= Len(u.stack) /\ Len(u.stack) \in Nat
    BY DEF Keeps, ThreadState
  <2>1. ASSUME NEW k \in 1 .. Len(u.ci) PROVE Needs(u, k) <= Len(u.stack)
    <3>1. CASE k \in 1 .. c
      BY <1>5, <2>0, <3>1
    <3>2. CASE k \in c + 1 .. Len(u.ci)
      BY <1>9, <3>2
    <3> QED BY <1>1, <3>1, <3>2
  <2>2. ASSUME NEW i \in 1 .. Len(r), r[i].th = th, r[i].kind = "pcall"
        PROVE  r[i].old_top <= Len(u.stack) + 1
    <3>1. CASE i = n + 1
      BY <1>1, <2>2, <3>1 DEF Leaves, Saved
    <3>2. CASE i \in 1 .. n
      BY <1>8, <2>0, <2>2, <3>2
    <3> QED BY <1>1, <3>1, <3>2
  <2> QED BY <2>1, <2>2 DEF Fits
<1>12. Handled(th, u, r)
  <2>1. ASSUME NEW i \in 1 .. Len(r), r[i].th = th, r[i].kind = "pcall"
        PROVE  r[i].old_errfunc = Nearest(r, th, i - 1)
    <3>1. CASE i = n + 1
      BY <1>1, <2>1, <3>1 DEF Leaves, Saved
    <3>2. CASE i \in 1 .. n
      <4>1. i - 1 \in 0 .. n /\ i \in 1 .. Len(s) /\ r[i] = s[i]
        BY <1>1, <3>2
      <4> QED BY <1>3, <2>1, <4>1 DEF Accounts, Handled
    <3> QED BY <1>1, <3>1, <3>2
  <2> QED BY <2>1 DEF Handled, Leaves
<1>13. Captured(u)
  BY DEF Leaves, LeavesFrames
<1> QED BY <1>6, <1>7, <1>10, <1>11, <1>12, <1>13 DEF Accounts
-----------------------------------------------------------------------------
(* Stacks that agree up to i have the same accounts there.                 *)
LEMMA SamePart ==
  ASSUME NEW s, NEW r, NEW th, NEW i \in Nat, \A j \in 1 .. i : r[j] = s[j]
  PROVE  /\ CallsIn(r, i) = CallsIn(s, i) /\ Depth(r, th, i) = Depth(s, th, i)
         /\ Nearest(r, th, i) = Nearest(s, th, i)
<1>1. \A j \in 1 .. i : r[j].kind = s[j].kind
  OBVIOUS
<1>2. /\ {j \in 1 .. i : r[j].th = th} = {j \in 1 .. i : s[j].th = th}
      /\ \A j \in 1 .. i : r[j].th = th => r[j] = s[j]
  OBVIOUS
<1>3. /\ {j \in 1 .. i : r[j].th = th /\ r[j].kind = "pcall"}
           = {j \in 1 .. i : s[j].th = th /\ s[j].kind = "pcall"}
      /\ \A j \in 1 .. i : r[j].th = th /\ r[j].kind = "pcall" => r[j].ef = s[j].ef
  OBVIOUS
<1>4. CallsIn(r, i) = CallsIn(s, i)
  BY <1>1, CallsSame
<1>5. Depth(r, th, i) = Depth(s, th, i)
  BY <1>2, DepthSame
<1>6. Nearest(r, th, i) = Nearest(s, th, i)
  BY <1>3, NearestSame
<1> QED BY <1>4, <1>5, <1>6

(* The accounts of a stack with one activation more than another.          *)
OneOver(s, r, th, n) ==
  /\ CallsIn(s, n) \in Nat /\ Depth(s, th, n) \in Nat \ {0} /\ Nearest(s, th, n) \in Nat
  /\ CallsIn(r, n) = CallsIn(s, n) /\ Depth(r, th, n) = Depth(s, th, n)
  /\ Nearest(r, th, n) = Nearest(s, th, n)
  /\ CallsIn(r, n + 1) = CallsIn(s, n) + (IF r[n + 1].kind \in {"call", "resume"} THEN 1 ELSE 0)
  /\ Depth(r, th, n + 1) = Depth(s, th, n) + (IF r[n + 1].th = th THEN Size(r[n + 1]) ELSE 0)
  /\ Nearest(r, th, n + 1) = IF r[n + 1].th = th /\ r[n + 1].kind = "pcall"
                             THEN r[n + 1].ef ELSE Nearest(s, th, n)

(* One activation more changes each account by that activation alone.      *)
LEMMA OneMoreActivation ==
  ASSUME NEW s \in Seq(Activation), NEW r \in Seq(Activation), NEW th, NEW n \in 0 .. Len(s),
         Len(r) = n + 1, \A j \in 1 .. n : r[j] = s[j]
  PROVE  OneOver(s, r, th, n)
<1>1. n \in Nat /\ n + 1 \in Nat \ {0} /\ n + 1 \in 1 .. Len(r) /\ (n + 1) - 1 = n
  OBVIOUS
<1>2. CallsIn(s, n) \in Nat /\ Depth(s, th, n) \in Nat \ {0} /\ Nearest(s, th, n) \in Nat
  BY <1>1, CallsStep, DepthStep, NearestFound
<1>3. /\ CallsIn(r, n) = CallsIn(s, n) /\ Depth(r, th, n) = Depth(s, th, n)
      /\ Nearest(r, th, n) = Nearest(s, th, n)
  <2>1. n \in Nat /\ \A j \in 1 .. n : r[j] = s[j]
    BY <1>1
  <2>2. CallsIn(r, n) = CallsIn(s, n)
    BY <2>1, SamePart
  <2>3. Depth(r, th, n) = Depth(s, th, n)
    BY <2>1, SamePart
  <2>4. Nearest(r, th, n) = Nearest(s, th, n)
    BY <2>1, SamePart
  <2> QED BY <2>2, <2>3, <2>4
<1>4. CallsIn(r, n + 1) = CallsIn(r, n) + (IF r[n + 1].kind \in {"call", "resume"} THEN 1 ELSE 0)
  <2>1. CallsIn(r, n + 1) = CallsIn(r, (n + 1) - 1)
                              + (IF r[n + 1].kind \in {"call", "resume"} THEN 1 ELSE 0)
    BY <1>1, CallsStep
  <2> QED BY <1>1, <2>1
<1>5. Depth(r, th, n + 1) = Depth(r, th, n) + (IF r[n + 1].th = th THEN Size(r[n + 1]) ELSE 0)
  <2>1. Depth(r, th, n + 1) = Depth(r, th, (n + 1) - 1)
                                + (IF r[n + 1].th = th THEN Size(r[n + 1]) ELSE 0)
    <3>1. \A i \in 1 .. Len(r) :
            Depth(r, th, i) = Depth(r, th, i - 1) + (IF r[i].th = th THEN Size(r[i]) ELSE 0)
      BY DepthStep, Zenon
    <3> QED BY <1>1, <3>1, Zenon
  <2> QED BY <1>1, <2>1
<1>6. Nearest(r, th, n + 1) = IF r[n + 1].th = th /\ r[n + 1].kind = "pcall"
                              THEN r[n + 1].ef ELSE Nearest(r, th, n)
  <2>1. CASE r[n + 1].th = th /\ r[n + 1].kind = "pcall"
    BY <1>1, <2>1, NearestIs
  <2>2. CASE ~ (r[n + 1].th = th /\ r[n + 1].kind = "pcall")
    <3>1. Nearest(r, th, n + 1) = Nearest(r, th, (n + 1) - 1)
      BY <1>1, <2>2, NearestSkips
    <3> QED BY <1>1, <2>2, <3>1
  <2> QED BY <2>1, <2>2
<1> QED BY <1>2, <1>3, <1>4, <1>5, <1>6 DEF OneOver

(* What the last activation stands on.                                     *)
LEMMA StackedUnder ==
  ASSUME NEW s \in Seq(Activation), Stacked(s), s # <<>>, NEW n, n = Len(s) - 1
  PROVE  /\ n \in Nat /\ n + 1 = Len(s) /\ n \in 0 .. Len(s) /\ s[n + 1] = Last(s)
         /\ Front(s) \in Seq(Activation) /\ Len(Front(s)) = n /\ Stacked(Front(s))
         /\ \A j \in 1 .. n : Front(s)[j] = s[j]
         /\ n # 0 => n \in 1 .. Len(s) /\ <<s[n].kind, s[n + 1].kind>> \in Stands
         /\ n = 0 => s[n + 1].kind = "pcall"
         /\ s[n + 1].kind # "resume" => IF n = 0 THEN s[n + 1].th = Main ELSE s[n].th = s[n + 1].th
<1>1. /\ Len(s) \in Nat \ {0} /\ n \in Nat /\ n + 1 = Len(s) /\ n \in 0 .. Len(s)
      /\ s[n + 1] = Last(s) /\ n + 1 \in 1 .. Len(s)
  BY DEF Last
<1>2. Front(s) \in Seq(Activation) /\ Len(Front(s)) = n /\ \A j \in 1 .. n : Front(s)[j] = s[j]
  <2>1. Front(s) = SubSeq(s, 1, n)
    BY <1>1 DEF Front
  <2>2. n \in 0 .. Len(s)
    BY <1>1
  <2> QED BY <1>1, <2>1, <2>2, SubSeqProperties
<1>3. Stacked(Front(s))
  <2> DEFINE r == Front(s)
  <2>1. r \in Seq(Activation) /\ Len(r) <= Len(s)
        /\ \A i \in 1 .. Len(r) : r[i].kind = s[i].kind /\ r[i].th = s[i].th
    BY <1>1, <1>2
  <2> HIDE DEF r
  <2>2. Stacked(r)
    BY <2>1, StackedLess
  <2> QED BY <2>2 DEF r
<1>4. n # 0 => n \in 1 .. Len(s) /\ <<s[n].kind, s[n + 1].kind>> \in Stands
  <2>1. n # 0 => n \in 1 .. Len(s) - 1 /\ n \in 1 .. Len(s)
    BY <1>1
  <2> QED BY <2>1 DEF Stacked, StandsWell
<1>5. n = 0 => s[n + 1].kind = "pcall" /\ s[n + 1].th = Main
  BY <1>1 DEF Stacked, Founded
<1>6. ASSUME n # 0, s[n + 1].kind # "resume" PROVE s[n].th = s[n + 1].th
  <2>1. n \in 1 .. Len(s) /\ n < n + 1 /\ \A j \in n + 1 .. n + 1 : j = n + 1
    BY <1>1, <1>6
  <2> QED BY <1>1, <1>6, <2>1 DEF Stacked, InPieces
<1> QED BY <1>1, <1>2, <1>3, <1>4, <1>5, <1>6
-----------------------------------------------------------------------------
Modes == {"run", "return", "raise", "lua"} \union Errors

Machine == [thread : [Threads -> ThreadState], cs : Seq(Activation), mode : Modes]

(* A machine that differs from m in one thread.                            *)
Made(m, th, t, s, what) == [thread |-> [m.thread EXCEPT ![th] = t], cs |-> s, mode |-> what]

(* A machine made from another is one, and differs in that thread only.    *)
LEMMA MadeIs ==
  ASSUME NEW m \in Machine, NEW th \in Threads, NEW t \in ThreadState,
         NEW s \in Seq(Activation), NEW what \in Modes
  PROVE  /\ Made(m, th, t, s, what) \in Machine
         /\ Made(m, th, t, s, what).thread[th] = t
         /\ \A o \in Threads \ {th} : Made(m, th, t, s, what).thread[o] = m.thread[o]
         /\ Made(m, th, t, s, what).cs = s /\ Made(m, th, t, s, what).mode = what
  BY DEF Made, Machine

(* Changing a field of a machine is making one with the other fields.      *)
LEMMA Fields ==
  ASSUME NEW m \in Machine, NEW x
  PROVE  /\ [m EXCEPT !.thread = x] = [thread |-> x, cs |-> m.cs, mode |-> m.mode]
         /\ [m EXCEPT !.cs = x] = [thread |-> m.thread, cs |-> x, mode |-> m.mode]
         /\ [m EXCEPT !.mode = x] = [thread |-> m.thread, cs |-> m.cs, mode |-> x]
  BY DEF Machine

(* The operators of the model on one thread, each as a machine that is     *)
(* made.                                                                   *)
LEMMA Parts ==
  ASSUME NEW m \in Machine, NEW th \in Threads
  PROVE  /\ m.thread[th] \in ThreadState /\ m.cs \in Seq(Activation) /\ m.mode \in Modes
         /\ [m.thread EXCEPT ![th] = m.thread[th]] = m.thread
         /\ \A values : Push(m, th, values) =
              Made(m, th, [m.thread[th] EXCEPT !.stack = @ \o values], m.cs, m.mode)
         /\ \A top : Cut(m, th, top) =
              Made(m, th, [m.thread[th] EXCEPT !.stack = SubSeq(@, 1, top)], m.cs, m.mode)
         /\ \A what : Doing(m, what) = Made(m, th, m.thread[th], m.cs, what)
         /\ \A a : Activate(m, a) = Made(m, th, m.thread[th], Append(m.cs, a), m.mode)
         /\ Leave(m) = Made(m, th, m.thread[th], Front(m.cs), m.mode)
         /\ \A level : luaF_close(m, th, level) =
              Made(m, th, [m.thread[th] EXCEPT !.open = {i \in @ : i < level}], m.cs, m.mode)
<1>1. m.thread[th] \in ThreadState /\ m.cs \in Seq(Activation) /\ m.mode \in Modes
  BY DEF Machine
<1>0. [m.thread EXCEPT ![th] = m.thread[th]] = m.thread
  BY DEF Machine
<1>2. ASSUME NEW values
      PROVE Push(m, th, values) =
              Made(m, th, [m.thread[th] EXCEPT !.stack = @ \o values], m.cs, m.mode)
  BY Fields, Zenon DEF Push, Made
<1>3. ASSUME NEW top
      PROVE Cut(m, th, top) =
              Made(m, th, [m.thread[th] EXCEPT !.stack = SubSeq(@, 1, top)], m.cs, m.mode)
  BY Fields, Zenon DEF Cut, Made
<1>4. \A what : Doing(m, what) = Made(m, th, m.thread[th], m.cs, what)
  BY <1>0, Fields, Zenon DEF Doing, Made
<1>5. ASSUME NEW a
      PROVE  Activate(m, a) = Made(m, th, m.thread[th], Append(m.cs, a), m.mode)
  <2>1. Activate(m, a) = [thread |-> m.thread, cs |-> Append(m.cs, a), mode |-> m.mode]
    BY Fields, Zenon DEF Activate
  <2> QED BY <1>0, <2>1, Zenon DEF Made
<1>6. Leave(m) = Made(m, th, m.thread[th], Front(m.cs), m.mode)
  BY DEF Leave, Made, Machine
<1>7. ASSUME NEW level
      PROVE luaF_close(m, th, level) =
              Made(m, th, [m.thread[th] EXCEPT !.open = {i \in @ : i < level}], m.cs, m.mode)
  BY Fields, Zenon DEF luaF_close, Made
<1> QED BY <1>0, <1>1, <1>2, <1>3, <1>4, <1>5, <1>6, <1>7
-----------------------------------------------------------------------------
(* The threads' accounts of the C stack are true; th is the one on top.    *)
Good(m) ==
  /\ m \in Machine /\ Stacked(m.cs)
  /\ \A o \in Threads : Accounts(o, m.thread[o], m.cs)

OnTop(s, th) == IF s = <<>> THEN th = Main ELSE s[Len(s)].th = th

At(m, th) == Good(m) /\ th \in Threads /\ OnTop(m.cs, th) /\ m.thread[th].status = "0"

ActiveIn(s) == {Main} \union {s[i].th : i \in 1 .. Len(s)}

(* What th does on top of the C stack is its own affair.                   *)
Apart(m, p, th) ==
  /\ \A o \in Threads \ {th} : p.thread[o] = m.thread[o]
  /\ p.thread[th].status = m.thread[th].status

Does(m, p, th) == At(p, th) /\ Apart(m, p, th) /\ ActiveIn(p.cs) = ActiveIn(m.cs)

(* Two steps of the thread on top, one after the other, are such a step.   *)
LEMMA DoesMore ==
  ASSUME NEW m, NEW p, NEW q, NEW th, Does(m, p, th), Does(p, q, th)
  PROVE  Does(m, q, th)
  BY DEF Does, Apart

(* A step that keeps and leaves what TopStep asks for is one of the thread *)
(* on top.                                                                 *)
LEMMA StepDoes ==
  ASSUME NEW m, NEW th, At(m, th), NEW p \in Machine, Stacked(p.cs), Apart(m, p, th),
         NEW n \in 0 .. Len(m.cs), n <= Len(p.cs), \A j \in 1 .. n : p.cs[j] = m.cs[j],
         \A j \in n + 1 .. Len(m.cs) : m.cs[j].th = th,
         NEW c \in Nat, NEW top \in Nat,
         Keeps(th, m.thread[th], p.thread[th], m.cs, n, c, top),
         Leaves(th, p.thread[th], p.cs, n, c, top)
  PROVE  Does(m, p, th)
<1> DEFINE s == m.cs
           r == p.cs
<1>1. /\ m \in Machine /\ th \in Threads /\ s \in Seq(Activation) /\ r \in Seq(Activation)
      /\ m.thread[th] \in ThreadState /\ p.thread[th] \in ThreadState
      /\ Len(s) \in Nat /\ Len(r) \in Nat
  BY DEF At, Good, Machine
<1>2. Accounts(th, m.thread[th], s)
  BY <1>1 DEF At, Good
<1>3. Accounts(th, p.thread[th], r)
  BY <1>1, <1>2, TopStep
<1>4. /\ Len(r) = n => IF n = 0 THEN th = Main ELSE r[n].th = th
      /\ Len(r) = n + 1 => r[n + 1].th = th
      /\ Len(r) \in {n, n + 1}
  BY DEF Leaves, LeavesOnTop
<1>5. ASSUME NEW o \in Threads, o # th PROVE Accounts(o, p.thread[o], r)
  <2>1. Accounts(o, m.thread[o], s) /\ p.thread[o] = m.thread[o]
    BY <1>5 DEF At, Good, Apart
  <2>2. \A j \in n + 1 .. Len(s) : s[j].th # o
    BY <1>5
  <2>3. \A j \in n + 1 .. Len(r) : r[j].th # o
    BY <1>1, <1>4, <1>5
  <2> HIDE DEF s, r
  <2>4. n <= Len(r) /\ n \in 0 .. Len(s) /\ \A j \in 1 .. n : r[j] = s[j]
    BY DEF s, r
  <2>5. Accounts(o, m.thread[o], r)
    BY <1>1, <2>1, <2>2, <2>3, <2>4, OthersKeep
  <2> QED BY <2>1, <2>5
<1>6. Good(p)
  BY <1>3, <1>5 DEF Good
<1>7. OnTop(r, th) /\ p.thread[th].status = "0"
  <2>1. CASE Len(r) = n
    <3>1. r = <<>> <=> n = 0
      BY <1>1, <2>1
    <3> QED BY <1>4, <2>1, <3>1 DEF OnTop, Keeps
  <2>2. CASE Len(r) = n + 1
    BY <1>1, <1>4, <2>2 DEF OnTop, Keeps
  <2> QED BY <1>4, <2>1, <2>2
<1>8. ActiveIn(r) = ActiveIn(s)
  <2>1. th \in ActiveIn(r) /\ th \in ActiveIn(s)
    <3>1. \A q \in Seq(Activation) : OnTop(q, th) => th \in ActiveIn(q)
      BY DEF OnTop, ActiveIn
    <3> QED BY <1>1, <1>7, <3>1 DEF At
  <2>2. ASSUME NEW j \in 1 .. Len(r) PROVE r[j].th \in ActiveIn(s)
    <3>1. CASE j \in 1 .. n
      <4>1. j \in 1 .. Len(s) /\ r[j] = s[j]
        BY <1>1, <3>1
      <4> QED BY <4>1 DEF ActiveIn
    <3>2. CASE j \notin 1 .. n
      <4>1. r[j].th = th
        BY <1>1, <1>4, <3>2
      <4> QED BY <2>1, <4>1
    <3> QED BY <3>1, <3>2
  <2>3. ASSUME NEW j \in 1 .. Len(s) PROVE s[j].th \in ActiveIn(r)
    <3>1. CASE j \in 1 .. n
      <4>1. j \in 1 .. Len(r) /\ r[j] = s[j]
        BY <1>1, <3>1
      <4> QED BY <4>1 DEF ActiveIn
    <3>2. CASE j \notin 1 .. n
      <4>1. s[j].th = th
        BY <1>1, <3>2
      <4> QED BY <2>1, <4>1
    <3> QED BY <3>1, <3>2
  <2> HIDE DEF s, r
  <2>4. Main \in ActiveIn(s) /\ Main \in ActiveIn(r)
    BY DEF ActiveIn
  <2>5. ActiveIn(r) \subseteq ActiveIn(s)
    BY <2>2, <2>4 DEF ActiveIn
  <2>6. ActiveIn(s) \subseteq ActiveIn(r)
    BY <2>3, <2>4 DEF ActiveIn
  <2> QED BY <2>5, <2>6
<1> QED BY <1>1, <1>6, <1>7, <1>8 DEF Does, At
-----------------------------------------------------------------------------
(* What the accounts say of the thread on top.                             *)
LEMMA TopIs ==
  ASSUME NEW m, NEW th, At(m, th)
  PROVE  /\ m \in Machine /\ th \in Threads /\ m.thread[th] \in ThreadState
         /\ m.cs \in Seq(Activation) /\ Stacked(m.cs) /\ OnTop(m.cs, th)
         /\ m.thread[th].status = "0" /\ Accounts(th, m.thread[th], m.cs)
         /\ m.thread[th].nCcalls = CallsIn(m.cs, Len(m.cs))
         /\ m.thread[th].errfunc = Nearest(m.cs, th, Len(m.cs))
         /\ Len(m.thread[th].ci) = Depth(m.cs, th, Len(m.cs))
<1> DEFINE s == m.cs
           t == m.thread[th]
<1>1. /\ m \in Machine /\ th \in Threads /\ t \in ThreadState
      /\ s \in Seq(Activation) /\ Stacked(s) /\ OnTop(s, th)
      /\ t.status = "0" /\ Accounts(th, t, s)
  BY DEF At, Good, Machine
<1> HIDE DEF s, t
<1>2. t.errfunc = Nearest(s, th, Len(s)) /\ Len(t.ci) = Depth(s, th, Len(s))
  BY <1>1 DEF Accounts, Handled, Framed
<1>3. t.nCcalls = CallsIn(s, Len(s))
  <2>1. CASE s = <<>>
    <3>1. th = Main /\ Len(s) = 0 /\ \A i \in 1 .. Len(s) : s[i].th # th
      BY <1>1, <2>1 DEF OnTop
    <3>2. t.nCcalls = 0
      BY <1>1, <3>1 DEF Accounts, Counted
    <3> QED BY <3>1, <3>2, CallsStep
  <2>2. CASE s # <<>>
    <3>1. Len(s) \in 1 .. Len(s) /\ s[Len(s)].th = th /\ \A j \in Len(s) + 1 .. Len(s) : s[j].th # th
      BY <1>1, <2>2 DEF OnTop
    <3> QED BY <1>1, <3>1 DEF Accounts, Counted
  <2> QED BY <2>1, <2>2
<1> QED BY <1>1, <1>2, <1>3 DEF s, t

(* A step of the thread on top that keeps its frames.                      *)
KeepsStack(m, p, th, n) ==
  /\ n \in 0 .. Len(m.cs) /\ n <= Len(p.cs) /\ \A j \in 1 .. n : p.cs[j] = m.cs[j]
  /\ \A j \in n + 1 .. Len(m.cs) : m.cs[j].th = th
  /\ LeavesOnTop(th, p.cs, n)

KeepsFrames(t, u, s, r, th, n, top) ==
  /\ top \in Nat /\ Fits(th, t, s, top) /\ top <= Len(u.stack)
  /\ \A j \in 1 .. top : u.stack[j] = t.stack[j]
  /\ u.ci = t.ci /\ u.open \subseteq t.open /\ u.baseCcalls = t.baseCcalls
  /\ Depth(s, th, n) = Len(t.ci) /\ Depth(r, th, Len(r)) = Len(t.ci)
  /\ u.nCcalls = CallsIn(r, Len(r)) /\ u.errfunc = Nearest(r, th, Len(r))

SavesCall(t, u, th, r, n, top) ==
  /\ r[n + 1].oldnCcalls = CallsIn(r, n + 1) /\ r[n + 1].old_ci = Len(t.ci)
  /\ r[n + 1].old_errfunc = Nearest(r, th, n)
  /\ r[n + 1].old_top <= Len(u.stack) + 1 /\ top < r[n + 1].old_top
  /\ r[n + 1].ef < r[n + 1].old_top /\ (r[n + 1].ef # 0 => u.stack[r[n + 1].ef] = "H")

SameFrames(t, u) ==
  \A k \in 1 .. Len(u.ci) : /\ RunsLua(u, k) <=> RunsLua(t, k)
                            /\ Needs(u, k) = Needs(t, k)

(* A step that changes activations and values over the frames, but no      *)
(* frame, keeps the accounts.                                              *)
LEMMA FramesKept ==
  ASSUME NEW m, NEW th, At(m, th), NEW p \in Machine, Stacked(p.cs), Apart(m, p, th),
         NEW n, KeepsStack(m, p, th, n), NEW top,
         KeepsFrames(m.thread[th], p.thread[th], m.cs, p.cs, th, n, top),
         Len(p.cs) = n + 1 /\ p.cs[n + 1].kind = "pcall" =>
           SavesCall(m.thread[th], p.thread[th], th, p.cs, n, top)
  PROVE  Does(m, p, th) /\ SameFrames(m.thread[th], p.thread[th])
<1> DEFINE s == m.cs
           r == p.cs
           t == m.thread[th]
           u == p.thread[th]
           c == Len(t.ci)
<1>0. /\ n \in 0 .. Len(s) /\ n <= Len(r) /\ \A j \in 1 .. n : r[j] = s[j]
      /\ \A j \in n + 1 .. Len(s) : s[j].th = th
      /\ LeavesOnTop(th, r, n)
  BY DEF KeepsStack
<1>a. /\ top \in Nat /\ Fits(th, t, s, top) /\ top <= Len(u.stack)
      /\ \A j \in 1 .. top : u.stack[j] = t.stack[j]
      /\ u.ci = t.ci /\ u.open \subseteq t.open /\ u.baseCcalls = t.baseCcalls
      /\ Depth(s, th, n) = Len(t.ci) /\ Depth(r, th, Len(r)) = Len(t.ci)
      /\ u.nCcalls = CallsIn(r, Len(r)) /\ u.errfunc = Nearest(r, th, Len(r))
  BY DEF KeepsFrames
<1>b. Len(r) = n + 1 /\ r[n + 1].kind = "pcall" =>
        /\ r[n + 1].oldnCcalls = CallsIn(r, n + 1) /\ r[n + 1].old_ci = Len(t.ci)
        /\ r[n + 1].old_errfunc = Nearest(r, th, n)
        /\ r[n + 1].old_top <= Len(u.stack) + 1 /\ top < r[n + 1].old_top
        /\ r[n + 1].ef < r[n + 1].old_top /\ (r[n + 1].ef # 0 => u.stack[r[n + 1].ef] = "H")
  BY DEF SavesCall
<1> USE <1>0, <1>a, <1>b
<1>1. /\ m \in Machine /\ th \in Threads /\ t \in ThreadState /\ s \in Seq(Activation)
      /\ t.status = "0" /\ Accounts(th, t, s)
  BY TopIs
<1>2. u \in ThreadState /\ r \in Seq(Activation)
  BY <1>1 DEF Machine
<1>3. n \in Nat /\ Len(s) \in Nat /\ c \in Nat
  BY <1>1, ThreadFields
<1>4. Keeps(th, t, u, s, n, c, top)
  <2>1. u.status = "0"
    BY <1>1 DEF Apart
  <2>2. Depth(s, th, n) = c /\ Len(u.ci) = c /\ \A k \in 1 .. c : u.ci[k] = t.ci[k] /\ Needs(t, k) <= top
    BY DEF Fits
  <2>3. \A i \in 1 .. n : s[i].th = th /\ s[i].kind = "pcall" => s[i].old_top <= top + 1
    BY <1>3 DEF Fits
  <2> QED BY <1>1, <1>3, <2>1, <2>2, <2>3 DEF Keeps
<1>5. \A k \in 1 .. c : /\ RunsLua(u, k) <=> RunsLua(t, k)
                        /\ Needs(u, k) = Needs(t, k)
                        /\ u.ci[k].func = t.ci[k].func
  <2>1. LaidOut(th, t, s)
    BY <1>1 DEF Accounts
  <2> HIDE DEF s, r, t, u, c
  <2> QED BY <1>1, <1>2, <1>3, <1>4, <2>1, FramesStay
<1>6. Captured(u)
  <2>1. Captured(t)
    BY <1>1 DEF Accounts
  <2>2. u.open \subseteq t.open /\ Len(u.ci) = c
    OBVIOUS
  <2>3. ASSUME NEW i \in u.open
        PROVE  \E k \in 2 .. c : u.ci[k].func = i - 1 /\ RunsLua(u, k)
    <3> HIDE DEF s, r, t, u
    <3>1. PICK k \in 2 .. c : t.ci[k].func = i - 1 /\ RunsLua(t, k)
      BY <2>1, <2>2, <2>3 DEF Captured
    <3>2. k \in 1 .. c
      OBVIOUS
    <3> HIDE DEF c
    <3> QED BY <1>5, <3>1, <3>2
  <2> QED BY <2>2, <2>3 DEF Captured
<1>7. LeavesFrames(th, u, r, n, c, top)
  <2>1. Len(u.ci) = c /\ Depth(r, th, Len(r)) = c
    OBVIOUS
  <2>2. Len(r) = n + 1 => \A k \in Depth(r, th, n) + 1 .. c : FALSE
    <3>1. Depth(r, th, n) = Depth(s, th, n)
      <4> HIDE DEF s, r
      <4>1. n \in Nat /\ \A j \in 1 .. n : r[j] = s[j]
        BY <1>3 DEF r, s
      <4> QED BY <4>1, SamePart
    <3> QED BY <1>3, <3>1
  <2> HIDE DEF s, r, t, u, c
  <2>3. \A k \in c + 1 .. Len(u.ci) : FALSE
    BY <1>3, <2>1
  <2>4. Len(r) = n + 1 => \A k \in Depth(r, th, n) + 1 .. Len(u.ci) : FALSE
    BY <2>1, <2>2
  <2>5. Len(u.ci) = Depth(r, th, Len(r)) /\ Len(u.ci) <= c + 1
    BY <1>3, <2>1
  <2> QED BY <1>6, <2>3, <2>4, <2>5 DEF LeavesFrames
<1>8. Leaves(th, u, r, n, c, top)
  <2>1. ASSUME Len(r) = n + 1, r[n + 1].kind = "pcall"
        PROVE  Saved(th, u, r, n + 1)
    <3>1. \A k \in 1 .. Len(u.ci) : Needs(u, k) < r[n + 1].old_top
      <4>1. \A k \in 1 .. c : Needs(t, k) <= top
        BY DEF Fits
      <4>2. top < r[n + 1].old_top /\ r[n + 1].old_top \in Nat
        <5>1. n + 1 \in 1 .. Len(r)
          BY <1>3, <2>1
        <5>2. r[n + 1] \in Activation
          BY <1>2, <5>1
        <5> QED BY <2>1, <5>2 DEF Activation
      <4>3. \A k \in 1 .. c : Needs(t, k) \in Nat
        <5>1. \A k \in 1 .. c : t.ci[k].func \in Nat
          BY <1>1, ThreadFields
        <5> HIDE DEF s, r, t, u, c
        <5> QED BY <5>1 DEF Needs
      <4>4. Len(u.ci) = c
        OBVIOUS
      <4> HIDE DEF s, r, t, u, c
      <4>5. \A k \in 1 .. c : Needs(u, k) <= top
        BY <1>5, <4>1
      <4>6. \A k \in 1 .. c : Needs(u, k) < r[n + 1].old_top
        BY <1>5, <4>2, <4>3, <4>5
      <4> QED BY <4>4, <4>6
    <3>2. (n + 1) - 1 = n
      BY <1>3
    <3> QED BY <2>1, <3>1, <3>2 DEF Saved
  <2> QED BY <1>7, <2>1 DEF Leaves
<1>9. Does(m, p, th)
  BY <1>3, <1>4, <1>8, StepDoes
<1> QED BY <1>5, <1>9 DEF SameFrames

(* Stacks, calls and protected calls that come and go over the frames.     *)
LEMMA StackStep ==
  ASSUME NEW m, NEW th, At(m, th), NEW p \in Machine, p.cs = m.cs, Apart(m, p, th),
         NEW top \in Nat, Fits(th, m.thread[th], m.cs, top),
         top <= Len(p.thread[th].stack),
         \A j \in 1 .. top : p.thread[th].stack[j] = m.thread[th].stack[j],
         p.thread[th].ci = m.thread[th].ci, p.thread[th].open \subseteq m.thread[th].open,
         p.thread[th].baseCcalls = m.thread[th].baseCcalls,
         p.thread[th].nCcalls = m.thread[th].nCcalls,
         p.thread[th].errfunc = m.thread[th].errfunc
  PROVE  Does(m, p, th) /\ Fits(th, p.thread[th], p.cs, top)
<1> DEFINE s == m.cs
           n == Len(s)
<1>1. /\ s \in Seq(Activation) /\ Stacked(s) /\ OnTop(s, th)
      /\ m.thread[th].nCcalls = CallsIn(s, n)
      /\ m.thread[th].errfunc = Nearest(s, th, n)
      /\ Len(m.thread[th].ci) = Depth(s, th, n)
  BY TopIs
<1>2. n \in 0 .. n /\ n \in Nat /\ n <= n /\ n # n + 1 /\ \A j \in n + 1 .. n : FALSE
  BY <1>1
<1>3. KeepsStack(m, p, th, n)
  BY <1>1, <1>2 DEF LeavesOnTop, OnTop, KeepsStack
<1>4. KeepsFrames(m.thread[th], p.thread[th], m.cs, p.cs, th, n, top)
  BY <1>1 DEF KeepsFrames
<1>6. Len(p.cs) # n + 1 /\ Stacked(p.cs)
  BY <1>1, <1>2
<1>7. Does(m, p, th) /\ SameFrames(m.thread[th], p.thread[th])
  <2> HIDE DEF n, s
  <2> QED BY <1>3, <1>4, <1>6, FramesKept
<1>5. Fits(th, p.thread[th], p.cs, top)
  BY <1>7 DEF Fits, SameFrames
<1> QED BY <1>7, <1>5

(* A thread whose stack is replaced.                                       *)
LEMMA StackSet ==
  ASSUME NEW t \in ThreadState, NEW st \in Seq(Value)
  PROVE  LET u == [t EXCEPT !.stack = st]
         IN  /\ u \in ThreadState /\ u.stack = st /\ u.ci = t.ci /\ u.open = t.open
             /\ u.nCcalls = t.nCcalls /\ u.baseCcalls = t.baseCcalls
             /\ u.status = t.status /\ u.errfunc = t.errfunc /\ u.size_ci = t.size_ci
  BY DEF ThreadState

Rest(t, u) ==
  /\ u.open = t.open /\ u.nCcalls = t.nCcalls /\ u.baseCcalls = t.baseCcalls
  /\ u.status = t.status /\ u.errfunc = t.errfunc

Restacked(t, u, st) == u.stack = st /\ u.ci = t.ci /\ Rest(t, u)

(* What is kept of a stack that is cut, or pushed on.                       *)
Prefix(st, st2, n) == n <= Len(st2) /\ \A j \in 1 .. n : st2[j] = st[j]

(* A stack that is cut keeps its first values.                             *)
LEMMA CutShort ==
  ASSUME NEW st \in Seq(Value), NEW n \in 0 .. Len(st), NEW x, x = SubSeq(st, 1, n)
  PROVE  x \in Seq(Value) /\ Len(x) = n /\ Prefix(st, x, n)
  BY SubSeqProperties DEF Prefix

(* A stack that is pushed on keeps its values under the new ones.          *)
LEMMA PushedOn ==
  ASSUME NEW st \in Seq(Value), NEW values \in Seq(Value), NEW x, x = st \o values
  PROVE  /\ x \in Seq(Value) /\ Len(x) = Len(st) + Len(values) /\ Prefix(st, x, Len(st))
         /\ \A j \in 1 .. Len(values) : x[Len(st) + j] = values[j]
  BY ConcatProperties DEF Prefix

Alters(m, p, th) == p \in Machine /\ Apart(m, p, th)

(* Push changes the stack of one thread only.                              *)
LEMMA PushMade ==
  ASSUME NEW m \in Machine, NEW th \in Threads, NEW values \in Seq(Value),
         NEW p, p = Push(m, th, values)
  PROVE  /\ Alters(m, p, th) /\ p.cs = m.cs /\ p.mode = m.mode
         /\ Restacked(m.thread[th], p.thread[th], m.thread[th].stack \o values)
<1> DEFINE t == m.thread[th]
           st == t.stack \o values
           u == [t EXCEPT !.stack = st]
<1>1. t \in ThreadState /\ m.cs \in Seq(Activation) /\ m.mode \in Modes
  BY DEF Machine
<1>2. p = Made(m, th, u, m.cs, m.mode)
  BY <1>1, Parts, Zenon
<1>3. st \in Seq(Value)
  <2>1. t.stack \in Seq(Value)
    BY <1>1 DEF ThreadState
  <2> HIDE DEF t
  <2> QED BY <2>1
<1> HIDE DEF st
<1>4. u \in ThreadState /\ Restacked(t, u, st) /\ u.status = t.status
  BY <1>1, <1>3, StackSet, Zenon DEF Restacked, Rest
<1> HIDE DEF u
<1>5. p \in Machine /\ p.thread[th] = u /\ p.cs = m.cs /\ p.mode = m.mode /\ Apart(m, p, th)
  BY <1>1, <1>2, <1>4, MadeIs DEF Apart
<1> QED BY <1>4, <1>5 DEF st, Alters

(* Cut changes the stack of one thread only.                               *)
LEMMA CutMade ==
  ASSUME NEW m \in Machine, NEW th \in Threads, NEW top \in 0 .. Len(m.thread[th].stack),
         NEW p, p = Cut(m, th, top)
  PROVE  /\ Alters(m, p, th) /\ p.cs = m.cs /\ p.mode = m.mode
         /\ Restacked(m.thread[th], p.thread[th], SubSeq(m.thread[th].stack, 1, top))
<1> DEFINE t == m.thread[th]
           st == SubSeq(t.stack, 1, top)
           u == [t EXCEPT !.stack = st]
<1>1. t \in ThreadState /\ m.cs \in Seq(Activation) /\ m.mode \in Modes
  BY DEF Machine
<1>2. p = Made(m, th, u, m.cs, m.mode)
  BY <1>1, Parts, Zenon
<1>3. st \in Seq(Value)
  <2>1. t.stack \in Seq(Value) /\ top \in 0 .. Len(t.stack)
    BY <1>1 DEF ThreadState
  <2> HIDE DEF t
  <2> QED BY <2>1, SubSeqProperties
<1> HIDE DEF st
<1>4. u \in ThreadState /\ Restacked(t, u, st) /\ u.status = t.status
  BY <1>1, <1>3, StackSet, Zenon DEF Restacked, Rest
<1> HIDE DEF u
<1>5. p \in Machine /\ p.thread[th] = u /\ p.cs = m.cs /\ p.mode = m.mode /\ Apart(m, p, th)
  BY <1>1, <1>2, <1>4, MadeIs DEF Apart
<1> QED BY <1>4, <1>5 DEF st, Alters

(* Doing, Activate and Leave change no thread.                             *)
LEMMA OtherwiseMade ==
  ASSUME NEW m \in Machine, NEW th \in Threads
  PROVE  /\ \A what \in Modes : \A p : p = Doing(m, what) =>
              Alters(m, p, th) /\ p.cs = m.cs /\ p.mode = what /\ p.thread = m.thread
         /\ \A a \in Activation : \A p : p = Activate(m, a) =>
              Alters(m, p, th) /\ p.cs = Append(m.cs, a) /\ p.mode = m.mode /\ p.thread = m.thread
         /\ \A p : p = Leave(m) /\ m.cs # <<>> =>
              Alters(m, p, th) /\ p.cs = Front(m.cs) /\ p.mode = m.mode /\ p.thread = m.thread
<1>1. ASSUME NEW what \in Modes, NEW p, p = Doing(m, what)
      PROVE  Alters(m, p, th) /\ p.cs = m.cs /\ p.mode = what /\ p.thread = m.thread
  BY <1>1 DEF Doing, Machine, Alters, Apart
<1>2. ASSUME NEW a \in Activation, NEW p, p = Activate(m, a)
      PROVE  Alters(m, p, th) /\ p.cs = Append(m.cs, a) /\ p.mode = m.mode /\ p.thread = m.thread
  <2>1. m.cs \in Seq(Activation)
    BY DEF Machine
  <2>0. Append(m.cs, a) \in Seq(Activation)
    BY <2>1
  <2>2. PICK x \in Seq(Activation) : x = Append(m.cs, a)
    BY <2>0, Zenon
  <2>3. p = [m EXCEPT !.cs = x]
    BY <1>2, <2>2 DEF Activate
  <2> QED BY <2>2, <2>3 DEF Machine, Alters, Apart
<1>3. ASSUME NEW p, p = Leave(m), m.cs # <<>>
      PROVE  Alters(m, p, th) /\ p.cs = Front(m.cs) /\ p.mode = m.mode /\ p.thread = m.thread
  <2>1. Front(m.cs) \in Seq(Activation)
    <3>1. m.cs \in Seq(Activation)
      BY DEF Machine
    <3> QED BY <1>3, <3>1 DEF Front
  <2> QED BY <1>3, <2>1 DEF Leave, Machine, Alters, Apart
<1> QED BY <1>1, <1>2, <1>3

(* Values pushed keep the accounts.                                        *)
LEMMA PushStep ==
  ASSUME NEW m, NEW th, At(m, th), NEW values \in Seq(Value),
         NEW p, p = Push(m, th, values)
  PROVE  /\ Does(m, p, th) /\ p.cs = m.cs /\ p.mode = m.mode
         /\ Restacked(m.thread[th], p.thread[th], m.thread[th].stack \o values)
         /\ Fits(th, p.thread[th], p.cs, Len(m.thread[th].stack))
<1> DEFINE t == m.thread[th]
           st == t.stack \o values
           u == [t EXCEPT !.stack = st]
<1>1. /\ m \in Machine /\ th \in Threads /\ t \in ThreadState /\ m.cs \in Seq(Activation)
      /\ m.mode \in Modes /\ Fits(th, t, m.cs, Len(t.stack))
  BY TopIs DEF Machine, Accounts
<1>2. p = Made(m, th, u, m.cs, m.mode)
  BY <1>1, Parts, Zenon
<1>3. /\ t.stack \in Seq(Value) /\ st \in Seq(Value) /\ Len(t.stack) \in Nat
      /\ Len(t.stack) <= Len(st) /\ \A j \in 1 .. Len(t.stack) : st[j] = t.stack[j]
  <2>1. t.stack \in Seq(Value)
    BY <1>1 DEF ThreadState
  <2> HIDE DEF t
  <2> QED BY <2>1
<1> HIDE DEF st
<1>4. /\ u \in ThreadState /\ u.stack = st /\ u.ci = t.ci /\ u.open = t.open
      /\ u.nCcalls = t.nCcalls /\ u.baseCcalls = t.baseCcalls
      /\ u.status = t.status /\ u.errfunc = t.errfunc /\ u.size_ci = t.size_ci
  BY <1>1, <1>3, StackSet, Zenon
<1> HIDE DEF u
<1>5. /\ p \in Machine /\ p.thread[th] = u /\ p.cs = m.cs /\ p.mode = m.mode
      /\ Apart(m, p, th)
  BY <1>1, <1>2, <1>4, MadeIs DEF Apart
<1>6. Does(m, p, th) /\ Fits(th, p.thread[th], p.cs, Len(t.stack))
  BY <1>1, <1>3, <1>4, <1>5, StackStep
<1> QED BY <1>4, <1>5, <1>6 DEF st, Restacked, Rest

(* A stack cut no lower than what the accounts need keeps them.            *)
LEMMA CutStep ==
  ASSUME NEW m, NEW th, At(m, th), NEW top \in 0 .. Len(m.thread[th].stack),
         Fits(th, m.thread[th], m.cs, top),
         NEW p, p = Cut(m, th, top)
  PROVE  /\ Does(m, p, th) /\ p.cs = m.cs /\ p.mode = m.mode
         /\ Restacked(m.thread[th], p.thread[th], SubSeq(m.thread[th].stack, 1, top))
         /\ Fits(th, p.thread[th], p.cs, top)
<1> DEFINE t == m.thread[th]
           st == SubSeq(t.stack, 1, top)
           u == [t EXCEPT !.stack = st]
<1>1. /\ m \in Machine /\ th \in Threads /\ t \in ThreadState /\ m.cs \in Seq(Activation)
      /\ m.mode \in Modes
  BY TopIs DEF Machine, Accounts
<1>2. p = Made(m, th, u, m.cs, m.mode)
  BY <1>1, Parts, Zenon
<1>3. /\ t.stack \in Seq(Value) /\ st \in Seq(Value) /\ top \in Nat
      /\ top <= Len(st) /\ \A j \in 1 .. top : st[j] = t.stack[j]
  <2>1. t.stack \in Seq(Value) /\ top \in 0 .. Len(t.stack)
    BY <1>1 DEF ThreadState
  <2> HIDE DEF t
  <2> QED BY <2>1, SubSeqProperties
<1> HIDE DEF st
<1>4. /\ u \in ThreadState /\ u.stack = st /\ u.ci = t.ci /\ u.open = t.open
      /\ u.nCcalls = t.nCcalls /\ u.baseCcalls = t.baseCcalls
      /\ u.status = t.status /\ u.errfunc = t.errfunc /\ u.size_ci = t.size_ci
  BY <1>1, <1>3, StackSet, Zenon
<1> HIDE DEF u
<1>5. /\ p \in Machine /\ p.thread[th] = u /\ p.cs = m.cs /\ p.mode = m.mode
      /\ Apart(m, p, th)
  BY <1>1, <1>2, <1>4, MadeIs DEF Apart
<1>6. Does(m, p, th) /\ Fits(th, p.thread[th], p.cs, top)
  BY <1>1, <1>3, <1>4, <1>5, StackStep
<1> QED BY <1>4, <1>5, <1>6 DEF st, Restacked, Rest

(* A change of mode keeps the accounts.                                    *)
LEMMA DoingStep ==
  ASSUME NEW m, NEW th, At(m, th), NEW what \in Modes,
         NEW p, p = Doing(m, what)
  PROVE  Does(m, p, th) /\ p.cs = m.cs /\ p.mode = what /\ p.thread = m.thread
<1>1. m \in Machine /\ th \in Threads /\ m.thread[th] \in ThreadState /\ m.cs \in Seq(Activation)
  BY TopIs
<1>2. p \in Machine /\ p.cs = m.cs /\ p.mode = what /\ p.thread = m.thread
  BY DEF Doing, Machine, At, Good
<1>3. At(p, th)
  BY <1>2 DEF At, Good
<1> QED BY <1>2, <1>3 DEF Does, Apart

(* A message is raised over what the accounts need.                        *)
LEMMA RaiseStep ==
  ASSUME NEW m, NEW th, At(m, th), NEW p, p = Raise(m, th)
  PROVE  /\ Does(m, p, th) /\ p.cs = m.cs /\ p.mode = "raise"
         /\ Fits(th, p.thread[th], p.cs, Len(p.thread[th].stack) - 1)
<1>1. PICK message \in Seq(Value) : message = <<"v">> /\ Len(message) = 1
  <2>1. "v" \in Value
    BY DEF Value
  <2>2. <<"v">> \in Seq(Value) /\ Len(<<"v">>) = 1
    BY <2>1
  <2> QED BY <2>2
<1>2. PICK q : q = Push(m, th, message) /\ p = Doing(q, "raise")
  BY <1>1 DEF Raise
<1> DEFINE st == m.thread[th].stack
<1>3. m.thread[th] \in ThreadState /\ st \in Seq(Value) /\ "raise" \in Modes
  BY TopIs DEF ThreadState, Modes
<1>4. /\ Does(m, q, th) /\ q.cs = m.cs
      /\ Restacked(m.thread[th], q.thread[th], m.thread[th].stack \o message)
      /\ Fits(th, q.thread[th], q.cs, Len(m.thread[th].stack))
  BY <1>2, PushStep
<1>5. Does(q, p, th) /\ p.cs = q.cs /\ p.mode = "raise" /\ p.thread = q.thread
  BY <1>2, <1>3, <1>4, DoingStep DEF Does
<1>6. p.thread[th].stack = st \o message
  BY <1>3, <1>4, <1>5 DEF ThreadState, Restacked
<1> HIDE DEF st
<1>7. Len(st \o message) - 1 = Len(st)
  <2>1. Len(st \o message) = Len(st) + Len(message) /\ Len(st) \in Nat
    BY <1>3, ConcatProperties
  <2> QED BY <1>1, <2>1
<1>8. Does(m, p, th)
  BY <1>4, <1>5, DoesMore
<1> QED BY <1>4, <1>5, <1>6, <1>7, <1>8 DEF st

(* A luaD_call, luaD_pcall or handler that leaves, putting back what it    *)
(* changed, keeps the accounts.                                            *)
LEMMA LeaveStep ==
  ASSUME NEW m, NEW th, At(m, th), NEW p \in Machine, Apart(m, p, th),
         m.cs # <<>>, p.cs = Front(m.cs), Last(m.cs).kind \in {"call", "errormsg", "pcall"},
         p.thread[th].stack = m.thread[th].stack,
         p.thread[th].ci = m.thread[th].ci, p.thread[th].open = m.thread[th].open,
         p.thread[th].baseCcalls = m.thread[th].baseCcalls,
         p.thread[th].nCcalls
           = IF Last(m.cs).kind = "call" THEN m.thread[th].nCcalls - 1 ELSE m.thread[th].nCcalls,
         p.thread[th].errfunc
           = IF Last(m.cs).kind = "pcall" THEN Last(m.cs).old_errfunc ELSE m.thread[th].errfunc
  PROVE  Does(m, p, th)
<1> DEFINE s == m.cs
           r == p.cs
           t == m.thread[th]
           u == p.thread[th]
           n == Len(s) - 1
<1>1. /\ m \in Machine /\ s \in Seq(Activation) /\ Stacked(s) /\ OnTop(s, th) /\ t \in ThreadState
      /\ t.nCcalls = CallsIn(s, Len(s))
      /\ t.errfunc = Nearest(s, th, Len(s))
      /\ Len(t.ci) = Depth(s, th, Len(s)) /\ Accounts(th, t, s)
  BY TopIs
<1>2. /\ n \in Nat /\ n + 1 = Len(s) /\ n \in 0 .. Len(s) /\ s[n + 1] = Last(s)
      /\ r \in Seq(Activation) /\ Len(r) = n /\ Stacked(r)
      /\ \A j \in 1 .. n : r[j] = s[j]
      /\ s[n + 1].kind # "resume" => IF n = 0 THEN s[n + 1].th = Main ELSE s[n].th = s[n + 1].th
  <2>1. s # <<>> /\ r = Front(s)
    OBVIOUS
  <2> HIDE DEF s, r
  <2> QED BY <1>1, <2>1, StackedUnder
<1>3. s[n + 1].th = th /\ s[n + 1].kind \in {"call", "errormsg", "pcall"}
  BY <1>1, <1>2 DEF OnTop
<1> HIDE DEF n
<1>4. KeepsStack(m, p, th, n)
  <2>1. LeavesOnTop(th, r, n)
    BY <1>2, <1>3 DEF LeavesOnTop
  <2>2. \A j \in n + 1 .. Len(s) : j = n + 1
    BY <1>2
  <2>3. n <= Len(r) /\ \A j \in n + 1 .. Len(s) : s[j].th = th
    BY <1>2, <1>3, <2>2
  <2> QED BY <1>2, <2>1, <2>3 DEF KeepsStack
<1>5. /\ CallsIn(r, n) \in Nat /\ Nearest(s, th, n) = Nearest(r, th, n)
      /\ Depth(r, th, n) \in Nat /\ Depth(s, th, n) = Depth(r, th, n)
      /\ CallsIn(s, n + 1) = CallsIn(r, n) + (IF s[n + 1].kind = "call" THEN 1 ELSE 0)
      /\ Depth(s, th, n + 1) = Depth(r, th, n)
      /\ s[n + 1].kind # "pcall" => Nearest(s, th, n + 1) = Nearest(r, th, n)
  <2>1. n \in 0 .. Len(r) /\ Len(s) = n + 1 /\ \A j \in 1 .. n : s[j] = r[j]
    BY <1>2
  <2> HIDE DEF s, r
  <2>2. OneOver(r, s, th, n)
    BY <1>1, <1>2, <2>1, OneMoreActivation
  <2>3. Size(s[n + 1]) = 0
    BY <1>3 DEF Size
  <2> QED BY <1>3, <2>2, <2>3 DEF OneOver
<1>6. u.nCcalls = CallsIn(r, n)
  <2>1. CallsIn(s, n + 1) = t.nCcalls
    BY <1>1, <1>2
  <2>2. u.nCcalls = IF s[n + 1].kind = "call" THEN t.nCcalls - 1 ELSE t.nCcalls
    BY <1>2
  <2> HIDE DEF s, r, t, u
  <2> QED BY <1>5, <2>1, <2>2
<1>7. u.errfunc = Nearest(r, th, n)
  <2>1. s[n + 1].kind = "pcall" => s[n + 1].old_errfunc = Nearest(s, th, n)
    <3>1. n + 1 \in 1 .. Len(s) /\ (n + 1) - 1 = n
      BY <1>2
    <3> QED BY <1>1, <1>3, <3>1 DEF Accounts, Handled
  <2> QED BY <1>1, <1>2, <1>5, <2>1
<1>8. Fits(th, t, s, Len(t.stack)) /\ Len(t.stack) \in Nat /\ Len(t.stack) <= Len(t.stack)
  BY <1>1, ThreadFields DEF Accounts
<1>9. KeepsFrames(t, u, s, r, th, n, Len(t.stack))
  <2>1. /\ Depth(s, th, n) = Len(t.ci) /\ Depth(r, th, Len(r)) = Len(t.ci)
        /\ u.nCcalls = CallsIn(r, Len(r)) /\ u.errfunc = Nearest(r, th, Len(r))
    BY <1>1, <1>2, <1>5, <1>6, <1>7
  <2>2. /\ u.stack = t.stack /\ u.ci = t.ci /\ u.open \subseteq t.open /\ u.baseCcalls = t.baseCcalls
    OBVIOUS
  <2> HIDE DEF s, r, t, u
  <2> QED BY <1>8, <2>1, <2>2 DEF KeepsFrames
<1>10. Len(r) # n + 1
  BY <1>2
<1> QED BY <1>2, <1>4, <1>9, <1>10, FramesKept

Activates(m, p, th, a, top) ==
  /\ p \in Machine /\ Apart(m, p, th)
  /\ a \in Activation /\ p.cs = Append(m.cs, a)
  /\ a.th = th /\ a.kind \in {"call", "errormsg", "pcall"}
  /\ IF m.cs = <<>> THEN a.kind = "pcall" ELSE <<Last(m.cs).kind, a.kind>> \in Stands
  /\ p.thread[th].stack = m.thread[th].stack
  /\ p.thread[th].ci = m.thread[th].ci /\ p.thread[th].open = m.thread[th].open
  /\ p.thread[th].baseCcalls = m.thread[th].baseCcalls
  /\ p.thread[th].nCcalls
       = IF a.kind = "call" THEN m.thread[th].nCcalls + 1 ELSE m.thread[th].nCcalls
  /\ p.thread[th].errfunc = IF a.kind = "pcall" THEN a.ef ELSE m.thread[th].errfunc
  /\ top \in 0 .. Len(m.thread[th].stack) /\ Fits(th, m.thread[th], m.cs, top)
  /\ a.kind = "pcall" =>
       /\ a.oldnCcalls = m.thread[th].nCcalls /\ a.old_ci = Len(m.thread[th].ci)
       /\ a.old_errfunc = m.thread[th].errfunc /\ a.old_top = top + 1
       /\ a.ef < a.old_top /\ (a.ef # 0 => m.thread[th].stack[a.ef] = "H")

(* A luaD_call, luaD_pcall or handler that begins, remembering what it     *)
(* must put back, keeps the accounts.                                      *)
LEMMA ActivateStep ==
  ASSUME NEW m, NEW th, At(m, th), NEW p, NEW a, NEW top, Activates(m, p, th, a, top)
  PROVE  Does(m, p, th) /\ Fits(th, p.thread[th], p.cs, top)
<1> USE DEF Activates
<1> DEFINE s == m.cs
           r == p.cs
           t == m.thread[th]
           u == p.thread[th]
           n == Len(s)
<1>1. /\ m \in Machine /\ s \in Seq(Activation) /\ Stacked(s) /\ OnTop(s, th) /\ t \in ThreadState
      /\ t.nCcalls = CallsIn(s, n) /\ t.errfunc = Nearest(s, th, n)
      /\ Len(t.ci) = Depth(s, th, n) /\ Accounts(th, t, s)
  BY TopIs
<1>2. /\ n \in Nat /\ n \in 0 .. Len(s) /\ Len(r) = n + 1 /\ r \in Seq(Activation)
      /\ r[n + 1] = a /\ \A j \in 1 .. n : r[j] = s[j]
  <2>1. r = Append(s, a)
    OBVIOUS
  <2> HIDE DEF s, r
  <2> QED BY <1>1, <2>1
<1>3. Stacked(r)
  <2>1. CASE s = <<>>
    <3>1. r = <<a>> /\ a.kind = "pcall" /\ a.th = Main
      BY <1>1, <2>1 DEF OnTop
    <3> QED BY <3>1, StackedBegins
  <2>2. CASE s # <<>>
    <3>1. /\ s[Len(s)] = Last(s) /\ a.th = s[Len(s)].th /\ a.kind # "resume"
          /\ <<s[Len(s)].kind, a.kind>> \in Stands /\ r = Append(s, a)
      BY <1>1, <2>2 DEF OnTop, Last
    <3> HIDE DEF s, r
    <3> QED BY <1>1, <2>2, <3>1, StackedMore
  <2> QED BY <2>1, <2>2
<1>4. KeepsStack(m, p, th, n)
  <2>1. LeavesOnTop(th, r, n)
    BY <1>2 DEF LeavesOnTop
  <2>2. n <= Len(r) /\ \A j \in n + 1 .. Len(s) : s[j].th = th
    BY <1>2
  <2> QED BY <1>2, <2>1, <2>2 DEF KeepsStack
<1>5. OneOver(s, r, th, n)
  <2>1. Len(r) = n + 1 /\ \A j \in 1 .. n : r[j] = s[j]
    BY <1>2
  <2> HIDE DEF s, r, n
  <2> QED BY <1>1, <1>2, <2>1, OneMoreActivation
<1>6. Size(a) = 0
  BY DEF Size
<1>7. /\ CallsIn(r, n + 1) = CallsIn(s, n) + (IF a.kind = "call" THEN 1 ELSE 0)
      /\ CallsIn(s, n) \in Nat /\ Depth(s, th, n) \in Nat
      /\ Depth(r, th, n + 1) = Depth(s, th, n) /\ Nearest(r, th, n) = Nearest(s, th, n)
      /\ Nearest(r, th, n + 1) = IF a.kind = "pcall" THEN a.ef ELSE Nearest(s, th, n)
  BY <1>2, <1>5, <1>6 DEF OneOver
<1>8. u.nCcalls = CallsIn(r, Len(r)) /\ u.errfunc = Nearest(r, th, Len(r))
  <2>1. u.nCcalls = IF a.kind = "call" THEN t.nCcalls + 1 ELSE t.nCcalls
    OBVIOUS
  <2>2. u.errfunc = IF a.kind = "pcall" THEN a.ef ELSE t.errfunc
    OBVIOUS
  <2> HIDE DEF s, r, t, u, n
  <2> QED BY <1>1, <1>2, <1>7, <2>1, <2>2
<1>9. /\ KeepsFrames(t, u, s, r, th, n, top)
      /\ top \in Nat /\ Len(t.stack) \in Nat /\ u.stack = t.stack /\ u.ci = t.ci
  <2>1. Depth(s, th, n) = Len(t.ci) /\ Depth(r, th, Len(r)) = Len(t.ci)
    BY <1>1, <1>2, <1>7
  <2>2. Len(t.stack) \in Nat
    BY <1>1, ThreadFields
  <2>3. /\ u.stack = t.stack /\ u.ci = t.ci /\ u.open \subseteq t.open /\ u.baseCcalls = t.baseCcalls
        /\ Fits(th, t, s, top) /\ top \in 0 .. Len(t.stack)
    OBVIOUS
  <2> HIDE DEF s, r, t, u
  <2> QED BY <1>8, <2>1, <2>2, <2>3 DEF KeepsFrames
<1>10. ASSUME a.kind = "pcall" PROVE SavesCall(t, u, th, r, n, top)
  <2>1. /\ a.oldnCcalls = t.nCcalls /\ a.old_ci = Len(t.ci)
        /\ a.old_errfunc = t.errfunc /\ a.old_top = top + 1
        /\ a.ef < a.old_top /\ (a.ef # 0 => t.stack[a.ef] = "H")
        /\ top \in 0 .. Len(t.stack)
    BY <1>10
  <2> HIDE DEF s, r, t, u, n
  <2> QED BY <1>1, <1>2, <1>7, <1>9, <1>10, <2>1 DEF SavesCall
<1>11. Does(m, p, th) /\ SameFrames(t, u)
  <2>1. Len(r) = n + 1 /\ r[n + 1].kind = "pcall" => SavesCall(t, u, th, r, n, top)
    <3> HIDE DEF s, r, t, u, n
    <3> QED BY <1>2, <1>10
  <2> HIDE DEF n
  <2> QED BY <1>3, <1>4, <1>9, <2>1, FramesKept
<1>12. Fits(th, u, r, top)
  <2>1. \A k \in 1 .. Len(u.ci) : Needs(u, k) <= top
    BY <1>9, <1>11 DEF Fits, SameFrames
  <2>2. ASSUME NEW i \in 1 .. Len(r), r[i].th = th, r[i].kind = "pcall"
        PROVE  r[i].old_top <= top + 1
    <3>1. CASE i = n + 1
      BY <1>2, <1>9, <2>2, <3>1
    <3>2. CASE i \in 1 .. n
      BY <1>2, <2>2, <3>2 DEF Fits
    <3> QED BY <1>2, <3>1, <3>2
  <2> QED BY <2>1, <2>2 DEF Fits
<1> QED BY <1>11, <1>12
-----------------------------------------------------------------------------
(* luaD_precall.                                                           *)
Broken(p, th) ==
  \/ p.mode = "ERRERR"
  \/ p.mode = "raise" /\ Fits(th, p.thread[th], p.cs, Len(p.thread[th].stack) - 1)

(* Growing the array of frames keeps the accounts, whether it succeeds or  *)
(* is stopped at LUAI_MAXCALLS.                                            *)
LEMMA IncStep ==
  ASSUME NEW m, NEW th, At(m, th), m.mode = "run", NEW p, p = inc_ci(m, th)
  PROVE  /\ Does(m, p, th) /\ p.cs = m.cs
         /\ Broken(p, th) \/ (p.mode = "run" /\ Restacked(m.thread[th], p.thread[th], m.thread[th].stack))
<1> DEFINE t == m.thread[th]
           u == [t EXCEPT !.size_ci = 2 * @]
           grown == Made(m, th, u, m.cs, m.mode)
<1>1. /\ m \in Machine /\ th \in Threads /\ t \in ThreadState /\ m.cs \in Seq(Activation)
      /\ m.mode \in Modes /\ Fits(th, t, m.cs, Len(t.stack)) /\ Len(t.stack) \in Nat
  BY TopIs, ThreadFields DEF Machine, Accounts
<1>2. Restacked(t, t, t.stack) /\ Does(m, m, th)
  BY DEF Restacked, Rest, Does, Apart
<1>3. u \in ThreadState /\ Restacked(t, u, t.stack)
  <2>1. 2 * t.size_ci \in Nat
    BY <1>1, ThreadFields
  <2> HIDE DEF t
  <2> QED BY <1>1, <2>1 DEF ThreadState, Restacked, Rest
<1> HIDE DEF u
<1>4. /\ grown \in Machine /\ grown.thread[th] = u /\ grown.cs = m.cs /\ grown.mode = "run"
      /\ Apart(m, grown, th)
  BY <1>1, <1>3, MadeIs DEF Apart, Restacked, Rest
<1>5. growCI(m, th) = IF t.size_ci > MAXCALLS THEN Doing(m, "ERRERR")
                      ELSE IF 2 * t.size_ci > MAXCALLS THEN Raise(grown, th)
                      ELSE grown
  <2>1. [m EXCEPT !.thread[th].size_ci = 2 * @] = grown
    BY <1>1, Fields, Zenon DEF Made, u
  <2> QED BY <2>1, Zenon DEF growCI
<1> HIDE DEF grown
<1>6. Does(m, grown, th)
  BY <1>1, <1>3, <1>4, StackStep DEF Restacked, Rest
<1>7. CASE p = m
  BY <1>2, <1>7
<1>8. CASE p = Doing(m, "ERRERR")
  <2>1. "ERRERR" \in Modes
    BY DEF Modes, Errors
  <2> QED BY <1>8, <2>1, DoingStep DEF Broken
<1>9. CASE p = Raise(grown, th)
  <2>1. At(grown, th)
    BY <1>6 DEF Does
  <2>2. /\ Does(grown, p, th) /\ p.cs = grown.cs /\ p.mode = "raise"
        /\ Fits(th, p.thread[th], p.cs, Len(p.thread[th].stack) - 1)
    BY <1>9, <2>1, RaiseStep
  <2>3. Does(m, p, th)
    BY <1>6, <2>2, DoesMore
  <2> QED BY <1>4, <2>2, <2>3 DEF Broken
<1>10. CASE p = grown
  BY <1>3, <1>4, <1>6, <1>10
<1> QED BY <1>5, <1>7, <1>8, <1>9, <1>10 DEF inc_ci

(* A frame over those there are, run by a C function or by luaV_execute.   *)
Entered(t, u, func) ==
  /\ u \in ThreadState /\ Rest(t, u)
  /\ Len(u.ci) = Len(t.ci) + 1 /\ \A k \in 1 .. Len(t.ci) : u.ci[k] = t.ci[k]
  /\ u.ci[Len(t.ci) + 1].func = func
  /\ func \in 1 .. Len(u.stack) /\ \A j \in 1 .. func : u.stack[j] = t.stack[j]

EntersStack(s, r, th, n) ==
  /\ Len(r) = n + 1 /\ r[n + 1].th = th /\ r[n + 1].kind \in {"execute", "cfun"}
  /\ Depth(r, th, n + 1) = Depth(s, th, Len(s)) + 1
  /\ CallsIn(r, n + 1) = CallsIn(s, Len(s)) /\ Nearest(r, th, n + 1) = Nearest(s, th, Len(s))
  /\ n # Len(s) => n + 1 = Len(s) /\ s[n + 1].kind = "execute" /\ r[n + 1].kind = "execute"

(* A frame that is added over the others for what now runs it keeps the    *)
(* accounts.                                                               *)
LEMMA EnterStep ==
  ASSUME NEW m, NEW th, At(m, th), NEW p \in Machine, Stacked(p.cs), Apart(m, p, th),
         NEW n, KeepsStack(m, p, th, n), EntersStack(m.cs, p.cs, th, n),
         NEW func, Entered(m.thread[th], p.thread[th], func),
         Fits(th, m.thread[th], m.cs, func - 1),
         p.thread[th].stack[func] \in LuaFunctions <=> p.cs[n + 1].kind = "execute",
         p.cs[n + 1].kind = "execute" => func + 1 <= Len(p.thread[th].stack)
  PROVE  Does(m, p, th)
<1> DEFINE s == m.cs
           r == p.cs
           t == m.thread[th]
           u == p.thread[th]
           c == Len(t.ci)
           top == func - 1
<1>1. /\ m \in Machine /\ th \in Threads /\ t \in ThreadState /\ s \in Seq(Activation)
      /\ t.status = "0" /\ Accounts(th, t, s) /\ t.nCcalls = CallsIn(s, Len(s))
      /\ t.errfunc = Nearest(s, th, Len(s)) /\ c = Depth(s, th, Len(s))
  BY TopIs
<1>2. u \in ThreadState /\ r \in Seq(Activation)
  BY <1>1 DEF Machine
<1>3. /\ n \in 0 .. Len(s) /\ n <= Len(r) /\ \A j \in 1 .. n : r[j] = s[j]
      /\ \A j \in n + 1 .. Len(s) : s[j].th = th
      /\ LeavesOnTop(th, r, n)
  BY DEF KeepsStack
<1>4. /\ Len(r) = n + 1 /\ r[n + 1].th = th /\ r[n + 1].kind \in {"execute", "cfun"}
      /\ Depth(r, th, n + 1) = c + 1
      /\ CallsIn(r, n + 1) = t.nCcalls /\ Nearest(r, th, n + 1) = t.errfunc
      /\ n # Len(s) => n + 1 = Len(s) /\ s[n + 1].kind = "execute" /\ r[n + 1].kind = "execute"
  BY <1>1 DEF EntersStack
<1>5. /\ Rest(t, u) /\ Len(u.ci) = c + 1 /\ \A k \in 1 .. c : u.ci[k] = t.ci[k]
      /\ u.ci[c + 1].func = func
      /\ func \in 1 .. Len(u.stack) /\ \A j \in 1 .. func : u.stack[j] = t.stack[j]
  BY DEF Entered
<1>6. /\ n \in Nat /\ Len(s) \in Nat /\ c \in Nat /\ top \in Nat /\ Len(u.stack) \in Nat
      /\ top + 1 = func /\ top < func /\ func \in Nat
  <2>1. n \in Nat /\ Len(s) \in Nat /\ c \in Nat /\ Len(u.stack) \in Nat
    BY <1>1, <1>2, <1>3, ThreadFields
  <2>2. func \in 1 .. Len(u.stack)
    BY <1>5
  <2> HIDE DEF s, r, t, u, c
  <2>3. func \in Nat \ {0}
    BY <2>1, <2>2
  <2> QED BY <2>1, <2>3
<1>7. Depth(s, th, n) \in Nat /\ Depth(s, th, n) <= c /\ Depth(r, th, n) = Depth(s, th, n)
  <2>1. n \in 0 .. Len(s) /\ Len(s) \in 0 .. Len(s) /\ n \in 0 .. Len(s) /\ n \in Nat
    BY <1>3, <1>6
  <2>2. Depth(s, th, n) \in Nat
    BY <1>1, <2>1, DepthStep
  <2>3. Depth(s, th, n) <= Depth(s, th, Len(s))
    BY <1>1, <2>1, DepthGrows
  <2>4. \A j \in 1 .. n : r[j] = s[j]
    BY <1>3
  <2> HIDE DEF s, r, c
  <2>5. Depth(r, th, n) = Depth(s, th, n)
    BY <2>1, <2>4, SamePart
  <2> QED BY <1>1, <2>2, <2>3, <2>5
<1> HIDE DEF top
<1>8. Keeps(th, t, u, s, n, c, top)
  <2>1. u.status = "0" /\ u.baseCcalls = t.baseCcalls
    BY <1>1, <1>5 DEF Rest
  <2>2. \A k \in 1 .. c : Needs(t, k) <= top
    BY DEF Fits, top
  <2>3. \A i \in 1 .. n : s[i].th = th /\ s[i].kind = "pcall" => s[i].old_top <= top + 1
    <3>1. \A i \in 1 .. n : i \in 1 .. Len(s)
      BY <1>3, <1>6
    <3> QED BY <3>1 DEF Fits, top
  <2>4. c <= Len(t.ci) /\ c <= Len(u.ci) /\ top <= Len(u.stack)
    <3>1. Len(u.ci) = c + 1 /\ func \in 1 .. Len(u.stack)
      BY <1>5
    <3>2. c <= Len(t.ci)
      BY <1>6
    <3> HIDE DEF s, r, t, u, c
    <3> QED BY <1>6, <3>1, <3>2
  <2>5. \A j \in 1 .. top : u.stack[j] = t.stack[j]
    <3>1. \A j \in 1 .. top : j \in 1 .. func
      BY <1>6
    <3> QED BY <1>5, <3>1
  <2> QED BY <1>1, <1>5, <1>7, <2>1, <2>2, <2>3, <2>4, <2>5 DEF Keeps
<1>9. \A k \in 1 .. c : /\ RunsLua(u, k) <=> RunsLua(t, k)
                        /\ u.ci[k].func = t.ci[k].func
  <2>1. LaidOut(th, t, s)
    BY <1>1 DEF Accounts
  <2> HIDE DEF s, r, t, u, c
  <2> QED BY <1>1, <1>2, <1>6, <1>8, <2>1, FramesStay
<1>10. RunsLua(u, c + 1) <=> r[n + 1].kind = "execute"
  BY <1>5 DEF RunsLua
<1>11. Captured(u)
  <2>1. Captured(t)
    BY <1>1 DEF Accounts
  <2>2. u.open = t.open
    BY <1>5 DEF Rest
  <2>3. ASSUME NEW i \in u.open
        PROVE  \E k \in 2 .. c + 1 : u.ci[k].func = i - 1 /\ RunsLua(u, k)
    <3> HIDE DEF s, r, t, u
    <3>1. PICK k \in 2 .. c : t.ci[k].func = i - 1 /\ RunsLua(t, k)
      BY <2>1, <2>2, <2>3 DEF Captured
    <3>2. k \in 1 .. c /\ k \in 2 .. c + 1
      BY <1>6
    <3> HIDE DEF c
    <3> QED BY <1>9, <3>1, <3>2
  <2> QED BY <1>5, <2>3 DEF Captured
<1>12. LeavesFrames(th, u, r, n, c, top)
  <2>1. ASSUME NEW k \in c + 1 .. Len(u.ci)
        PROVE  top < u.ci[k].func /\ Needs(u, k) <= Len(u.stack)
    <3>1. k = c + 1
      BY <1>5, <1>6
    <3> HIDE DEF c, u, t
    <3>2. Needs(u, k) \in {func, func + 1} /\ (Needs(u, k) = func + 1 => RunsLua(u, k))
      BY <1>5, <1>6, <3>1 DEF Needs
    <3>3. Needs(u, k) <= Len(u.stack)
      BY <1>5, <1>6, <1>10, <3>1, <3>2 DEF u, r
    <3> QED BY <1>5, <1>6, <3>1, <3>3
  <2>2. ASSUME NEW k \in Depth(r, th, n) + 1 .. Len(u.ci)
        PROVE  RunsLua(u, k) <=> r[n + 1].kind = "execute"
    <3>1. k \in 1 .. c \/ k = c + 1
      <4>1. Len(u.ci) = c + 1 /\ k \in Depth(s, th, n) + 1 .. Len(u.ci)
        BY <1>5, <1>7
      <4> HIDE DEF s, r, t, u, c
      <4> QED BY <1>6, <1>7, <4>1
    <3>2. CASE k = c + 1
      BY <1>10, <3>2
    <3>3. CASE k \in 1 .. c
      <4>1. n # Len(s)
        BY <1>1, <1>7, <3>3
      <4>2. /\ n + 1 \in 1 .. Len(s) /\ s[n + 1].kind = "execute" /\ r[n + 1].kind = "execute"
            /\ (n + 1) - 1 = n /\ n + 1 = Len(s)
        BY <1>4, <1>6, <4>1
      <4>3. k \in Depth(s, th, (n + 1) - 1) + 1 .. Depth(s, th, n + 1)
        BY <1>1, <1>7, <3>3, <4>2
      <4>4. RunsLua(t, k)
        BY <1>1, <4>2, <4>3 DEF Accounts, Framed
      <4> QED BY <1>9, <3>3, <4>2, <4>4
    <3> QED BY <3>1, <3>2, <3>3
  <2>3. Len(u.ci) = Depth(r, th, Len(r)) /\ Len(u.ci) <= c + 1
    BY <1>4, <1>5, <1>6
  <2> QED BY <1>11, <2>1, <2>2, <2>3 DEF LeavesFrames
<1>13. Leaves(th, u, r, n, c, top)
  <2>1. u.nCcalls = t.nCcalls /\ u.errfunc = t.errfunc
    BY <1>5 DEF Rest
  <2> QED BY <1>3, <1>4, <1>12, <2>1 DEF Leaves
<1> QED BY <1>3, <1>6, <1>8, <1>13, StepDoes

PutOn(m, p, th, a) ==
  /\ a \in Activation /\ p.cs = Append(m.cs, a) /\ m.cs # <<>>
  /\ a.th = th /\ a.kind \in {"execute", "cfun"} /\ Size(a) = 1
  /\ <<Last(m.cs).kind, a.kind>> \in Stands

(* One luaV_execute or C function more is a C stack with one frame more.   *)
LEMMA ActivationOver ==
  ASSUME NEW m, NEW th, At(m, th), NEW p, NEW a, PutOn(m, p, th, a)
  PROVE  /\ p.cs \in Seq(Activation) /\ Stacked(p.cs) /\ p.cs[Len(m.cs) + 1] = a
         /\ KeepsStack(m, p, th, Len(m.cs)) /\ EntersStack(m.cs, p.cs, th, Len(m.cs))
<1> USE DEF PutOn
<1> DEFINE s == m.cs
           r == p.cs
           n == Len(s)
<1>1. s \in Seq(Activation) /\ Stacked(s) /\ OnTop(s, th)
  BY TopIs
<1>2. /\ n \in Nat \ {0} /\ n \in 0 .. Len(s) /\ Len(r) = n + 1 /\ r \in Seq(Activation)
      /\ r[n + 1] = a /\ \A j \in 1 .. n : r[j] = s[j]
  <2>1. r = Append(s, a) /\ s # <<>>
    OBVIOUS
  <2> HIDE DEF s, r
  <2> QED BY <1>1, <2>1
<1>3. Stacked(r)
  <2>1. /\ s[Len(s)] = Last(s) /\ a.th = s[Len(s)].th /\ a.kind # "resume"
        /\ <<s[Len(s)].kind, a.kind>> \in Stands /\ r = Append(s, a)
    BY <1>1 DEF OnTop, Last
  <2> HIDE DEF s, r
  <2> QED BY <1>1, <1>2, <2>1, StackedMore
<1>4. OneOver(s, r, th, n)
  <2>1. Len(r) = n + 1 /\ \A j \in 1 .. n : r[j] = s[j]
    BY <1>2
  <2> HIDE DEF s, r, n
  <2> QED BY <1>1, <1>2, <2>1, OneMoreActivation
<1>5. KeepsStack(m, p, th, n)
  <2>1. LeavesOnTop(th, r, n)
    BY <1>2 DEF LeavesOnTop
  <2>2. n <= Len(r) /\ \A j \in n + 1 .. Len(s) : s[j].th = th
    BY <1>2
  <2> QED BY <1>2, <2>1, <2>2 DEF KeepsStack
<1>6. EntersStack(s, r, th, n)
  <2>1. r[n + 1].kind \notin {"call", "resume", "pcall"} /\ r[n + 1].th = th
    BY <1>2
  <2>2. CallsIn(r, n + 1) = CallsIn(s, n) + 0 /\ CallsIn(s, n) \in Nat
    BY <1>4, <2>1 DEF OneOver
  <2>3. Depth(r, th, n + 1) = Depth(s, th, n) + 1
    BY <1>2, <1>4, <2>1 DEF OneOver
  <2>4. Nearest(r, th, n + 1) = Nearest(s, th, n)
    BY <1>4, <2>1 DEF OneOver
  <2> QED BY <1>2, <2>2, <2>3, <2>4 DEF EntersStack
<1> QED BY <1>2, <1>3, <1>5, <1>6

Refused(m, p, th) == Does(m, p, th) /\ p.cs = m.cs /\ Broken(p, th)

CallsC(m, p, th, func) ==
  /\ Does(m, p, th) /\ p.mode = "run"
  /\ p.cs = Append(m.cs, Cfunction(th, m.thread[th].stack[func]))

CallsLua(m, p, th, func) ==
  /\ p \in Machine /\ p.cs = m.cs /\ p.mode = "lua" /\ Apart(m, p, th)
  /\ Entered(m.thread[th], p.thread[th], func)
  /\ p.thread[th].stack[func] \in LuaFunctions /\ Len(p.thread[th].stack) = func + 1

(* A thread that gets a frame.                                             *)
LEMMA FrameAdded ==
  ASSUME NEW t \in ThreadState, NEW func \in Nat, NEW wanted \in Int,
         NEW u, u = [t EXCEPT !.ci = Append(@, [func |-> func, wanted |-> wanted])]
  PROVE  /\ u \in ThreadState /\ Rest(t, u) /\ u.stack = t.stack
         /\ Len(u.ci) = Len(t.ci) + 1 /\ \A k \in 1 .. Len(t.ci) : u.ci[k] = t.ci[k]
         /\ u.ci[Len(t.ci) + 1].func = func
<1> DEFINE frame == [func |-> func, wanted |-> wanted]
           ci == t.ci
<1>1. frame \in Frame /\ frame.func = func
  BY DEF Frame
<1>2. ci \in Seq(Frame)
  BY DEF ThreadState
<1> HIDE DEF frame
<1>3. u \in ThreadState /\ Rest(t, u) /\ u.stack = t.stack /\ u.ci = Append(ci, frame)
  <2>1. Append(ci, frame) \in Seq(Frame)
    <3> HIDE DEF ci
    <3> QED BY <1>1, <1>2
  <2>2. u = [t EXCEPT !.ci = Append(ci, frame)]
    BY DEF frame
  <2> HIDE DEF ci
  <2>3. PICK x \in Seq(Frame) : x = Append(ci, frame) /\ u = [t EXCEPT !.ci = x]
    BY <2>1, <2>2
  <2>4. u \in ThreadState /\ Rest(t, u) /\ u.stack = t.stack /\ u.ci = x
    BY <2>3 DEF ThreadState, Rest
  <2> QED BY <2>3, <2>4
<1>4. /\ Len(Append(ci, frame)) = Len(ci) + 1 /\ \A k \in 1 .. Len(ci) : Append(ci, frame)[k] = ci[k]
      /\ Append(ci, frame)[Len(ci) + 1] = frame
  <2> HIDE DEF ci
  <2> QED BY <1>1, <1>2
<1> QED BY <1>1, <1>3, <1>4

(* luaD_precall is refused a frame, starts a C function, or leaves a Lua   *)
(* function entered that nothing runs yet.                                 *)
LEMMA PrecallStep ==
  ASSUME NEW m, NEW th, At(m, th), NEW func \in 1 .. Len(m.thread[th].stack),
         Fits(th, m.thread[th], m.cs, func - 1), NEW wanted \in Int,
         m.cs # <<>>,
         m.thread[th].stack[func] \in LuaFunctions \/ Last(m.cs).kind \in {"call", "execute"},
         NEW p, p = luaD_precall(m, th, func, wanted)
  PROVE  Refused(m, p, th) \/ CallsC(m, p, th, func) \/ CallsLua(m, p, th, func)
<1> DEFINE t == m.thread[th]
           f == t.stack[func]
           q == Doing(m, "run")
           grown == inc_ci(q, th)
           v == grown.thread[th]
           u == [v EXCEPT !.ci = Append(@, [func |-> func, wanted |-> wanted])]
           entered == Made(grown, th, u, grown.cs, grown.mode)
<1>1. /\ m \in Machine /\ th \in Threads /\ t \in ThreadState /\ m.cs \in Seq(Activation)
      /\ Len(t.stack) \in Nat /\ f \in Value /\ func \in Nat /\ "run" \in Modes /\ "lua" \in Modes
  <2>1. t \in ThreadState /\ m \in Machine /\ th \in Threads /\ m.cs \in Seq(Activation)
    BY TopIs
  <2>2. Len(t.stack) \in Nat /\ f \in Value
    BY <2>1, ThreadFields
  <2> QED BY <2>1, <2>2 DEF Modes
<1>2. Does(m, q, th) /\ q.cs = m.cs /\ q.mode = "run" /\ q.thread = m.thread /\ At(q, th)
  <2> HIDE DEF q
  <2>1. q = Doing(m, "run")
    BY DEF q
  <2>2. Does(m, q, th) /\ q.cs = m.cs /\ q.mode = "run" /\ q.thread = m.thread
    BY <1>1, <2>1, DoingStep
  <2> QED BY <2>2 DEF Does
<1> HIDE DEF q
<1>3. /\ Does(q, grown, th) /\ grown.cs = q.cs
      /\ Broken(grown, th) \/ (grown.mode = "run" /\ Restacked(t, v, t.stack))
  BY <1>2, IncStep
<1>4. p = IF grown.mode # "run" THEN grown
          ELSE IF f \in LuaFunctions THEN Doing(Push(Cut(entered, th, func), th, <<Nil>>), "lua")
          ELSE Activate(entered, Cfunction(th, f))
  <2>1. grown \in Machine
    BY <1>3 DEF Does, At, Good
  <2> HIDE DEF grown
  <2>2. [grown EXCEPT !.thread[th].ci = Append(@, [func |-> func, wanted |-> wanted])] = entered
    BY <2>1, Fields, Zenon DEF Made
  <2> HIDE DEF entered
  <2> QED BY <2>2, Zenon DEF luaD_precall, grown, q
<1> HIDE DEF grown
<1>5. CASE grown.mode # "run"
  <2>1. p = grown /\ Broken(grown, th)
    BY <1>3, <1>4, <1>5
  <2>2. Does(m, p, th)
    BY <1>2, <1>3, <2>1, DoesMore
  <2> QED BY <1>2, <1>3, <2>1, <2>2 DEF Refused
<1>6. CASE grown.mode = "run"
  <2>1. Does(m, grown, th) /\ At(grown, th) /\ grown.cs = m.cs
    <3>1. Does(m, grown, th)
      BY <1>2, <1>3, DoesMore
    <3> QED BY <1>2, <1>3, <3>1 DEF Does
  <2>2. grown \in Machine /\ v \in ThreadState
    BY <2>1, TopIs
  <2>3. v.stack = t.stack /\ v.ci = t.ci /\ Rest(t, v)
    BY <1>3, <1>6 DEF Restacked, Broken
  <2>4. /\ u \in ThreadState /\ Rest(v, u) /\ u.stack = v.stack
        /\ Len(u.ci) = Len(v.ci) + 1 /\ \A k \in 1 .. Len(v.ci) : u.ci[k] = v.ci[k]
        /\ u.ci[Len(v.ci) + 1].func = func
    BY <1>1, <2>2, FrameAdded
  <2> HIDE DEF u, v
  <2>5. /\ entered \in Machine /\ entered.thread[th] = u /\ entered.cs = m.cs
        /\ Apart(grown, entered, th) /\ entered.mode = "run"
    BY <1>1, <1>6, <2>1, <2>2, <2>4, MadeIs DEF Apart, Rest, v
  <2> HIDE DEF entered
  <2>6. Apart(m, entered, th)
    BY <2>1, <2>5 DEF Apart, Does
  <2>7. CASE f \in LuaFunctions
    <3> DEFINE registers == <<Nil>>
               m1 == Cut(entered, th, func)
               m2 == Push(m1, th, registers)
    <3>1. p = Doing(m2, "lua")
      BY <1>4, <1>6, <2>7
    <3>2. registers \in Seq(Value) /\ Len(registers) = 1
      <4>1. Nil \in Value
        BY DEF Value
      <4> QED BY <4>1
    <3> HIDE DEF registers
    <3>3. /\ Alters(entered, m1, th) /\ m1.cs = m.cs
          /\ Restacked(u, m1.thread[th], SubSeq(u.stack, 1, func))
      <4>1. func \in 0 .. Len(entered.thread[th].stack)
        BY <1>1, <2>3, <2>4, <2>5
      <4> QED BY <1>1, <2>5, <4>1, CutMade
    <3> HIDE DEF m1
    <3>4. /\ Alters(m1, m2, th) /\ m2.cs = m.cs
          /\ Restacked(m1.thread[th], m2.thread[th], m1.thread[th].stack \o registers)
      BY <1>1, <3>2, <3>3, PushMade DEF Alters
    <3> HIDE DEF m2
    <3>5. Alters(m2, p, th) /\ p.cs = m.cs /\ p.mode = "lua" /\ p.thread = m2.thread
      BY <1>1, <3>1, <3>4, OtherwiseMade DEF Alters
    <3>6. Apart(m, p, th) /\ p \in Machine
      BY <2>6, <3>3, <3>4, <3>5 DEF Apart, Alters
    <3> DEFINE st == m1.thread[th].stack
               st2 == p.thread[th].stack
    <3>7. /\ Len(st2) = func + 1 /\ \A j \in 1 .. func : st2[j] = u.stack[j]
      <4>1. u.stack \in Seq(Value) /\ func \in 0 .. Len(u.stack) /\ st = SubSeq(u.stack, 1, func)
        BY <1>1, <2>3, <2>4, <3>3 DEF ThreadState, Restacked
      <4>2. st \in Seq(Value) /\ Len(st) = func /\ Prefix(u.stack, st, func)
        <5> HIDE DEF st
        <5> QED BY <4>1, CutShort
      <4>3. st2 = st \o registers
        BY <3>4, <3>5 DEF Restacked
      <4> HIDE DEF st, st2
      <4>4. Len(st2) = Len(st) + 1 /\ Prefix(st, st2, Len(st))
        <5>1. Len(st2) = Len(st) + Len(registers) /\ Prefix(st, st2, Len(st))
          BY <3>2, <4>2, <4>3, PushedOn
        <5> QED BY <3>2, <5>1
      <4> QED BY <1>1, <4>2, <4>4 DEF Prefix
    <3> HIDE DEF st, st2
    <3>14. Entered(t, p.thread[th], func)
      <4>0. p.thread[th] \in ThreadState
        BY <1>1, <3>6 DEF Machine
      <4>1. Rest(t, p.thread[th]) /\ p.thread[th].ci = u.ci
        BY <2>3, <2>4, <3>3, <3>4, <3>5 DEF Rest, Restacked
      <4>2. \A j \in 1 .. func : p.thread[th].stack[j] = t.stack[j]
        BY <2>3, <2>4, <3>7 DEF st2
      <4>3. func \in 1 .. Len(p.thread[th].stack)
        BY <1>1, <3>7 DEF st2
      <4> QED BY <2>3, <2>4, <4>0, <4>1, <4>2, <4>3 DEF Entered
    <3>15. p.thread[th].stack[func] = f
      <4>1. func \in 1 .. func
        BY <1>1
      <4> QED BY <3>14, <4>1 DEF Entered
    <3>16. CallsLua(m, p, th, func)
      BY <2>7, <3>5, <3>6, <3>7, <3>14, <3>15 DEF CallsLua, st2
    <3> QED BY <3>16
  <2>8. CASE f \notin LuaFunctions
    <3> DEFINE a == Cfunction(th, f)
    <3>1. p = Activate(entered, a)
      BY <1>4, <1>6, <2>8
    <3>2. /\ a \in Activation /\ a.th = th /\ a.kind = "cfun" /\ Size(a) = 1
      BY <1>1 DEF Cfunction, Activation, Size
    <3> HIDE DEF a
    <3>5. /\ p \in Machine /\ p.thread[th] = u /\ p.cs = Append(m.cs, a) /\ p.mode = "run"
          /\ Apart(entered, p, th)
      BY <1>1, <2>5, <3>1, <3>2, OtherwiseMade DEF Alters
    <3>6. Apart(m, p, th)
      BY <2>6, <3>5 DEF Apart
    <3>7. <<Last(m.cs).kind, a.kind>> \in Stands
      BY <2>8, <3>2 DEF Stands
    <3>8. /\ p.cs \in Seq(Activation) /\ Stacked(p.cs) /\ p.cs[Len(m.cs) + 1] = a
          /\ KeepsStack(m, p, th, Len(m.cs)) /\ EntersStack(m.cs, p.cs, th, Len(m.cs))
      <4>1. a \in Activation /\ a.kind \in {"execute", "cfun"} /\ p.cs = Append(m.cs, a)
        BY <3>2, <3>5
      <4> HIDE DEF f, t, q, v
      <4>2. PutOn(m, p, th, a)
        BY <3>2, <3>7, <4>1 DEF PutOn
      <4> QED BY <4>2, ActivationOver
    <3>9. Entered(t, u, func)
      <4>1. Rest(t, u)
        BY <2>3, <2>4 DEF Rest
      <4> QED BY <2>3, <2>4, <4>1 DEF Entered
    <3>10. u.stack[func] \notin LuaFunctions
      BY <2>3, <2>4, <2>8
    <3>11. Does(m, p, th)
      BY <3>2, <3>5, <3>6, <3>8, <3>9, <3>10, EnterStep
    <3>12. CallsC(m, p, th, func)
      BY <3>5, <3>11 DEF CallsC, a
    <3> QED BY <3>12
  <2> QED BY <2>7, <2>8
<1> QED BY <1>5, <1>6
-----------------------------------------------------------------------------
(* luaD_call and luaD_pcall, up to the function's own steps.               *)
Goes(p, th) ==
  /\ p.cs # <<>>
  /\ \/ p.mode = "run" /\ Last(p.cs).kind \in {"execute", "cfun"}
     \/ p.mode = "raise" /\ Last(p.cs).kind \in {"call", "execute", "cfun", "resume"}
          /\ Fits(th, p.thread[th], p.cs, Len(p.thread[th].stack) - 1)
     \/ p.mode \in Errors

(* Activations that run one frame.                                         *)
LEMMA OneFrame ==
  ASSUME NEW th \in Threads
  PROVE  /\ Execute(th, 1) \in Activation /\ Execute(th, 1).kind = "execute"
         /\ Execute(th, 1).th = th /\ Size(Execute(th, 1)) = 1
         /\ \A name \in Value : /\ Cfunction(th, name) \in Activation
                                 /\ Cfunction(th, name).kind = "cfun" /\ Cfunction(th, name).th = th
                                 /\ Size(Cfunction(th, name)) = 1
  BY DEF Execute, Cfunction, Activation, Size

(* What an append puts last.                                               *)
LEMMA LastAppended ==
  ASSUME NEW s \in Seq(Activation), NEW a \in Activation, NEW r, r = Append(s, a)
  PROVE  r \in Seq(Activation) /\ r # <<>> /\ Last(r) = a /\ Front(r) = s /\ Len(r) = Len(s) + 1
<1>1. r \in Seq(Activation) /\ Len(r) = Len(s) + 1 /\ r[Len(s) + 1] = a
  OBVIOUS
<1>2. r # <<>> /\ Last(r) = a
  BY <1>1 DEF Last
<1>3. Front(r) = s
  <2>1. Len(s) \in Nat /\ \A j \in 1 .. Len(s) : r[j] = s[j]
    OBVIOUS
  <2>2. Front(r) = SubSeq(r, 1, Len(s))
    BY <1>1, <2>1 DEF Front
  <2>3. Front(r) \in Seq(Activation) /\ Len(Front(r)) = Len(s) /\ \A j \in 1 .. Len(s) : Front(r)[j] = s[j]
    BY <1>1, <2>1, <2>2, SubSeqProperties
  <2> QED BY <2>3
<1> QED BY <1>1, <1>2, <1>3

CallCounted(m, th, a) == [Activate(m, a) EXCEPT !.thread[th].nCcalls = @ + 1]

CountsCall(m, p, th, a) ==
  /\ Alters(m, p, th) /\ p.cs = Append(m.cs, a) /\ p.mode = m.mode
  /\ p.thread[th].stack = m.thread[th].stack /\ p.thread[th].ci = m.thread[th].ci
  /\ p.thread[th].open = m.thread[th].open
  /\ p.thread[th].baseCcalls = m.thread[th].baseCcalls
  /\ p.thread[th].errfunc = m.thread[th].errfunc
  /\ p.thread[th].nCcalls = m.thread[th].nCcalls + 1

(* luaD_call counts itself in its thread and changes nothing else there.   *)
LEMMA Counting ==
  ASSUME NEW m \in Machine, NEW th \in Threads, NEW a \in Activation,
         NEW p, p = CallCounted(m, th, a)
  PROVE  CountsCall(m, p, th, a)
<1>1. PICK q : q = Activate(m, a)
  OBVIOUS
<1>2. q \in Machine /\ q.cs = Append(m.cs, a) /\ q.mode = m.mode /\ q.thread = m.thread
  BY <1>1, OtherwiseMade DEF Alters
<1> DEFINE t == q.thread[th]
           u == [t EXCEPT !.nCcalls = @ + 1]
<1>3. p = Made(q, th, u, q.cs, q.mode)
  <2>1. p = [q EXCEPT !.thread[th].nCcalls = @ + 1]
    BY <1>1, Zenon DEF CallCounted
  <2> QED BY <1>2, <2>1, Fields, Zenon DEF Made
<1>4. t \in ThreadState /\ t.nCcalls + 1 \in Nat
  <2>1. t \in ThreadState
    BY <1>2 DEF Machine
  <2> QED BY <2>1, ThreadFields
<1>5. /\ u \in ThreadState /\ u.stack = t.stack /\ u.ci = t.ci /\ u.open = t.open
      /\ u.baseCcalls = t.baseCcalls /\ u.errfunc = t.errfunc /\ u.nCcalls = t.nCcalls + 1
      /\ u.status = t.status
  <2> HIDE DEF t
  <2> QED BY <1>4 DEF ThreadState
<1> HIDE DEF u
<1>6. q.cs \in Seq(Activation) /\ q.mode \in Modes
  BY <1>2 DEF Machine
<1>7. /\ p \in Machine /\ p.thread[th] = u /\ p.cs = q.cs /\ p.mode = q.mode
      /\ Apart(q, p, th)
  <2>1. /\ p \in Machine /\ p.thread[th] = u /\ p.cs = q.cs /\ p.mode = q.mode
        /\ \A o \in Threads \ {th} : p.thread[o] = q.thread[o]
    <3>1. q \in Machine /\ u \in ThreadState
      BY <1>2, <1>5
    <3> QED BY <1>3, <1>6, <3>1, MadeIs
  <2> QED BY <1>5, <2>1 DEF Apart
<1>8. Alters(m, p, th) /\ t = m.thread[th]
  BY <1>2, <1>7 DEF Alters, Apart
<1> QED BY <1>2, <1>5, <1>7, <1>8 DEF CountsCall

(* luaD_call keeps the accounts up to the first step of what it calls,     *)
(* also where it refuses the call for lack of C stack.                     *)
LEMMA CallStep ==
  ASSUME NEW m, NEW th, At(m, th), m.cs # <<>>,
         Last(m.cs).kind \in {"pcall", "errormsg", "execute"},
         NEW func \in 1 .. Len(m.thread[th].stack),
         Fits(th, m.thread[th], m.cs, func - 1), NEW wanted \in Int,
         NEW p, p = luaD_call(m, th, func, wanted)
  PROVE  Does(m, p, th) /\ Goes(p, th)
<1> DEFINE a == [kind |-> "call", th |-> th]
           t == m.thread[th]
<1>1. /\ m \in Machine /\ th \in Threads /\ t \in ThreadState /\ m.cs \in Seq(Activation)
      /\ Len(t.stack) \in Nat
  BY TopIs, ThreadFields
<1>2. a \in Activation /\ a.th = th /\ a.kind = "call"
  BY <1>1 DEF Activation
<1> HIDE DEF a
<1>3. PICK counted : counted = CallCounted(m, th, a)
  OBVIOUS
<1>4. PICK called : called = luaD_precall(counted, th, func, wanted)
  OBVIOUS
<1>5. p = IF counted.thread[th].nCcalls = MAXCCALLS THEN Raise(counted, th)
          ELSE IF counted.thread[th].nCcalls >= MAXCCALLS + CErrorRoom
               THEN Doing(counted, "ERRERR")
          ELSE IF called.mode = "lua" THEN Doing(Activate(called, Execute(th, 1)), "run")
          ELSE called
  BY <1>3, <1>4, Zenon DEF luaD_call, CallCounted, a
<1>6. /\ Alters(m, counted, th) /\ counted.cs = Append(m.cs, a)
      /\ counted.thread[th].stack = m.thread[th].stack
      /\ counted.thread[th].ci = m.thread[th].ci
      /\ counted.thread[th].open = m.thread[th].open
      /\ counted.thread[th].baseCcalls = m.thread[th].baseCcalls
      /\ counted.thread[th].errfunc = m.thread[th].errfunc
      /\ counted.thread[th].nCcalls = m.thread[th].nCcalls + 1
  <2>1. CountsCall(m, counted, th, a)
    BY <1>1, <1>2, <1>3, Counting
  <2> QED BY <2>1 DEF CountsCall
<1>7. Does(m, counted, th) /\ Fits(th, counted.thread[th], counted.cs, func - 1)
  <2>1. func - 1 \in 0 .. Len(m.thread[th].stack)
    BY <1>1
  <2>2. <<Last(m.cs).kind, a.kind>> \in Stands
    BY <1>2 DEF Stands
  <2>3. Activates(m, counted, th, a, func - 1)
    BY <1>2, <1>6, <2>1, <2>2 DEF Activates, Alters
  <2> QED BY <2>3, ActivateStep
<1>8. At(counted, th) /\ counted.cs # <<>> /\ Last(counted.cs).kind = "call"
  <2>1. At(counted, th)
    BY <1>7 DEF Does
  <2> QED BY <1>1, <1>2, <1>6, <2>1, LastAppended
<1>9. CASE counted.thread[th].nCcalls = MAXCCALLS
  <2>1. p = Raise(counted, th)
    BY <1>5, <1>9
  <2>2. /\ Does(counted, p, th) /\ p.cs = counted.cs /\ p.mode = "raise"
        /\ Fits(th, p.thread[th], p.cs, Len(p.thread[th].stack) - 1)
    BY <1>8, <2>1, RaiseStep
  <2>3. Does(m, p, th)
    BY <1>7, <2>2, DoesMore
  <2> QED BY <1>8, <2>2, <2>3 DEF Goes
<1>10. CASE p = Doing(counted, "ERRERR")
  <2>1. Does(counted, p, th) /\ p.cs = counted.cs /\ p.mode = "ERRERR"
    BY <1>8, <1>10, DoingStep DEF Modes, Errors
  <2>2. Does(m, p, th)
    BY <1>7, <2>1, DoesMore
  <2> QED BY <1>8, <2>1, <2>2 DEF Goes, Errors
<1>11. Refused(counted, called, th) \/ CallsC(counted, called, th, func) \/ CallsLua(counted, called, th, func)
  <2>1. func \in 1 .. Len(counted.thread[th].stack)
    BY <1>6
  <2> QED BY <1>4, <1>7, <1>8, <2>1, PrecallStep
<1>12. CASE p = called /\ called.mode # "lua"
  <2>1. Does(counted, p, th)
    BY <1>11, <1>12 DEF Refused, CallsC, CallsLua
  <2>2. Does(m, p, th)
    BY <1>7, <2>1, DoesMore
  <2>3. Goes(p, th)
    <3>1. CASE Refused(counted, called, th)
      BY <1>8, <1>12, <3>1 DEF Refused, Broken, Goes, Errors
    <3>2. CASE CallsC(counted, called, th, func)
      <4>1. counted.cs \in Seq(Activation) /\ counted.thread[th].stack[func] \in Value
        BY <1>1, <1>6, <1>8, TopIs, ThreadFields
      <4>2. PICK b \in Activation : b = Cfunction(th, counted.thread[th].stack[func]) /\ b.kind = "cfun"
        BY <1>1, <4>1, OneFrame, Zenon
      <4>3. p.cs = Append(counted.cs, b) /\ p.mode = "run"
        BY <1>12, <3>2, <4>2 DEF CallsC
      <4> QED BY <4>1, <4>2, <4>3, LastAppended DEF Goes
    <3> QED BY <1>11, <1>12, <3>1, <3>2 DEF CallsLua
  <2> QED BY <2>2, <2>3
<1>13. CASE p = Doing(Activate(called, Execute(th, 1)), "run") /\ called.mode = "lua"
  <2>1. CallsLua(counted, called, th, func)
    BY <1>11, <1>13 DEF Refused, CallsC, Broken
  <2>2. PICK b \in Activation : /\ b = Execute(th, 1) /\ b.kind = "execute" /\ b.th = th
                                /\ Size(b) = 1
    BY <1>1, OneFrame, Zenon
  <2>3. PICK q : q = Activate(called, b) /\ p = Doing(q, "run")
    BY <1>13, <2>2
  <2>4. called \in Machine /\ called.cs = counted.cs
    BY <2>1 DEF CallsLua
  <2>5. /\ Alters(called, q, th) /\ q.cs = Append(called.cs, b) /\ q.thread = called.thread
    BY <1>1, <2>2, <2>3, <2>4, OtherwiseMade
  <2>6. /\ Alters(q, p, th) /\ p.cs = q.cs /\ p.mode = "run" /\ p.thread = q.thread
    BY <1>1, <2>3, <2>5, OtherwiseMade DEF Alters, Modes
  <2>7. p \in Machine /\ Apart(counted, p, th) /\ p.cs = Append(counted.cs, b) /\ p.thread = called.thread
    BY <2>1, <2>4, <2>5, <2>6 DEF Alters, Apart, CallsLua
  <2>8. PutOn(counted, p, th, b)
    <3>1. <<Last(counted.cs).kind, b.kind>> \in Stands
      BY <1>8, <2>2 DEF Stands
    <3> QED BY <1>8, <2>2, <2>7, <3>1 DEF PutOn
  <2>9. /\ p.cs \in Seq(Activation) /\ Stacked(p.cs) /\ p.cs[Len(counted.cs) + 1] = b
        /\ KeepsStack(counted, p, th, Len(counted.cs))
        /\ EntersStack(counted.cs, p.cs, th, Len(counted.cs))
    BY <1>8, <2>8, ActivationOver
  <2>10. /\ Entered(counted.thread[th], p.thread[th], func)
         /\ p.thread[th].stack[func] \in LuaFunctions
         /\ func + 1 <= Len(p.thread[th].stack)
    <3>1. Len(p.thread[th].stack) = func + 1
      BY <2>1, <2>7 DEF CallsLua
    <3> QED BY <1>1, <2>1, <2>7, <3>1 DEF CallsLua
  <2>11. Does(counted, p, th)
    BY <1>7, <1>8, <2>2, <2>7, <2>9, <2>10, EnterStep
  <2>12. Does(m, p, th)
    BY <1>7, <2>11, DoesMore
  <2>13. Goes(p, th)
    <3>1. counted.cs \in Seq(Activation)
      BY <1>8, TopIs
    <3> QED BY <2>2, <2>6, <2>7, <3>1, LastAppended DEF Goes
  <2> QED BY <2>12, <2>13
<1> QED BY <1>5, <1>9, <1>10, <1>12, <1>13

SavedCall(t, th, func, ef) ==
  [kind |-> "pcall", th |-> th, old_top |-> func, old_ci |-> Len(t.ci),
   oldnCcalls |-> t.nCcalls, old_errfunc |-> t.errfunc, ef |-> ef]

Protected(m, th, a, ef) == [Activate(m, a) EXCEPT !.thread[th].errfunc = ef]

Protects(m, p, th, a, ef) ==
  /\ Alters(m, p, th) /\ p.cs = Append(m.cs, a) /\ p.mode = m.mode
  /\ p.thread[th].stack = m.thread[th].stack /\ p.thread[th].ci = m.thread[th].ci
  /\ p.thread[th].open = m.thread[th].open
  /\ p.thread[th].baseCcalls = m.thread[th].baseCcalls
  /\ p.thread[th].nCcalls = m.thread[th].nCcalls
  /\ p.thread[th].errfunc = ef

(* luaD_pcall sets the handler and changes nothing else in the thread.     *)
LEMMA Protecting ==
  ASSUME NEW m \in Machine, NEW th \in Threads, NEW a \in Activation, NEW ef \in Nat,
         NEW p, p = Protected(m, th, a, ef)
  PROVE  Protects(m, p, th, a, ef)
<1>1. PICK q : q = Activate(m, a)
  OBVIOUS
<1>2. q \in Machine /\ q.cs = Append(m.cs, a) /\ q.mode = m.mode /\ q.thread = m.thread
  BY <1>1, OtherwiseMade DEF Alters
<1> DEFINE t == q.thread[th]
           u == [t EXCEPT !.errfunc = ef]
<1>3. p = Made(q, th, u, q.cs, q.mode)
  <2>1. p = [q EXCEPT !.thread[th].errfunc = ef]
    BY <1>1, Zenon DEF Protected
  <2> QED BY <1>2, <2>1, Fields, Zenon DEF Made
<1>4. t \in ThreadState
  BY <1>2 DEF Machine
<1>5. /\ u \in ThreadState /\ u.stack = t.stack /\ u.ci = t.ci /\ u.open = t.open
      /\ u.baseCcalls = t.baseCcalls /\ u.errfunc = ef /\ u.nCcalls = t.nCcalls
      /\ u.status = t.status
  <2> HIDE DEF t
  <2> QED BY <1>4 DEF ThreadState
<1> HIDE DEF u
<1>6. q.cs \in Seq(Activation) /\ q.mode \in Modes
  BY <1>2 DEF Machine
<1>7. /\ p \in Machine /\ p.thread[th] = u /\ p.cs = q.cs /\ p.mode = q.mode
      /\ Apart(q, p, th)
  <2>1. /\ p \in Machine /\ p.thread[th] = u /\ p.cs = q.cs /\ p.mode = q.mode
        /\ \A o \in Threads \ {th} : p.thread[o] = q.thread[o]
    <3>1. q \in Machine /\ u \in ThreadState
      BY <1>2, <1>5
    <3> QED BY <1>3, <1>6, <3>1, MadeIs
  <2> QED BY <1>5, <2>1 DEF Apart
<1>8. Alters(m, p, th) /\ t = m.thread[th]
  BY <1>2, <1>7 DEF Alters, Apart
<1> QED BY <1>2, <1>5, <1>7, <1>8 DEF Protects

(* luaD_pcall keeps the accounts up to the first step of what it calls.    *)
LEMMA PcallStep ==
  ASSUME NEW m, NEW th, At(m, th), m.cs = <<>> \/ Last(m.cs).kind = "cfun",
         NEW func \in 1 .. Len(m.thread[th].stack), Fits(th, m.thread[th], m.cs, func - 1),
         NEW ef \in 0 .. func - 1, ef # 0 => m.thread[th].stack[ef] = "H",
         NEW p, p = luaD_pcall(m, th, func, ef)
  PROVE  Does(m, p, th) /\ Goes(p, th)
<1> DEFINE t == m.thread[th]
           a == SavedCall(t, th, func, ef)
<1>1. /\ m \in Machine /\ th \in Threads /\ t \in ThreadState /\ m.cs \in Seq(Activation)
      /\ Len(t.stack) \in Nat /\ Len(t.ci) \in Nat /\ t.nCcalls \in Nat /\ t.errfunc \in Nat
      /\ func \in Nat /\ ef \in Nat
  BY TopIs, ThreadFields
<1>2. /\ a \in Activation /\ a.th = th /\ a.kind = "pcall" /\ a.oldnCcalls = t.nCcalls
      /\ a.old_ci = Len(t.ci) /\ a.old_errfunc = t.errfunc /\ a.old_top = func /\ a.ef = ef
  <2> HIDE DEF t
  <2> QED BY <1>1 DEF Activation, SavedCall
<1> HIDE DEF a
<1>3. PICK q : q = Protected(m, th, a, ef)
  OBVIOUS
<1>4. p = luaD_call(q, th, func, LUA_MULTRET)
  BY <1>3, Zenon DEF luaD_pcall, Protected, a, SavedCall
<1>5. /\ Alters(m, q, th) /\ q.cs = Append(m.cs, a)
      /\ q.thread[th].stack = m.thread[th].stack
      /\ q.thread[th].ci = m.thread[th].ci
      /\ q.thread[th].open = m.thread[th].open
      /\ q.thread[th].baseCcalls = m.thread[th].baseCcalls
      /\ q.thread[th].nCcalls = m.thread[th].nCcalls
      /\ q.thread[th].errfunc = ef
  <2>1. Protects(m, q, th, a, ef)
    BY <1>1, <1>2, <1>3, Protecting
  <2> QED BY <2>1 DEF Protects
<1>6. Does(m, q, th) /\ Fits(th, q.thread[th], q.cs, func - 1)
  <2>1. func - 1 \in 0 .. Len(m.thread[th].stack)
    BY <1>1
  <2>2. m.cs # <<>> => <<Last(m.cs).kind, a.kind>> \in Stands
    BY <1>2 DEF Stands
  <2>3. Activates(m, q, th, a, func - 1)
    BY <1>1, <1>2, <1>5, <2>1, <2>2 DEF Activates, Alters
  <2> QED BY <2>3, ActivateStep
<1>7. At(q, th) /\ q.cs # <<>> /\ Last(q.cs).kind = "pcall"
  <2>1. At(q, th)
    BY <1>6 DEF Does
  <2> QED BY <1>1, <1>2, <1>5, <2>1, LastAppended
<1>8. func \in 1 .. Len(q.thread[th].stack) /\ LUA_MULTRET \in Int
  BY <1>5 DEF LUA_MULTRET
<1>9. Does(q, p, th) /\ Goes(p, th)
  BY <1>4, <1>6, <1>7, <1>8, CallStep
<1> QED BY <1>6, <1>9, DoesMore
-----------------------------------------------------------------------------
(* luaD_poscall, and what OP_TAILCALL does instead.                        *)
DropsStack(s, r, n) ==
  /\ s # <<>> /\ n = Len(s) - 1 /\ s[n + 1].kind \in {"execute", "cfun"}
  /\ r \in Seq(Activation) /\ \A j \in 1 .. n : r[j] = s[j]
  /\ \/ Len(r) = n
     \/ Len(r) = n + 1 /\ s[n + 1].kind = "execute" /\ r[n + 1].kind = "execute"
          /\ r[n + 1].th = s[n + 1].th

DropsFrame(t, u) ==
  /\ u.nCcalls = t.nCcalls /\ u.baseCcalls = t.baseCcalls /\ u.errfunc = t.errfunc
  /\ Len(u.ci) \in {Len(t.ci) - 1, Len(t.ci)}
  /\ \A k \in 1 .. Len(t.ci) - 1 : u.ci[k] = t.ci[k]
  /\ Prefix(t.stack, u.stack, t.ci[Len(t.ci)].func - 1)
  /\ u.open \subseteq t.open
  /\ RunsLua(t, Len(t.ci)) => \A i \in u.open : i <= t.ci[Len(t.ci)].func
  /\ Len(u.ci) = Len(t.ci) => /\ u.ci[Len(t.ci)].func = t.ci[Len(t.ci)].func
                              /\ RunsLua(u, Len(t.ci))
                              /\ t.ci[Len(t.ci)].func + 1 <= Len(u.stack)

(* DepthStep at one activation.                                            *)
LEMMA DepthLast ==
  ASSUME NEW s \in Seq(Activation), NEW th, NEW i \in 1 .. Len(s)
  PROVE  Depth(s, th, i) = Depth(s, th, i - 1) + (IF s[i].th = th THEN Size(s[i]) ELSE 0)
  BY DepthStep, Zenon

(* The last frame of a thread goes, or is replaced, together with what     *)
(* runs it; the accounts are kept if the upvalues over it were closed.     *)
LEMMA DropStep ==
  ASSUME NEW m, NEW th, At(m, th), NEW p \in Machine, Apart(m, p, th),
         NEW n, DropsStack(m.cs, p.cs, n), DropsFrame(m.thread[th], p.thread[th]),
         Len(p.thread[th].ci) + Size(m.cs[n + 1])
           = Len(m.thread[th].ci) + (IF Len(p.cs) = n THEN 0 ELSE Size(p.cs[n + 1]))
  PROVE  Does(m, p, th)
<1> DEFINE s == m.cs
           r == p.cs
           t == m.thread[th]
           u == p.thread[th]
           c == Len(t.ci) - 1
           top == t.ci[Len(t.ci)].func - 1
<1>1. /\ m \in Machine /\ th \in Threads /\ t \in ThreadState /\ s \in Seq(Activation)
      /\ Stacked(s) /\ OnTop(s, th)
      /\ t.status = "0" /\ Accounts(th, t, s) /\ t.nCcalls = CallsIn(s, Len(s))
      /\ t.errfunc = Nearest(s, th, Len(s)) /\ Len(t.ci) = Depth(s, th, Len(s))
  BY TopIs
<1>2. u \in ThreadState
  BY <1>1 DEF Machine
<1>3. /\ n \in Nat /\ n + 1 = Len(s) /\ n \in 0 .. Len(s) /\ s[n + 1].th = th
      /\ s[n + 1].kind \in {"execute", "cfun"}
      /\ (IF n = 0 THEN th = Main ELSE s[n].th = th)
  <2>1. s # <<>> /\ n = Len(s) - 1 /\ s[n + 1].kind \in {"execute", "cfun"}
    BY DEF DropsStack
  <2> HIDE DEF s
  <2>2. /\ n \in Nat /\ n + 1 = Len(s) /\ n \in 0 .. Len(s)
        /\ IF n = 0 THEN s[n + 1].th = Main ELSE s[n].th = s[n + 1].th
    BY <1>1, <2>1, StackedUnder
  <2>3. s[n + 1].th = th
    BY <1>1, <2>1, <2>2 DEF OnTop
  <2> QED BY <2>1, <2>2, <2>3
<1>4. /\ r \in Seq(Activation) /\ \A j \in 1 .. n : r[j] = s[j]
      /\ \/ Len(r) = n
         \/ Len(r) = n + 1 /\ s[n + 1].kind = "execute" /\ r[n + 1].kind = "execute"
              /\ r[n + 1].th = th
  BY <1>3 DEF DropsStack
<1>5. Stacked(r)
  <2>1. Len(r) <= Len(s) /\ \A i \in 1 .. Len(r) : r[i].kind = s[i].kind /\ r[i].th = s[i].th
    <3>1. \A i \in 1 .. Len(r) : i \in 1 .. n \/ (i = n + 1 /\ Len(r) = n + 1)
      BY <1>3, <1>4
    <3> QED BY <1>3, <1>4, <3>1
  <2> HIDE DEF s, r
  <2> QED BY <1>1, <1>4, <2>1, StackedLess
<1>6. /\ Size(s[n + 1]) \in Nat \ {0} /\ Depth(s, th, n) \in Nat \ {0}
      /\ Len(t.ci) = Depth(s, th, n) + Size(s[n + 1]) /\ Len(t.ci) \in Nat
  <2> HIDE DEF s
  <2>1. Size(s[n + 1]) \in Nat \ {0}
    <3>1. s[n + 1] \in Activation
      BY <1>1, <1>3
    <3> QED BY <1>3, <3>1 DEF Size, Activation
  <2>2. n + 1 \in 1 .. Len(s) /\ n \in 0 .. Len(s)
    BY <1>3
  <2>3. Depth(s, th, n + 1) = Depth(s, th, (n + 1) - 1) + (IF s[n + 1].th = th THEN Size(s[n + 1]) ELSE 0)
    BY <1>1, <2>2, DepthLast
  <2>4. Depth(s, th, n) \in Nat \ {0}
    BY <1>1, <2>2, DepthStep
  <2>5. (n + 1) - 1 = n
    BY <1>3
  <2>6. Len(t.ci) \in Nat
    BY <1>1, ThreadFields
  <2> QED BY <1>1, <1>3, <2>1, <2>3, <2>4, <2>5, <2>6
<1>7. /\ c \in Nat \ {0} /\ Len(t.ci) = c + 1 /\ Depth(s, th, n) <= c
      /\ Len(t.ci) \in 1 .. Len(t.ci)
  <2> HIDE DEF s, t
  <2> QED BY <1>6
<1>8. /\ LaidOut(th, t, s) /\ Framed(th, t, s) /\ Captured(t)
  BY <1>1 DEF Accounts
<1>9. /\ top \in Nat /\ t.ci[c + 1].func = top + 1 /\ top + 1 \in Nat /\ top < top + 1
      /\ \A k \in 1 .. c : Needs(t, k) < top + 1
  <2> DEFINE last == t.ci[Len(t.ci)].func
  <2>1. last \in Nat /\ t.ci[1].func \in Nat
    <3>1. 1 \in 1 .. Len(t.ci)
      BY <1>7
    <3> HIDE DEF t
    <3> QED BY <1>1, <1>7, <3>1, ThreadFields
  <2>2. \A k \in 1 .. c : Needs(t, k) < last
    <3>1. \A k \in 1 .. c : k \in 1 .. Len(t.ci) /\ k < Len(t.ci)
      BY <1>7
    <3> HIDE DEF t, c
    <3> QED BY <1>7, <1>8, <3>1 DEF LaidOut
  <2>3. Needs(t, 1) = 1 /\ 1 \in 1 .. c
    <3>1. t.ci[1].func = 1
      BY <1>8 DEF LaidOut
    <3>2. 1 \in 1 .. c
      <4> HIDE DEF c
      <4> QED BY <1>7
    <3>3. Needs(t, 1) = t.ci[1].func
      <4>1. ~ (1 > 1)
        OBVIOUS
      <4> QED BY <4>1, Zenon DEF Needs
    <3> QED BY <3>1, <3>2, <3>3
  <2>4. top = last - 1 /\ t.ci[c + 1].func = last
    BY <1>7
  <2> HIDE DEF t, c, top, last
  <2> QED BY <2>1, <2>2, <2>3, <2>4
<1>10. /\ u.nCcalls = t.nCcalls /\ u.baseCcalls = t.baseCcalls /\ u.errfunc = t.errfunc
       /\ Len(u.ci) \in {c, c + 1} /\ \A k \in 1 .. c : u.ci[k] = t.ci[k]
       /\ Prefix(t.stack, u.stack, top)
       /\ u.open \subseteq t.open
       /\ RunsLua(t, c + 1) => \A i \in u.open : i <= top + 1
       /\ Len(u.ci) = c + 1 => /\ u.ci[c + 1].func = top + 1
                               /\ RunsLua(u, c + 1) /\ top + 2 <= Len(u.stack)
  <2>1. t.ci[Len(t.ci)].func = top + 1 /\ (top + 1) + 1 = top + 2 /\ Len(t.ci) - 1 = c
    BY <1>7, <1>9
  <2>2. DropsFrame(t, u)
    OBVIOUS
  <2> HIDE DEF t, u, c, top
  <2> QED BY <1>7, <1>9, <2>1, <2>2 DEF DropsFrame
<1>11. Len(u.ci) = Depth(r, th, Len(r)) /\ Depth(r, th, n) = Depth(s, th, n)
  <2>1. Len(u.ci) + Size(s[n + 1]) = Len(t.ci) + (IF Len(r) = n THEN 0 ELSE Size(r[n + 1]))
    OBVIOUS
  <2>2. Len(u.ci) \in Nat
    BY <1>2, ThreadFields
  <2> HIDE DEF s, r, u, t, c
  <2>3. Depth(r, th, n) = Depth(s, th, n)
    BY <1>3, <1>4, SamePart
  <2>4. CASE Len(r) = n
    BY <1>6, <2>1, <2>2, <2>3, <2>4
  <2>5. CASE Len(r) = n + 1
    <3>1. n + 1 \in 1 .. Len(r) /\ (n + 1) - 1 = n
      BY <1>3, <2>5
    <3>2. Depth(r, th, n + 1) = Depth(r, th, (n + 1) - 1) + (IF r[n + 1].th = th THEN Size(r[n + 1]) ELSE 0)
      BY <1>4, <3>1, DepthLast
    <3>3. Size(r[n + 1]) \in Nat
      <4>1. r[n + 1] \in Activation
        BY <1>4, <3>1
      <4> QED BY <4>1, FramesCounted
    <3>4. Len(r) # n /\ r[n + 1].th = th
      BY <1>3, <1>4, <2>5
    <3>5. Len(u.ci) + Size(s[n + 1]) = Len(t.ci) + Size(r[n + 1])
      BY <2>1, <3>4
    <3>6. Len(u.ci) = Depth(s, th, n) + Size(r[n + 1])
      <4>1. PICK a \in Nat, b \in Nat, d \in Nat, e \in Nat, f \in Nat :
              /\ a = Len(u.ci) /\ b = Size(s[n + 1]) /\ d = Len(t.ci)
              /\ e = Depth(s, th, n) /\ f = Size(r[n + 1])
        <5>1. Size(s[n + 1]) \in Nat /\ Depth(s, th, n) \in Nat
          BY <1>6
        <5> QED BY <1>6, <2>2, <3>3, <5>1, Zenon
      <4>2. a + b = d + f /\ d = e + b
        BY <1>6, <3>5, <4>1, Zenon
      <4>3. a = e + f
        BY <4>2
      <4> QED BY <4>1, <4>3, Zenon
    <3> QED BY <2>3, <2>5, <3>1, <3>2, <3>4, <3>6
  <2> QED BY <1>4, <2>3, <2>4, <2>5
<1> HIDE DEF top, c
<1>12. Keeps(th, t, u, s, n, c, top)
  <2>1. u.status = "0"
    BY <1>1 DEF Apart
  <2>2. \A k \in 1 .. c : Needs(t, k) <= top
    <3>1. \A k \in 1 .. c : Needs(t, k) \in Nat
      <4>1. \A k \in 1 .. c : t.ci[k].func \in Nat
        <5>1. \A k \in 1 .. c : k \in 1 .. Len(t.ci)
          BY <1>7
        <5> QED BY <1>1, <5>1, ThreadFields
      <4> QED BY <4>1 DEF Needs
    <3> QED BY <1>9, <3>1
  <2>3. ASSUME NEW i \in 1 .. n, s[i].th = th, s[i].kind = "pcall"
        PROVE  s[i].old_top <= top + 1
    <3>1. i \in 1 .. Len(s) /\ i \in 0 .. n /\ n \in 0 .. Len(s) /\ c + 1 \in 1 .. Len(t.ci)
      BY <1>3, <1>7
    <3> HIDE DEF s, t, u, r
    <3>2. s[i].old_ci = Depth(s, th, i) /\ Depth(s, th, i) <= Depth(s, th, n)
      <4>1. s[i].old_ci = Depth(s, th, i)
        BY <1>1, <1>8, <2>3, <3>1 DEF Framed
      <4>2. Depth(s, th, i) <= Depth(s, th, n)
        BY <1>1, <3>1, DepthGrows
      <4> QED BY <4>1, <4>2
    <3>3. ~ (c + 1 <= s[i].old_ci)
      <4>1. Depth(s, th, i) \in Nat
        <5>1. i \in 0 .. Len(s)
          BY <3>1
        <5> QED BY <1>1, <5>1, DepthStep
      <4> QED BY <1>6, <1>7, <3>2, <4>1
    <3> QED BY <1>8, <1>9, <2>3, <3>1, <3>3 DEF LaidOut
  <2>4. c <= Len(t.ci) /\ c <= Len(u.ci)
    BY <1>7, <1>10
  <2> QED BY <1>1, <1>7, <1>10, <2>1, <2>2, <2>3, <2>4 DEF Keeps, Prefix
<1>13. \A k \in 1 .. c : /\ RunsLua(u, k) <=> RunsLua(t, k)
                         /\ u.ci[k].func = t.ci[k].func /\ t.ci[k].func <= top
  <2> HIDE DEF s, r, t, u
  <2> QED BY <1>1, <1>2, <1>3, <1>7, <1>8, <1>9, <1>12, FramesStay
<1>14. Captured(u)
  <2>1. ASSUME NEW i \in u.open
        PROVE  \E k \in 2 .. Len(u.ci) : u.ci[k].func = i - 1 /\ RunsLua(u, k)
    <3> HIDE DEF s, r, t, u
    <3>1. i \in t.open /\ i \in Nat
      BY <1>1, <1>10, <2>1 DEF ThreadState
    <3>2. PICK k \in 2 .. Len(t.ci) : t.ci[k].func = i - 1 /\ RunsLua(t, k)
      BY <1>8, <3>1 DEF Captured
    <3>3. k # c + 1
      BY <1>9, <1>10, <2>1, <3>1, <3>2
    <3>4. k \in 1 .. c /\ k \in 2 .. Len(u.ci)
      BY <1>7, <1>10, <3>2, <3>3
    <3> QED BY <1>13, <3>2, <3>4
  <2> QED BY <2>1 DEF Captured
<1>15. LeavesFrames(th, u, r, n, c, top)
  <2>1. ASSUME NEW k \in c + 1 .. Len(u.ci)
        PROVE  top < u.ci[k].func /\ Needs(u, k) <= Len(u.stack)
    <3>1. k = c + 1 /\ Len(u.ci) = c + 1
      BY <1>7, <1>10
    <3> HIDE DEF u, t
    <3>2. Needs(u, k) = top + 2 /\ u.ci[k].func = top + 1
      BY <1>7, <1>9, <1>10, <3>1 DEF Needs
    <3> QED BY <1>9, <1>10, <3>1, <3>2
  <2>2. ASSUME Len(r) = n + 1, NEW k \in Depth(r, th, n) + 1 .. Len(u.ci)
        PROVE  RunsLua(u, k) <=> r[n + 1].kind = "execute"
    <3>1. r[n + 1].kind = "execute" /\ s[n + 1].kind = "execute"
      BY <1>3, <1>4, <2>2
    <3>2. k \in 1 .. c \/ (k = c + 1 /\ Len(u.ci) = c + 1)
      <4>1. k \in Depth(s, th, n) + 1 .. Len(u.ci)
        BY <1>11, <2>2
      <4> HIDE DEF s, r, t, u
      <4> QED BY <1>6, <1>7, <1>10, <4>1
    <3>3. CASE k = c + 1 /\ Len(u.ci) = c + 1
      BY <1>10, <3>1, <3>3
    <3>4. CASE k \in 1 .. c
      <4>1. n + 1 \in 1 .. Len(s) /\ (n + 1) - 1 = n /\ n + 1 = Len(s)
        BY <1>3
      <4>2. k \in Depth(s, th, n) + 1 .. Len(t.ci)
        <5>1. k \in Depth(s, th, n) + 1 .. Len(u.ci)
          BY <1>11, <2>2
        <5> HIDE DEF s, r, t, u
        <5> QED BY <1>6, <1>7, <1>10, <3>4, <5>1
      <4>3. k \in Depth(s, th, (n + 1) - 1) + 1 .. Depth(s, th, n + 1)
        BY <1>1, <4>1, <4>2
      <4>4. RunsLua(t, k)
        BY <1>1, <1>8, <3>1, <4>1, <4>3 DEF Framed
      <4> QED BY <1>13, <3>1, <3>4, <4>4
    <3> QED BY <3>2, <3>3, <3>4
  <2>3. Len(u.ci) <= c + 1
    BY <1>7, <1>10
  <2> QED BY <1>11, <1>14, <2>1, <2>2, <2>3 DEF LeavesFrames
<1>16. Leaves(th, u, r, n, c, top)
  <2>1. LeavesOnTop(th, r, n)
    BY <1>3, <1>4 DEF LeavesOnTop
  <2>2. u.nCcalls = CallsIn(r, Len(r)) /\ u.errfunc = Nearest(r, th, Len(r))
    <3> HIDE DEF s, r, t, u
    <3>1. CallsIn(r, n) = CallsIn(s, n) /\ Nearest(r, th, n) = Nearest(s, th, n)
      BY <1>3, <1>4, SamePart
    <3>2. n + 1 \in Nat \ {0} /\ (n + 1) - 1 = n /\ n + 1 \in Nat
      BY <1>3
    <3>3. CallsIn(s, n + 1) = CallsIn(s, n) /\ CallsIn(s, n) \in Nat
      <4>1. CallsIn(s, n + 1) = CallsIn(s, (n + 1) - 1) + (IF s[n + 1].kind \in {"call", "resume"} THEN 1 ELSE 0)
        BY <3>2, CallsStep
      <4>2. CallsIn(s, n) \in Nat
        BY <1>3, CallsStep
      <4> QED BY <1>3, <3>2, <4>1, <4>2
    <3>4. Nearest(s, th, n + 1) = Nearest(s, th, n)
      <4>1. Nearest(s, th, n + 1) = Nearest(s, th, (n + 1) - 1)
        BY <1>3, <3>2, NearestSkips
      <4> QED BY <3>2, <4>1
    <3>5. CASE Len(r) = n
      BY <1>1, <1>3, <1>10, <3>1, <3>3, <3>4, <3>5
    <3>6. CASE Len(r) = n + 1
      <4>0. r[n + 1].kind = "execute"
        BY <1>3, <1>4, <3>6
      <4>1. CallsIn(r, n + 1) = CallsIn(r, (n + 1) - 1) + (IF r[n + 1].kind \in {"call", "resume"} THEN 1 ELSE 0)
        BY <3>2, CallsStep
      <4>2. Nearest(r, th, n + 1) = Nearest(r, th, (n + 1) - 1)
        BY <3>2, <4>0, NearestSkips
      <4> QED BY <1>1, <1>3, <1>10, <3>1, <3>2, <3>3, <3>4, <3>6, <4>0, <4>1, <4>2
    <3> QED BY <1>4, <3>5, <3>6
  <2>3. ~ (Len(r) = n + 1 /\ r[n + 1].kind = "pcall")
    BY <1>3, <1>4
  <2> QED BY <1>15, <2>1, <2>2, <2>3 DEF Leaves
<1>17. n <= Len(r) /\ \A j \in n + 1 .. Len(s) : s[j].th = th
  <2>1. \A j \in n + 1 .. Len(s) : j = n + 1
    BY <1>3
  <2> QED BY <1>3, <1>4, <2>1
<1>18. n \in 0 .. Len(m.cs) /\ c \in Nat /\ top \in Nat
  BY <1>3, <1>7, <1>9
<1> QED BY <1>4, <1>5, <1>12, <1>16, <1>17, <1>18, StepDoes

Pops(t, u) ==
  /\ Rest(t, u) /\ Len(u.ci) = Len(t.ci) - 1
  /\ \A k \in 1 .. Len(t.ci) - 1 : u.ci[k] = t.ci[k]
  /\ Prefix(t.stack, u.stack, t.ci[Len(t.ci)].func - 1)

(* The results luaD_poscall moves are values.                              *)
LEMMA OneResult ==
  ASSUME NEW w \in Int, NEW results, results = <<"v">>,
         NEW x, x = IF w = LUA_MULTRET THEN results
                    ELSE SubSeq(results, 1, Min({Len(results), w}))
  PROVE  x \in Seq(Value)
<1>1. results \in Seq(Value) /\ Len(results) = 1 /\ results[1] \in Value
  BY DEF Value
<1>2. Min({Len(results), w}) \in Int /\ Min({Len(results), w}) <= 1
  <2>1. PICK y \in {1, w} : y <= 1 /\ \A z \in {1, w} : y <= z
    <3>1. CASE w <= 1
      BY <3>1
    <3>2. CASE 1 <= w
      BY <3>2
    <3> QED BY <3>1, <3>2
  <2>2. Min({1, w}) \in {1, w} /\ \A z \in {1, w} : Min({1, w}) <= z
    BY <2>1, Zenon DEF Min
  <2> QED BY <1>1, <2>2
<1>3. \A i \in 1 .. Min({Len(results), w}) : results[i] \in Value
  <2>1. \A i \in 1 .. Min({Len(results), w}) : i = 1
    BY <1>2
  <2> QED BY <1>1, <2>1
<1>4. SubSeq(results, 1, Min({Len(results), w})) \in Seq(Value)
  <2>1. PICK k \in Int : k = Min({Len(results), w})
    BY <1>2
  <2>2. \A i \in 1 .. k : results[i] \in Value
    BY <1>3, <2>1
  <2>3. SubSeq(results, 1, k) \in Seq(Value)
    BY <2>2, SubSeqProperties
  <2> QED BY <2>1, <2>3
<1> QED BY <1>1, <1>4

FrameLess(m, th) == [m EXCEPT !.thread[th].ci = Front(@)]

LosesFrame(t, u) ==
  /\ Rest(t, u) /\ u.stack = t.stack /\ Len(u.ci) = Len(t.ci) - 1
  /\ \A k \in 1 .. Len(t.ci) - 1 : u.ci[k] = t.ci[k]

(* A thread loses its last frame and nothing else.                         *)
LEMMA FrameLost ==
  ASSUME NEW m \in Machine, NEW th \in Threads, m.thread[th].ci # <<>>,
         NEW p, p = FrameLess(m, th)
  PROVE  /\ Alters(m, p, th) /\ p.cs = m.cs /\ p.mode = m.mode
         /\ LosesFrame(m.thread[th], p.thread[th])
<1> DEFINE t == m.thread[th]
           ci == Front(t.ci)
           u == [t EXCEPT !.ci = ci]
<1>1. /\ t \in ThreadState /\ t.ci \in Seq(Frame)
      /\ m.cs \in Seq(Activation) /\ m.mode \in Modes
  <2>1. t \in ThreadState /\ m.cs \in Seq(Activation) /\ m.mode \in Modes
    BY DEF Machine
  <2> QED BY <2>1 DEF ThreadState
<1>2. /\ ci \in Seq(Frame) /\ Len(ci) = Len(t.ci) - 1 /\ \A k \in 1 .. Len(t.ci) - 1 : ci[k] = t.ci[k]
  <2>1. t.ci # <<>>
    OBVIOUS
  <2> HIDE DEF t
  <2>2. Len(t.ci) \in Nat \ {0} /\ ci = SubSeq(t.ci, 1, Len(t.ci) - 1)
    BY <1>1, <2>1 DEF Front
  <2> HIDE DEF ci
  <2>3. \A i \in 1 .. Len(t.ci) - 1 : t.ci[i] \in Frame
    BY <1>1, <2>2
  <2>4. /\ ci \in Seq(Frame) /\ Len(ci) = IF 1 <= Len(t.ci) - 1 THEN Len(t.ci) - 1 - 1 + 1 ELSE 0
        /\ \A i \in 1 .. Len(t.ci) - 1 - 1 + 1 : ci[i] = t.ci[1 + i - 1]
    BY <2>2, <2>3, SubSeqProperties
  <2> QED BY <2>2, <2>4
<1> HIDE DEF ci
<1>3. u \in ThreadState /\ u.ci = ci /\ u.stack = t.stack /\ Rest(t, u)
  <2> HIDE DEF t
  <2> QED BY <1>1, <1>2 DEF ThreadState, Rest
<1>4. p = Made(m, th, u, m.cs, m.mode)
  BY Fields, Zenon DEF Made, FrameLess, ci
<1> HIDE DEF u
<1>5. /\ p \in Machine /\ p.thread[th] = u /\ p.cs = m.cs /\ p.mode = m.mode
      /\ Apart(m, p, th)
  <2>1. u.status = t.status
    BY <1>3 DEF Rest
  <2> QED BY <1>1, <1>3, <1>4, <2>1, MadeIs DEF Apart
<1> QED BY <1>2, <1>3, <1>5 DEF Alters, LosesFrame

(* luaD_poscall pops one frame and touches nothing under its function.     *)
LEMMA PoscallMade ==
  ASSUME NEW m \in Machine, NEW th \in Threads, m.thread[th].ci # <<>>,
         m.thread[th].ci[Len(m.thread[th].ci)].func \in 1 .. Len(m.thread[th].stack),
         NEW p, p = luaD_poscall(m, th, <<"v">>)
  PROVE  /\ Alters(m, p, th) /\ p.cs = m.cs /\ p.mode = m.mode
         /\ Pops(m.thread[th], p.thread[th])
<1> DEFINE t == m.thread[th]
           func == t.ci[Len(t.ci)].func
<1>1. t \in ThreadState /\ t.ci \in Seq(Frame) /\ t.stack \in Seq(Value)
  <2>1. t \in ThreadState
    BY DEF Machine
  <2> QED BY <2>1 DEF ThreadState
<1>2. PICK m1, m2 : m1 = FrameLess(m, th) /\ m2 = Cut(m1, th, func - 1)
  OBVIOUS
<1> DEFINE u == m1.thread[th]
<1>3. Alters(m, m1, th) /\ m1.cs = m.cs /\ m1.mode = m.mode /\ LosesFrame(t, u)
  BY <1>2, FrameLost
<1>4. PICK moved \in Seq(Value) : p = Push(m2, th, moved)
  <2> DEFINE w == t.ci[Len(t.ci)].wanted
             x == IF w = LUA_MULTRET THEN <<"v">>
                  ELSE SubSeq(<<"v">>, 1, Min({Len(<<"v">>), w}))
  <2>1. p = Push(m2, th, x)
    BY <1>2, Zenon DEF luaD_poscall, Last, FrameLess
  <2>2. w \in Int
    <3>1. t.ci # <<>>
      OBVIOUS
    <3> HIDE DEF t
    <3>2. t.ci[Len(t.ci)] \in Frame
      BY <1>1, <3>1
    <3> QED BY <3>2 DEF Frame
  <2> HIDE DEF w
  <2>3. x \in Seq(Value)
    <3>1. PICK results : results = <<"v">>
      OBVIOUS
    <3>2. PICK y : y = IF w = LUA_MULTRET THEN results
                       ELSE SubSeq(results, 1, Min({Len(results), w}))
      OBVIOUS
    <3>3. y \in Seq(Value)
      BY <2>2, <3>1, <3>2, OneResult
    <3> QED BY <3>1, <3>2, <3>3, Zenon
  <2> QED BY <2>1, <2>3
<1>5. /\ Alters(m1, m2, th) /\ m2.cs = m.cs /\ m2.mode = m.mode
      /\ Restacked(u, m2.thread[th], SubSeq(u.stack, 1, func - 1))
  <2>1. func - 1 \in 0 .. Len(m1.thread[th].stack)
    <3>1. m1.thread[th].stack = t.stack
      BY <1>3 DEF LosesFrame
    <3>2. func \in 1 .. Len(t.stack) /\ Len(t.stack) \in Nat
      BY <1>1
    <3> HIDE DEF func, t
    <3> QED BY <3>1, <3>2
  <2>2. m1 \in Machine
    BY <1>3 DEF Alters
  <2> HIDE DEF func
  <2> QED BY <1>2, <1>3, <2>1, <2>2, CutMade
<1>6. /\ Alters(m2, p, th) /\ p.cs = m.cs /\ p.mode = m.mode
      /\ Restacked(m2.thread[th], p.thread[th], m2.thread[th].stack \o moved)
  BY <1>4, <1>5, PushMade DEF Alters
<1>7. Alters(m, p, th)
  BY <1>3, <1>5, <1>6 DEF Alters, Apart
<1>8. Prefix(t.stack, p.thread[th].stack, func - 1)
  <2> DEFINE st == m2.thread[th].stack
             st2 == p.thread[th].stack
  <2>1. func - 1 \in 0 .. Len(t.stack) /\ st = SubSeq(t.stack, 1, func - 1) /\ st2 = st \o moved
    <3>1. st = SubSeq(t.stack, 1, func - 1) /\ st2 = st \o moved
      BY <1>3, <1>5, <1>6 DEF Restacked, LosesFrame
    <3>2. func \in 1 .. Len(t.stack)
      OBVIOUS
    <3> HIDE DEF st, st2, t, func
    <3> QED BY <1>1, <3>1, <3>2
  <2> HIDE DEF st, st2, t, func
  <2>2. st \in Seq(Value) /\ Len(st) = func - 1 /\ Prefix(t.stack, st, func - 1)
    BY <1>1, <2>1, CutShort
  <2>3. Len(st2) = Len(st) + Len(moved) /\ Prefix(st, st2, Len(st))
    BY <2>1, <2>2, PushedOn
  <2>4. Prefix(t.stack, st2, func - 1)
    BY <2>2, <2>3 DEF Prefix
  <2> QED BY <2>4 DEF st2
<1>9. /\ Rest(t, p.thread[th]) /\ Len(p.thread[th].ci) = Len(t.ci) - 1
      /\ \A k \in 1 .. Len(t.ci) - 1 : p.thread[th].ci[k] = t.ci[k]
  <2>1. Rest(t, p.thread[th]) /\ p.thread[th].ci = u.ci
    BY <1>3, <1>5, <1>6 DEF Rest, Restacked, LosesFrame
  <2>2. Len(u.ci) = Len(t.ci) - 1 /\ \A k \in 1 .. Len(t.ci) - 1 : u.ci[k] = t.ci[k]
    BY <1>3 DEF LosesFrame
  <2> HIDE DEF u, t
  <2> QED BY <2>1, <2>2
<1> QED BY <1>6, <1>7, <1>8, <1>9 DEF Pops

-----------------------------------------------------------------------------
(* The frame of the function that runs is the last one.                    *)
LEMMA TopFrame ==
  ASSUME NEW m, NEW th, At(m, th), m.cs # <<>>, Last(m.cs).kind \in {"execute", "cfun"},
         NEW t, t = m.thread[th], NEW l, l = Len(t.ci), NEW func, func = t.ci[l].func
  PROVE  /\ l \in Nat /\ l >= 2 /\ func \in 2 .. Len(t.stack)
         /\ RunsLua(t, l) <=> Last(m.cs).kind = "execute"
         /\ IF Last(m.cs).kind = "execute"
            THEN func + 1 <= Len(t.stack) /\ Fits(th, t, m.cs, func + 1)
            ELSE Fits(th, t, m.cs, func)
<1> DEFINE s == m.cs
           n == Len(s) - 1
<1>1. /\ m \in Machine /\ th \in Threads /\ t \in ThreadState /\ s \in Seq(Activation)
      /\ Stacked(s) /\ OnTop(s, th)
      /\ t.status = "0" /\ Accounts(th, t, s) /\ Len(t.ci) = Depth(s, th, Len(s))
  BY TopIs
<1>2. /\ n \in Nat /\ n + 1 = Len(s) /\ n \in 0 .. Len(s) /\ s[n + 1].th = th
      /\ s[n + 1] = Last(s) /\ n + 1 \in 1 .. Len(s) /\ (n + 1) - 1 = n
  <2>1. s # <<>> /\ n = Len(s) - 1
    OBVIOUS
  <2> HIDE DEF s
  <2>2. /\ n \in Nat /\ n + 1 = Len(s) /\ n \in 0 .. Len(s) /\ s[n + 1] = Last(s)
    BY <1>1, <2>1, StackedUnder
  <2>3. s[n + 1].th = th
    BY <1>1, <2>1, <2>2 DEF OnTop
  <2> QED BY <2>2, <2>3
<1> HIDE DEF n
<1>3. /\ Size(s[n + 1]) \in Nat \ {0} /\ Depth(s, th, n) \in Nat \ {0}
      /\ l = Depth(s, th, n) + Size(s[n + 1]) /\ l = Depth(s, th, n + 1)
  <2>0. Last(s).kind \in {"execute", "cfun"}
    OBVIOUS
  <2> HIDE DEF s
  <2>1. Size(s[n + 1]) \in Nat \ {0}
    <3>1. s[n + 1] \in Activation
      BY <1>1, <1>2
    <3> QED BY <1>2, <2>0, <3>1 DEF Size, Activation
  <2>2. Depth(s, th, n + 1) = Depth(s, th, (n + 1) - 1) + (IF s[n + 1].th = th THEN Size(s[n + 1]) ELSE 0)
    BY <1>1, <1>2, DepthLast
  <2>3. Depth(s, th, n) \in Nat \ {0}
    BY <1>1, <1>2, DepthStep
  <2> QED BY <1>1, <1>2, <2>1, <2>2, <2>3
<1>4. l \in Nat /\ l >= 2 /\ l \in Depth(s, th, (n + 1) - 1) + 1 .. Depth(s, th, n + 1) /\ l \in 1 .. Len(t.ci)
  BY <1>2, <1>3
<1>5. LaidOut(th, t, s) /\ Framed(th, t, s) /\ Fits(th, t, s, Len(t.stack))
  BY <1>1 DEF Accounts
<1>6. RunsLua(t, l) <=> Last(s).kind = "execute"
  BY <1>1, <1>2, <1>4, <1>5 DEF Framed
<1>7. func \in Nat /\ Len(t.stack) \in Nat
  BY <1>1, <1>4, ThreadFields
<1>8. func >= 2 /\ \A k \in 1 .. l : k # l => Needs(t, k) < func
  <2>1. \A k \in 1 .. l : k # l => k \in 1 .. Len(t.ci) /\ k < l
    BY <1>4
  <2>2. \A k \in 1 .. l : k # l => Needs(t, k) < func
    BY <1>4, <1>5, <2>1 DEF LaidOut
  <2>3. Needs(t, 1) = 1
    <3>1. t.ci[1].func = 1 /\ ~ (1 > 1)
      BY <1>5 DEF LaidOut
    <3> QED BY <3>1, Zenon DEF Needs
  <2>4. 1 \in 1 .. l /\ 1 # l
    BY <1>4
  <2>5. 1 < func
    BY <2>2, <2>3, <2>4
  <2> QED BY <1>7, <2>2, <2>5
<1>9. Needs(t, l) = IF Last(s).kind = "execute" THEN func + 1 ELSE func
  <2>1. l > 1
    BY <1>4
  <2> HIDE DEF s
  <2> QED BY <1>6, <2>1 DEF Needs
<1>10. Needs(t, l) <= Len(t.stack)
  BY <1>4, <1>5 DEF Fits
<1>11. \A k \in 1 .. Len(t.ci) : Needs(t, k) \in Nat
  <2>1. \A k \in 1 .. Len(t.ci) : t.ci[k].func \in Nat
    BY <1>1, ThreadFields
  <2> QED BY <2>1 DEF Needs
<1>12. ASSUME NEW i \in 1 .. Len(s), s[i].th = th, s[i].kind = "pcall"
       PROVE  s[i].old_top <= func /\ s[i].old_top \in Nat
  <2>0. Last(s).kind \in {"execute", "cfun"}
    OBVIOUS
  <2> HIDE DEF s
  <2>1. i # n + 1
    BY <1>2, <1>12, <2>0
  <2>2. i \in 1 .. n /\ i \in 0 .. n
    BY <1>2, <1>12, <2>1
  <2>3. s[i].old_ci = Depth(s, th, i) /\ Depth(s, th, i) <= Depth(s, th, n)
    <3>1. s[i].old_ci = Depth(s, th, i)
      BY <1>1, <1>5, <1>12 DEF Framed
    <3>2. Depth(s, th, i) <= Depth(s, th, n)
      BY <1>1, <1>2, <2>2, DepthGrows
    <3> QED BY <3>1, <3>2
  <2>4. ~ (l <= s[i].old_ci)
    <3>1. Depth(s, th, i) \in Nat
      <4>1. i \in 0 .. Len(s)
        BY <1>2, <2>2
      <4> QED BY <1>1, <4>1, DepthStep
    <3> QED BY <1>3, <2>3, <3>1
  <2>5. s[i].old_top \in Nat
    <3>1. s[i] \in Activation
      BY <1>1
    <3> QED BY <1>12, <3>1 DEF Activation
  <2> QED BY <1>4, <1>5, <1>12, <2>4, <2>5 DEF LaidOut
<1>13. ASSUME NEW top \in Nat, Needs(t, l) <= top, func <= top PROVE Fits(th, t, s, top)
  <2>1. ASSUME NEW k \in 1 .. Len(t.ci) PROVE Needs(t, k) <= top
    <3>1. CASE k = l
      BY <1>13, <3>1
    <3>2. CASE k # l
      <4>1. Needs(t, k) < func
        BY <1>8, <3>2
      <4>2. Needs(t, k) \in Nat
        BY <1>11
      <4> QED BY <1>7, <1>13, <4>1, <4>2
    <3> QED BY <3>1, <3>2
  <2>2. ASSUME NEW i \in 1 .. Len(s), s[i].th = th, s[i].kind = "pcall"
        PROVE  s[i].old_top <= top + 1
    <3>1. s[i].old_top <= func /\ s[i].old_top \in Nat
      BY <1>12, <2>2
    <3>2. \A x, y, z \in Nat : x <= y /\ y <= z => x <= z + 1
      OBVIOUS
    <3> QED BY <1>7, <1>13, <3>1, <3>2, Zenon
  <2> QED BY <2>1, <2>2 DEF Fits
<1>14. CASE Last(s).kind = "execute"
  <2>1. Needs(t, l) = func + 1
    BY <1>9, <1>14
  <2>2. Fits(th, t, s, func + 1)
    <3>0. \A x \in Nat : x + 1 \in Nat /\ x + 1 <= x + 1 /\ x <= x + 1
      OBVIOUS
    <3>1. func + 1 \in Nat /\ Needs(t, l) <= func + 1 /\ func <= func + 1
      BY <1>7, <2>1, <3>0, Zenon
    <3> QED BY <1>13, <3>1
  <2>3. func + 1 <= Len(t.stack) /\ func \in 2 .. Len(t.stack)
    BY <1>7, <1>8, <1>10, <2>1
  <2> QED BY <1>4, <1>6, <1>14, <2>2, <2>3
<1>15. CASE Last(s).kind # "execute"
  <2>1. Needs(t, l) = func
    BY <1>9, <1>15
  <2>2. Fits(th, t, s, func)
    <3>1. Needs(t, l) <= func /\ func <= func
      BY <1>7, <2>1
    <3> QED BY <1>7, <1>13, <3>1
  <2>3. func \in 2 .. Len(t.stack)
    BY <1>7, <1>8, <1>10, <2>1
  <2> QED BY <1>4, <1>6, <1>15, <2>2, <2>3
<1> QED BY <1>14, <1>15

(* What is left to do when an action ends.                                 *)
ModeFits(m) ==
  \/ m.cs = <<>> /\ m.mode = "run" /\ Len(m.thread[Main].stack) = 1
  \/ m.cs = <<>> /\ m.mode = "return"
  \/ m.cs # <<>> /\ m.mode = "return" /\ Last(m.cs).kind # "execute"
  \/ m.cs # <<>> /\ Goes(m, Last(m.cs).th)

(* A call that has got under way is one of the modes an action may end in. *)
LEMMA GoesFits ==
  ASSUME NEW p, NEW th, At(p, th), Goes(p, th)
  PROVE  ModeFits(p)
<1>1. p.cs # <<>> /\ p.cs \in Seq(Activation) /\ OnTop(p.cs, th)
  BY TopIs DEF Goes
<1>2. Last(p.cs).th = th
  BY <1>1 DEF OnTop, Last
<1> QED BY <1>1, <1>2 DEF ModeFits

(* Whoever is under an activation that has returned goes on.               *)
LEMMA ResumedStep ==
  ASSUME NEW m, NEW th, At(m, th), NEW p, p = Resumed(m)
  PROVE  /\ Does(m, p, th) /\ ModeFits(p) /\ p.cs = m.cs /\ p.thread = m.thread
         /\ p.mode = IF m.cs # <<>> /\ Last(m.cs).kind = "execute" THEN "run" ELSE "return"
<1> DEFINE what == IF m.cs # <<>> /\ Last(m.cs).kind = "execute" THEN "run" ELSE "return"
<1>1. what \in Modes /\ p = Doing(m, what)
  BY DEF Modes, Resumed
<1> HIDE DEF what
<1>2. Does(m, p, th) /\ p.cs = m.cs /\ p.mode = what /\ p.thread = m.thread
  BY <1>1, DoingStep
<1>3. At(p, th)
  BY <1>2 DEF Does
<1>4. CASE m.cs # <<>> /\ Last(m.cs).kind = "execute"
  <2>1. Goes(p, th)
    BY <1>2, <1>4 DEF Goes, what
  <2> QED BY <1>2, <1>3, <2>1, GoesFits DEF what
<1>5. CASE ~ (m.cs # <<>> /\ Last(m.cs).kind = "execute")
  BY <1>2, <1>5 DEF ModeFits, what
<1> QED BY <1>4, <1>5

(* A C function returns: its activation and its frame are left.            *)
LEMMA FinishStep ==
  ASSUME NEW m, NEW th, At(m, th), m.cs # <<>>, Last(m.cs).kind = "cfun",
         NEW p, p = luaD_poscall(Leave(m), th, <<"v">>)
  PROVE  Does(m, p, th) /\ p.cs = Front(m.cs)
<1> DEFINE s == m.cs
           n == Len(s) - 1
           t == m.thread[th]
           l == Len(t.ci)
           func == t.ci[l].func
<1>1. m \in Machine /\ th \in Threads /\ s \in Seq(Activation) /\ Stacked(s)
  BY TopIs
<1>2. /\ n \in Nat /\ n + 1 = Len(s) /\ s[n + 1] = Last(s) /\ Front(s) \in Seq(Activation)
      /\ Len(Front(s)) = n /\ \A j \in 1 .. n : Front(s)[j] = s[j]
  <2>1. s # <<>> /\ n = Len(s) - 1
    OBVIOUS
  <2> HIDE DEF s
  <2> QED BY <1>1, <2>1, StackedUnder
<1>3. l >= 2 /\ l \in Nat /\ func \in 2 .. Len(t.stack) /\ ~ RunsLua(t, l)
  <2>1. /\ l >= 2 /\ l \in Nat /\ func \in 2 .. Len(t.stack)
        /\ RunsLua(t, l) <=> Last(m.cs).kind = "execute"
    BY TopFrame
  <2> QED BY <2>1
<1>4. PICK q : q = Leave(m)
  OBVIOUS
<1>5. Alters(m, q, th) /\ q.cs = Front(m.cs) /\ q.mode = m.mode /\ q.thread = m.thread
  BY <1>1, <1>4, OtherwiseMade
<1>6. Alters(q, p, th) /\ p.cs = q.cs /\ p.mode = q.mode /\ Pops(t, p.thread[th])
  <2>1. q.thread[th].ci # <<>>
    BY <1>3, <1>5
  <2>2. q.thread[th].ci[Len(q.thread[th].ci)].func \in 1 .. Len(q.thread[th].stack)
    BY <1>3, <1>5
  <2>3. /\ Alters(q, p, th) /\ p.cs = q.cs /\ p.mode = q.mode
        /\ Pops(q.thread[th], p.thread[th])
    BY <1>1, <1>4, <1>5, <2>1, <2>2, PoscallMade DEF Alters
  <2> QED BY <1>5, <2>3
<1>7. Apart(m, p, th) /\ p \in Machine /\ p.cs = Front(s)
  BY <1>5, <1>6 DEF Alters, Apart
<1>8. DropsStack(s, p.cs, n)
  BY <1>2, <1>7 DEF DropsStack
<1>9. DropsFrame(t, p.thread[th])
  <2> HIDE DEF t
  <2> QED BY <1>3, <1>6 DEF DropsFrame, Pops, Rest
<1>10. Len(p.thread[th].ci) + Size(s[n + 1]) = Len(t.ci) + (IF Len(p.cs) = n THEN 0 ELSE Size(p.cs[n + 1]))
  <2>1. Len(p.thread[th].ci) = l - 1
    BY <1>6 DEF Pops
  <2>2. Size(s[n + 1]) = 1
    BY <1>2 DEF Size
  <2>3. Len(p.cs) = n
    BY <1>2, <1>7
  <2>4. (l - 1) + 1 = l + 0
    <3> HIDE DEF l
    <3> QED BY <1>3
  <2> QED BY <2>1, <2>2, <2>3, <2>4
<1> HIDE DEF n
<1>11. Does(m, p, th)
  BY <1>7, <1>8, <1>9, <1>10, DropStep
<1> QED BY <1>7, <1>11

Closes(t, u, level) ==
  /\ u.stack = t.stack /\ u.ci = t.ci /\ u.open = {i \in t.open : i < level}
  /\ u.nCcalls = t.nCcalls /\ u.baseCcalls = t.baseCcalls
  /\ u.status = t.status /\ u.errfunc = t.errfunc

(* luaF_close changes only the open upvalues.                              *)
LEMMA CloseMade ==
  ASSUME NEW m \in Machine, NEW th \in Threads, NEW level,
         NEW p, p = luaF_close(m, th, level)
  PROVE  /\ Alters(m, p, th) /\ p.cs = m.cs /\ p.mode = m.mode
         /\ Closes(m.thread[th], p.thread[th], level)
<1> DEFINE t == m.thread[th]
           open == {i \in t.open : i < level}
           u == [t EXCEPT !.open = open]
<1>1. t \in ThreadState /\ m.cs \in Seq(Activation) /\ m.mode \in Modes
  BY DEF Machine
<1>2. p = Made(m, th, u, m.cs, m.mode)
  BY Fields, Zenon DEF luaF_close, Made
<1>3. open \in SUBSET Nat
  BY <1>1 DEF ThreadState
<1> HIDE DEF open
<1>4. u \in ThreadState /\ Closes(t, u, level) /\ u.status = t.status
  <2>1. u \in ThreadState
    <3> HIDE DEF t
    <3> QED BY <1>1, <1>3 DEF ThreadState
  <2>2. /\ u.stack = t.stack /\ u.ci = t.ci /\ u.open = open
        /\ u.nCcalls = t.nCcalls /\ u.baseCcalls = t.baseCcalls
        /\ u.status = t.status /\ u.errfunc = t.errfunc
    <3> HIDE DEF t
    <3> QED BY <1>1 DEF ThreadState
  <2> QED BY <2>1, <2>2, Zenon DEF Closes, open
<1> HIDE DEF u
<1>5. p \in Machine /\ p.thread[th] = u /\ p.cs = m.cs /\ p.mode = m.mode /\ Apart(m, p, th)
  BY <1>1, <1>2, <1>4, MadeIs DEF Apart
<1> QED BY <1>4, <1>5 DEF Alters

(* luaV_execute counts the functions it runs.                              *)
WithCount(s, k) == [s EXCEPT ![Len(s)] = [@ EXCEPT !.n = k]]

Recounts(s, r, n, k) ==
  /\ r \in Seq(Activation) /\ Len(r) = Len(s) /\ \A j \in 1 .. n : r[j] = s[j]
  /\ r[n + 1].kind = "execute" /\ r[n + 1].th = s[n + 1].th /\ Size(r[n + 1]) = k
  /\ Last(r) = r[n + 1] /\ r # <<>>

(* luaV_execute with another count is the same activation otherwise.       *)
LEMMA Counts ==
  ASSUME NEW s \in Seq(Activation), s # <<>>, Last(s).kind = "execute",
         NEW k \in Nat \ {0}, NEW n, n = Len(s) - 1, NEW r, r = WithCount(s, k)
  PROVE  Recounts(s, r, n, k)
<1>1. n \in Nat /\ n + 1 = Len(s) /\ n + 1 \in 1 .. Len(s) /\ s[n + 1] = Last(s)
  BY StackedUnder DEF Last
<1> DEFINE a == [s[n + 1] EXCEPT !.n = k]
<1>2. s[n + 1] \in Activation
  BY <1>1
<1>3. a \in Activation /\ a.kind = "execute" /\ a.th = s[n + 1].th /\ Size(a) = k
  BY <1>1, <1>2 DEF Activation, Size
<1> HIDE DEF a
<1>4. r = [s EXCEPT ![n + 1] = a]
  BY <1>1, Zenon DEF a, WithCount
<1>5. /\ r \in Seq(Activation) /\ Len(r) = Len(s) /\ \A j \in 1 .. n : r[j] = s[j]
      /\ r[n + 1] = a
  BY <1>1, <1>3, <1>4
<1> QED BY <1>1, <1>3, <1>5 DEF Last, Recounts

(* A machine whose C stack is replaced.                                    *)
LEMMA CsMade ==
  ASSUME NEW m \in Machine, NEW th \in Threads, NEW s \in Seq(Activation),
         NEW p, p = [m EXCEPT !.cs = s]
  PROVE  Alters(m, p, th) /\ p.cs = s /\ p.mode = m.mode /\ p.thread = m.thread
  BY DEF Machine, Alters, Apart

(* OP_RETURN.                                                              *)
Popped(m, th) == luaD_poscall(luaF_close(m, th, Func(m.thread[th]) + 1), th, <<"v">>)

Returned(m, th) ==
  IF Last(m.cs).n = 1 THEN Doing(Leave(Popped(m, th)), "return")
  ELSE [Popped(m, th) EXCEPT !.cs[Len(m.cs)].n = @ - 1]

(* OP_RETURN keeps the accounts: it closes its own upvalues before its     *)
(* slots go.                                                               *)
LEMMA ReturnStep ==
  ASSUME NEW m, NEW th, At(m, th), m.mode = "run", m.cs # <<>>, Last(m.cs).kind = "execute",
         NEW p, p = Returned(m, th)
  PROVE  Does(m, p, th) /\ ModeFits(p)
<1>0. PICK closed, returned :
        /\ closed = luaF_close(m, th, Func(m.thread[th]) + 1)
        /\ returned = luaD_poscall(closed, th, <<"v">>)
        /\ p = IF Last(m.cs).n = 1 THEN Doing(Leave(returned), "return")
               ELSE [returned EXCEPT !.cs[Len(m.cs)].n = @ - 1]
  BY Zenon DEF Returned, Popped
<1> DEFINE s == m.cs
           n == Len(s) - 1
           t == m.thread[th]
           l == Len(t.ci)
           func == t.ci[l].func
           u == returned.thread[th]
<1>1. m \in Machine /\ th \in Threads /\ s \in Seq(Activation) /\ Stacked(s) /\ OnTop(s, th)
  BY TopIs
<1>2. /\ n \in Nat /\ n + 1 = Len(s) /\ s[n + 1] = Last(s) /\ Front(s) \in Seq(Activation)
      /\ Len(Front(s)) = n /\ \A j \in 1 .. n : Front(s)[j] = s[j]
      /\ n # 0 => n \in 1 .. Len(s) /\ <<s[n].kind, s[n + 1].kind>> \in Stands
      /\ n = 0 => s[n + 1].kind = "pcall"
  <2>1. s # <<>> /\ n = Len(s) - 1
    OBVIOUS
  <2> HIDE DEF s
  <2> QED BY <1>1, <2>1, StackedUnder
<1>3. l >= 2 /\ l \in Nat /\ func \in 2 .. Len(t.stack)
  <2>1. l >= 2 /\ l \in Nat /\ func \in 2 .. Len(t.stack)
    BY TopFrame
  <2> QED BY <2>1
<1>4. Alters(m, closed, th) /\ closed.cs = s /\ closed.mode = "run" /\ Closes(t, closed.thread[th], func + 1)
  <2>1. Func(t) = func
    BY DEF Func, Last
  <2>2. closed = luaF_close(m, th, func + 1)
    BY <1>0, <2>1
  <2> QED BY <1>1, <2>2, CloseMade
<1>5. Alters(closed, returned, th) /\ returned.cs = s /\ returned.mode = "run"
      /\ Pops(closed.thread[th], u)
  <2>1. closed.thread[th].ci # <<>>
    <3>1. t.ci # <<>>
      BY <1>3
    <3> QED BY <1>4, <3>1 DEF Closes
  <2>2. closed.thread[th].ci[Len(closed.thread[th].ci)].func \in 1 .. Len(closed.thread[th].stack)
    BY <1>3, <1>4 DEF Closes
  <2>3. closed \in Machine
    BY <1>4 DEF Alters
  <2>4. returned = luaD_poscall(closed, th, <<"v">>)
    BY <1>0
  <2>5. /\ Alters(closed, returned, th) /\ returned.cs = closed.cs /\ returned.mode = closed.mode
        /\ Pops(closed.thread[th], returned.thread[th])
    BY <1>1, <2>1, <2>2, <2>3, <2>4, PoscallMade
  <2> QED BY <1>4, <2>5
<1>6. /\ u.nCcalls = t.nCcalls /\ u.baseCcalls = t.baseCcalls /\ u.errfunc = t.errfunc
      /\ Len(u.ci) = l - 1 /\ \A k \in 1 .. l - 1 : u.ci[k] = t.ci[k]
      /\ Prefix(t.stack, u.stack, func - 1)
      /\ u.open = {i \in t.open : i < func + 1}
  BY <1>4, <1>5 DEF Closes, Pops, Rest
<1>7. Apart(m, returned, th) /\ returned \in Machine
  BY <1>4, <1>5 DEF Alters, Apart
<1>8. DropsFrame(t, u)
  <2>1. m.thread[th] \in ThreadState
    BY TopIs
  <2>2. \A i \in u.open : i <= func
    <3>1. func \in Nat /\ t.open \subseteq Nat
      <4> HIDE DEF func
      <4> QED BY <1>3, <2>1 DEF ThreadState
    <3>2. \A i, f \in Nat : i < f + 1 => i <= f
      OBVIOUS
    <3> HIDE DEF func
    <3> QED BY <1>6, <3>1, <3>2
  <2>3. u.open \subseteq t.open
    BY <1>6
  <2>4. Len(u.ci) # l
    <3> HIDE DEF l
    <3> QED BY <1>3, <1>6
  <2> QED BY <1>6, <2>2, <2>3, <2>4 DEF DropsFrame
<1>9. Last(s).n \in Nat \ {0} /\ Size(s[n + 1]) = Last(s).n
  <2>1. s[n + 1] \in Activation /\ s[n + 1].kind = "execute"
    <3>1. n + 1 \in 1 .. Len(s)
      BY <1>2
    <3> HIDE DEF n
    <3> QED BY <1>1, <1>2, <3>1
  <2> QED BY <1>2, <2>1 DEF Activation, Size
<1>10. CASE Last(s).n = 1
  <2>1. PICK q : q = Leave(returned) /\ p = Doing(q, "return")
    BY <1>0, <1>10
  <2>2. Alters(returned, q, th) /\ q.cs = Front(s) /\ q.thread = returned.thread
    BY <1>1, <1>5, <1>7, <2>1, OtherwiseMade
  <2>3. Alters(q, p, th) /\ p.cs = Front(s) /\ p.mode = "return" /\ p.thread = returned.thread
    <3>1. q \in Machine /\ "return" \in Modes
      BY <2>2 DEF Alters, Modes
    <3>2. Alters(q, p, th) /\ p.cs = q.cs /\ p.mode = "return" /\ p.thread = q.thread
      BY <1>1, <2>1, <3>1, OtherwiseMade
    <3> QED BY <2>2, <3>2
  <2>4. p \in Machine /\ Apart(m, p, th)
    BY <1>7, <2>2, <2>3 DEF Alters, Apart
  <2>5. DropsStack(s, p.cs, n)
    BY <1>2, <2>3 DEF DropsStack
  <2>6. Len(p.thread[th].ci) + Size(s[n + 1]) = Len(t.ci) + (IF Len(p.cs) = n THEN 0 ELSE Size(p.cs[n + 1]))
    <3>1. Len(p.thread[th].ci) = l - 1 /\ Size(s[n + 1]) = 1 /\ Len(p.cs) = n
      BY <1>2, <1>6, <1>9, <1>10, <2>3
    <3>2. (l - 1) + 1 = l + 0
      <4> HIDE DEF l
      <4> QED BY <1>3
    <3> QED BY <3>1, <3>2
  <2>7. DropsFrame(t, p.thread[th])
    BY <1>8, <2>3
  <2> HIDE DEF n
  <2>8. Does(m, p, th)
    BY <2>4, <2>5, <2>6, <2>7, DropStep
  <2>9. ModeFits(p)
    <3>1. n # 0
      BY <1>2
    <3>2. s[n].kind # "execute" /\ s[n] = Front(s)[n]
      BY <1>2, <3>1 DEF Stands
    <3>3. Last(Front(s)).kind # "execute" /\ Front(s) # <<>>
      BY <1>2, <3>1, <3>2 DEF Last
    <3> QED BY <2>3, <3>3 DEF ModeFits
  <2> QED BY <2>8, <2>9
<1>11. CASE Last(s).n # 1
  <2>1. PICK k \in Nat \ {0} : k = Last(s).n - 1
    BY <1>9, <1>11
  <2>2. PICK r : r = WithCount(s, k)
    OBVIOUS
  <2>3. p = [returned EXCEPT !.cs = r]
    <3>1. p = [returned EXCEPT !.cs[Len(s)].n = @ - 1]
      BY <1>0, <1>11
    <3>2. returned.cs = s /\ s[Len(s)].n - 1 = k
      BY <1>5, <2>1 DEF Last
    <3> HIDE DEF s
    <3> QED BY <2>2, <3>1, <3>2, Zenon DEF WithCount
  <2>4. /\ r \in Seq(Activation) /\ Len(r) = Len(s) /\ \A j \in 1 .. n : r[j] = s[j]
        /\ r[n + 1].kind = "execute" /\ r[n + 1].th = s[n + 1].th /\ Size(r[n + 1]) = k
        /\ Last(r) = r[n + 1] /\ r # <<>>
    <3>1. n = Len(s) - 1 /\ s # <<>> /\ Last(s).kind = "execute"
      OBVIOUS
    <3> HIDE DEF s, n
    <3>2. Recounts(s, r, n, k)
      BY <1>1, <2>2, <3>1, Counts
    <3> QED BY <3>2 DEF Recounts
  <2>5. Alters(returned, p, th) /\ p.cs = r /\ p.mode = "run" /\ p.thread = returned.thread
    <3> HIDE DEF n, s
    <3>1. r \in Seq(Activation)
      BY <2>4
    <3> QED BY <1>1, <1>5, <1>7, <2>3, <3>1, CsMade
  <2>6. p \in Machine /\ Apart(m, p, th)
    BY <1>7, <2>5 DEF Alters, Apart
  <2>7. DropsStack(s, p.cs, n)
    BY <1>2, <2>4, <2>5 DEF DropsStack
  <2>8. Len(p.thread[th].ci) + Size(s[n + 1]) = Len(t.ci) + (IF Len(p.cs) = n THEN 0 ELSE Size(p.cs[n + 1]))
    <3>1. Len(p.thread[th].ci) = l - 1 /\ Size(s[n + 1]) = Last(s).n
          /\ Size(p.cs[n + 1]) = Last(s).n - 1 /\ Len(p.cs) # n
      <4>1. Len(p.thread[th].ci) = l - 1
        BY <1>6, <2>5
      <4> HIDE DEF n, s, t, l
      <4>2. Size(p.cs[n + 1]) = Last(s).n - 1
        BY <2>1, <2>4, <2>5
      <4>3. Len(p.cs) # n
        BY <1>2, <2>4, <2>5
      <4> QED BY <1>9, <4>1, <4>2, <4>3
    <3>2. \A x, y \in Nat : (x - 1) + y = x + (y - 1)
      OBVIOUS
    <3>3. l \in Nat /\ Last(s).n \in Nat
      BY <1>3, <1>9
    <3> HIDE DEF l
    <3> QED BY <3>1, <3>2, <3>3 DEF l
  <2>9. DropsFrame(t, p.thread[th])
    BY <1>8, <2>5
  <2> HIDE DEF n
  <2>10. Does(m, p, th)
    BY <2>6, <2>7, <2>8, <2>9, DropStep
  <2>11. ModeFits(p)
    <3>1. Goes(p, th) /\ At(p, th)
      BY <2>4, <2>5, <2>10 DEF Goes, Does
    <3> QED BY <3>1, GoesFits
  <2> QED BY <2>10, <2>11
<1> QED BY <1>10, <1>11

(* A machine whose mode is replaced.                                       *)
LEMMA DoingMade ==
  ASSUME NEW m \in Machine, NEW th \in Threads, NEW what \in Modes, NEW p, p = Doing(m, what)
  PROVE  Alters(m, p, th) /\ p.cs = m.cs /\ p.mode = what /\ p.thread = m.thread
  BY OtherwiseMade

(* OP_CALL.                                                                *)
LEMMA PrecallGoes ==
  ASSUME NEW m, NEW th, At(m, th), NEW func \in 1 .. Len(m.thread[th].stack), m.cs # <<>>,
         Last(m.cs).kind \in {"call", "execute", "cfun", "resume"},
         NEW p, Refused(m, p, th) \/ CallsC(m, p, th, func)
  PROVE  Does(m, p, th) /\ Goes(p, th)
<1>1. m.cs \in Seq(Activation) /\ th \in Threads /\ m.thread[th].stack[func] \in Value
  BY TopIs, ThreadFields
<1>2. CASE Refused(m, p, th)
  BY <1>2 DEF Refused, Broken, Goes, Errors
<1>3. CASE CallsC(m, p, th, func)
  <2>1. PICK b \in Activation : b = Cfunction(th, m.thread[th].stack[func]) /\ b.kind = "cfun"
    BY <1>1, OneFrame, Zenon
  <2>2. p.cs = Append(m.cs, b) /\ p.mode = "run" /\ Does(m, p, th)
    BY <1>3, <2>1 DEF CallsC
  <2> QED BY <1>1, <2>1, <2>2, LastAppended DEF Goes
<1> QED BY <1>2, <1>3

(* OP_CALL of a Lua function adds one frame to the luaV_execute that runs. *)
LEMMA OneMoreCounts ==
  ASSUME NEW m, NEW th, At(m, th), m.cs # <<>>, Last(m.cs).kind = "execute",
         NEW p, p.cs = WithCount(m.cs, Last(m.cs).n + 1), NEW n, n = Len(m.cs) - 1
  PROVE  /\ p.cs \in Seq(Activation) /\ Stacked(p.cs) /\ p.cs[n + 1].kind = "execute"
         /\ KeepsStack(m, p, th, n) /\ EntersStack(m.cs, p.cs, th, n)
<1> DEFINE s == m.cs
           r == p.cs
           k == Last(s).n + 1
<1>1. s \in Seq(Activation) /\ Stacked(s) /\ OnTop(s, th) /\ s # <<>>
  BY TopIs
<1>2. /\ n \in Nat /\ n + 1 = Len(s) /\ n \in 0 .. Len(s) /\ n + 1 \in 1 .. Len(s)
      /\ s[n + 1] = Last(s) /\ s[n + 1].th = th /\ s[n + 1].kind = "execute"
      /\ (n + 1) - 1 = n
  <2>1. Last(s).kind = "execute"
    OBVIOUS
  <2>2. n = Len(s) - 1
    OBVIOUS
  <2> HIDE DEF s
  <2>3. n \in Nat /\ n + 1 = Len(s) /\ n \in 0 .. Len(s) /\ s[n + 1] = Last(s)
    BY <1>1, <2>2, StackedUnder
  <2> QED BY <1>1, <2>1, <2>3 DEF OnTop
<1>3. Last(s).n \in Nat \ {0} /\ Size(s[n + 1]) = Last(s).n
  <2> HIDE DEF s
  <2>1. s[n + 1] \in Activation
    BY <1>1, <1>2
  <2> QED BY <1>2, <2>1 DEF Activation, Size
<1>4. /\ r \in Seq(Activation) /\ Len(r) = Len(s) /\ \A j \in 1 .. n : r[j] = s[j]
      /\ r[n + 1].kind = "execute" /\ r[n + 1].th = s[n + 1].th /\ Size(r[n + 1]) = k
  <2>1. n = Len(s) - 1 /\ Last(s).kind = "execute"
    OBVIOUS
  <2>2. PICK x \in Nat \ {0} : x = k
    BY <1>3
  <2>3. r = WithCount(s, x)
    BY <2>2
  <2> HIDE DEF s, r, k
  <2>4. /\ r \in Seq(Activation) /\ Len(r) = Len(s) /\ \A j \in 1 .. n : r[j] = s[j]
        /\ r[n + 1].kind = "execute" /\ r[n + 1].th = s[n + 1].th /\ Size(r[n + 1]) = x
    <3>1. Recounts(s, r, n, x)
      BY <1>1, <2>1, <2>3, Counts
    <3> QED BY <3>1 DEF Recounts
  <2> QED BY <2>2, <2>4
<1> HIDE DEF s, r
<1>5. Stacked(r)
  <2>1. Len(r) <= Len(s) /\ \A i \in 1 .. Len(r) : r[i].kind = s[i].kind /\ r[i].th = s[i].th
    <3>1. \A i \in 1 .. Len(r) : i \in 1 .. n \/ i = n + 1
      BY <1>2, <1>4
    <3> QED BY <1>2, <1>4, <3>1
  <2> QED BY <1>1, <1>4, <2>1, StackedLess
<1>6. KeepsStack(m, p, th, n)
  <2>1. LeavesOnTop(th, r, n)
    BY <1>2, <1>4 DEF LeavesOnTop
  <2>2. n <= Len(r) /\ \A j \in n + 1 .. Len(s) : s[j].th = th
    <3>1. \A j \in n + 1 .. Len(s) : j = n + 1
      BY <1>2
    <3> QED BY <1>2, <1>4, <3>1
  <2> QED BY <1>2, <1>4, <2>1, <2>2 DEF KeepsStack, s, r
<1>7. EntersStack(s, r, th, n)
  <2>1. /\ CallsIn(r, n) = CallsIn(s, n) /\ Depth(r, th, n) = Depth(s, th, n)
        /\ Nearest(r, th, n) = Nearest(s, th, n)
    BY <1>2, <1>4, SamePart
  <2>2. CallsIn(r, n + 1) = CallsIn(s, n + 1)
    <3>1. \A j \in 1 .. n + 1 : r[j].kind = s[j].kind
      <4>1. \A j \in 1 .. n + 1 : j \in 1 .. n \/ j = n + 1
        BY <1>2
      <4> QED BY <1>2, <1>4, <4>1
    <3>2. n + 1 \in Nat
      BY <1>2
    <3> QED BY <3>1, <3>2, CallsSame
  <2>3. Nearest(r, th, n + 1) = Nearest(s, th, n + 1)
    <3>1. n + 1 \in Nat \ {0}
      BY <1>2
    <3>2. Nearest(r, th, n + 1) = Nearest(r, th, (n + 1) - 1)
      BY <1>4, <3>1, NearestSkips
    <3>3. Nearest(s, th, n + 1) = Nearest(s, th, (n + 1) - 1)
      BY <1>2, <3>1, NearestSkips
    <3> QED BY <1>2, <2>1, <3>2, <3>3
  <2>4. Depth(r, th, n + 1) = Depth(s, th, n + 1) + 1
    <3>1. n + 1 \in 1 .. Len(r)
      BY <1>2, <1>4
    <3>2. Depth(r, th, n + 1) = Depth(r, th, (n + 1) - 1) + (IF r[n + 1].th = th THEN Size(r[n + 1]) ELSE 0)
      BY <1>4, <3>1, DepthLast
    <3>3. Depth(s, th, n + 1) = Depth(s, th, (n + 1) - 1) + (IF s[n + 1].th = th THEN Size(s[n + 1]) ELSE 0)
      BY <1>1, <1>2, DepthLast
    <3>4. Depth(s, th, n) \in Nat
      BY <1>1, <1>2, DepthStep
    <3>5. Depth(r, th, n + 1) = Depth(s, th, n) + (Last(s).n + 1) /\ Depth(s, th, n + 1) = Depth(s, th, n) + Last(s).n
      BY <1>2, <1>3, <1>4, <2>1, <3>2, <3>3
    <3>6. \A x, y \in Nat : x + (y + 1) = (x + y) + 1
      OBVIOUS
    <3>7. Last(s).n \in Nat
      BY <1>3
    <3> QED BY <3>4, <3>5, <3>6, <3>7, Zenon
  <2> QED BY <1>2, <1>4, <2>2, <2>3, <2>4 DEF EntersStack
<1> QED BY <1>4, <1>5, <1>6, <1>7 DEF s, r

(* OP_CALL keeps the accounts.                                             *)
LEMMA CallInstruction ==
  ASSUME NEW m, NEW th, At(m, th), m.mode = "run", m.cs # <<>>, Last(m.cs).kind = "execute",
         NEW func \in 1 .. Len(m.thread[th].stack),
         Fits(th, m.thread[th], m.cs, func - 1), NEW wanted \in Int,
         NEW p, p = OneMore(luaD_precall(m, th, func, wanted))
  PROVE  Does(m, p, th) /\ ModeFits(p)
<1>1. PICK called : called = luaD_precall(m, th, func, wanted) /\ p = OneMore(called)
  OBVIOUS
<1>2. Refused(m, called, th) \/ CallsC(m, called, th, func) \/ CallsLua(m, called, th, func)
  BY <1>1, PrecallStep
<1>3. m \in Machine /\ th \in Threads /\ m.cs \in Seq(Activation)
  BY TopIs
<1>4. CASE Refused(m, called, th) \/ CallsC(m, called, th, func)
  <2>1. p = called
    BY <1>1, <1>4 DEF OneMore, Refused, Broken, CallsC
  <2>2. Does(m, p, th) /\ Goes(p, th)
    BY <1>4, <2>1, PrecallGoes
  <2> QED BY <2>2, GoesFits DEF Does
<1>5. CASE CallsLua(m, called, th, func)
  <2>1. /\ called \in Machine /\ called.cs = m.cs /\ called.mode = "lua" /\ Apart(m, called, th)
        /\ Entered(m.thread[th], called.thread[th], func)
        /\ called.thread[th].stack[func] \in LuaFunctions
        /\ Len(called.thread[th].stack) = func + 1
    BY <1>5 DEF CallsLua
  <2>2. PICK r : r = WithCount(m.cs, Last(m.cs).n + 1)
    OBVIOUS
  <2>3. PICK q : q = [called EXCEPT !.cs = r] /\ p = Doing(q, "run")
    <3>1. p = Doing([called EXCEPT !.cs[Len(called.cs)].n = @ + 1], "run")
      BY <1>1, <2>1 DEF OneMore
    <3>2. m.cs[Len(m.cs)] = Last(m.cs)
      BY DEF Last
    <3> QED BY <2>1, <2>2, <3>1, <3>2, Zenon DEF WithCount
  <2>4. PICK n : n = Len(m.cs) - 1
    OBVIOUS
  <2>5. r \in Seq(Activation)
    <3>1. Last(m.cs).n + 1 \in Nat \ {0}
      <4>1. Last(m.cs) \in Activation
        BY <1>3 DEF Last
      <4> QED BY <4>1 DEF Activation
    <3>2. Recounts(m.cs, r, n, Last(m.cs).n + 1)
      BY <1>3, <2>2, <2>4, <3>1, Counts
    <3> QED BY <3>2 DEF Recounts
  <2>6. Alters(called, q, th) /\ q.cs = r /\ q.thread = called.thread
    BY <1>3, <2>1, <2>3, <2>5, CsMade
  <2>7. Alters(q, p, th) /\ p.cs = r /\ p.mode = "run" /\ p.thread = called.thread
    <3>1. q \in Machine /\ "run" \in Modes
      BY <2>6 DEF Alters, Modes
    <3>2. Alters(q, p, th) /\ p.cs = q.cs /\ p.mode = "run" /\ p.thread = q.thread
      <4>1. p = Doing(q, "run")
        BY <2>3
      <4> QED BY <1>3, <3>1, <4>1, DoingMade
    <3> QED BY <2>6, <3>2
  <2>8. p \in Machine /\ Apart(m, p, th)
    BY <2>1, <2>6, <2>7 DEF Alters, Apart
  <2>9. /\ Stacked(p.cs) /\ p.cs[n + 1].kind = "execute"
        /\ KeepsStack(m, p, th, n) /\ EntersStack(m.cs, p.cs, th, n)
    <3>1. p.cs = WithCount(m.cs, Last(m.cs).n + 1)
      BY <2>2, <2>7
    <3> QED BY <2>4, <3>1, OneMoreCounts
  <2>10. /\ Entered(m.thread[th], p.thread[th], func)
         /\ p.thread[th].stack[func] \in LuaFunctions
         /\ func + 1 <= Len(p.thread[th].stack)
    <3>1. func \in Nat
      BY <2>1
    <3>2. func + 1 <= func + 1
      BY <3>1
    <3> QED BY <2>1, <2>7, <3>2
  <2>11. Does(m, p, th)
    BY <2>8, <2>9, <2>10, EnterStep
  <2>12. Goes(p, th)
    <3>1. Last(p.cs).kind = "execute" /\ p.cs # <<>>
      <4>1. Len(p.cs) = n + 1 /\ p.cs \in Seq(Activation)
        BY <2>5, <2>7, <2>9 DEF EntersStack
      <4>2. n + 1 # 0
        BY <1>3, <2>4
      <4> QED BY <2>9, <4>1, <4>2 DEF Last
    <3> QED BY <2>7, <3>1 DEF Goes
  <2> QED BY <2>11, <2>12, GoesFits DEF Does
<1> QED BY <1>2, <1>4, <1>5

(* OP_TAILCALL.                                                            *)
Replaced(m, th, func) ==
  IF m.mode # "lua" THEN m
  ELSE Doing(Push(Cut(FrameLess(luaF_close(m, th, func + 1), th), th, func - 1), th,
                  <<"L", Nil>>), "run")

(* OP_TAILCALL keeps the accounts: the frame it takes away has its         *)
(* upvalues closed, and luaV_execute's count stays.                        *)
LEMMA TailInstruction ==
  ASSUME NEW m, NEW th, At(m, th), m.mode = "run", m.cs # <<>>, Last(m.cs).kind = "execute",
         NEW func \in 1 .. Len(m.thread[th].stack),
         Fits(th, m.thread[th], m.cs, func - 1), NEW wanted \in Int,
         NEW p, p = Replaced(luaD_precall(m, th, func, wanted), th, Func(m.thread[th]))
  PROVE  Does(m, p, th) /\ ModeFits(p)
<1>1. PICK called : called = luaD_precall(m, th, func, wanted) /\ p = Replaced(called, th, Func(m.thread[th]))
  OBVIOUS
<1>2. Refused(m, called, th) \/ CallsC(m, called, th, func) \/ CallsLua(m, called, th, func)
  BY <1>1, PrecallStep
<1>3. m \in Machine /\ th \in Threads /\ m.cs \in Seq(Activation) /\ m.thread[th] \in ThreadState
      /\ Stacked(m.cs)
  BY TopIs
<1>4. CASE Refused(m, called, th) \/ CallsC(m, called, th, func)
  <2>1. p = called
    BY <1>1, <1>4 DEF Replaced, Refused, Broken, CallsC
  <2>2. Does(m, p, th) /\ Goes(p, th)
    BY <1>4, <2>1, PrecallGoes
  <2> QED BY <2>2, GoesFits DEF Does
<1>5. CASE CallsLua(m, called, th, func)
  <2> DEFINE t == m.thread[th]
             l == Len(t.ci)
             own == t.ci[l].func
             v == called.thread[th]
  <2>1. /\ called \in Machine /\ called.cs = m.cs /\ called.mode = "lua" /\ Apart(m, called, th)
        /\ Rest(t, v) /\ Len(v.ci) = l + 1 /\ \A k \in 1 .. l : v.ci[k] = t.ci[k]
        /\ \A j \in 1 .. func : v.stack[j] = t.stack[j]
        /\ Len(v.stack) = func + 1
    BY <1>5 DEF CallsLua, Entered
  <2>2. l \in Nat /\ l >= 2 /\ own \in 2 .. Len(t.stack) /\ RunsLua(t, l)
    <3>1. /\ l \in Nat /\ l >= 2 /\ own \in 2 .. Len(t.stack)
          /\ RunsLua(t, l) <=> Last(m.cs).kind = "execute"
      BY TopFrame
    <3> QED BY <3>1
  <2>3. own + 1 <= func - 1 /\ own \in Nat /\ func \in Nat /\ own - 1 \in Nat
    <3>1. l \in 1 .. Len(t.ci) /\ l > 1
      BY <2>2
    <3>2. Needs(t, l) <= func - 1
      BY <3>1 DEF Fits
    <3>3. Needs(t, l) = own + 1
      BY <2>2, <3>1, Zenon DEF Needs
    <3>4. own \in Nat /\ own >= 1 /\ func \in Nat
      <4>1. Len(t.stack) \in Nat
        BY <1>3, ThreadFields
      <4> HIDE DEF own, t
      <4> QED BY <2>2, <4>1
    <3>5. own + 1 <= func - 1
      BY <3>2, <3>3
    <3> HIDE DEF own
    <3> QED BY <3>4, <3>5
  <2>4. PICK m1, m2, m3, m4, values :
          /\ m1 = luaF_close(called, th, own + 1) /\ m2 = FrameLess(m1, th)
          /\ m3 = Cut(m2, th, own - 1) /\ m4 = Push(m3, th, values) /\ values = <<"L", Nil>>
          /\ p = Doing(m4, "run")
    <3>1. Func(t) = own
      BY DEF Func, Last
    <3>2. p = Doing(Push(Cut(FrameLess(luaF_close(called, th, own + 1), th), th, own - 1), th,
                         <<"L", Nil>>), "run")
      BY <1>1, <2>1, <3>1 DEF Replaced
    <3> QED BY <3>2, Zenon
  <2>5. Alters(called, m1, th) /\ m1.cs = m.cs /\ Closes(v, m1.thread[th], own + 1)
    BY <1>3, <2>1, <2>4, CloseMade
  <2>6. Alters(m1, m2, th) /\ m2.cs = m.cs /\ LosesFrame(m1.thread[th], m2.thread[th])
    <3>1. m1.thread[th].ci # <<>>
      <4>1. Len(v.ci) # 0
        BY <2>1, <2>2
      <4>2. m1.thread[th].ci = v.ci
        BY <2>5 DEF Closes
      <4> QED BY <4>1, <4>2
    <3>2. m1 \in Machine
      BY <2>5 DEF Alters
    <3> QED BY <1>3, <2>4, <2>5, <3>1, <3>2, FrameLost
  <2>7. m2.thread[th].stack = v.stack
    BY <2>5, <2>6 DEF Closes, LosesFrame
  <2>8. /\ Alters(m2, m3, th) /\ m3.cs = m.cs
        /\ Restacked(m2.thread[th], m3.thread[th], SubSeq(v.stack, 1, own - 1))
    <3>1. own - 1 \in 0 .. Len(m2.thread[th].stack)
      <4>1. Len(m2.thread[th].stack) = func + 1
        BY <2>1, <2>7
      <4> HIDE DEF own
      <4> QED BY <2>3, <4>1
    <3>2. m2 \in Machine /\ m3 = Cut(m2, th, own - 1)
      BY <2>4, <2>6 DEF Alters
    <3> HIDE DEF own, v
    <3>3. /\ Alters(m2, m3, th) /\ m3.cs = m2.cs
          /\ Restacked(m2.thread[th], m3.thread[th], SubSeq(m2.thread[th].stack, 1, own - 1))
      BY <1>3, <3>1, <3>2, CutMade
    <3> QED BY <2>6, <2>7, <3>3
  <2>9. values \in Seq(Value) /\ Len(values) = 2 /\ values[1] = "L"
    <3>1. values = <<"L", Nil>> /\ "L" \in Value /\ Nil \in Value
      BY <2>4 DEF Value
    <3> QED BY ONLY <3>1
  <2>10. /\ Alters(m3, m4, th) /\ m4.cs = m.cs
         /\ Restacked(m3.thread[th], m4.thread[th], m3.thread[th].stack \o values)
    <3>1. m3 \in Machine /\ m4 = Push(m3, th, values)
      BY <2>4, <2>8 DEF Alters
    <3> QED BY <1>3, <2>8, <2>9, <3>1, PushMade
  <2>11. Alters(m4, p, th) /\ p.cs = m.cs /\ p.mode = "run" /\ p.thread = m4.thread
    <3>1. m4 \in Machine /\ p = Doing(m4, "run") /\ "run" \in Modes
      BY <2>4, <2>10 DEF Alters, Modes
    <3> QED BY <1>3, <2>10, <3>1, DoingMade
  <2>12. p \in Machine /\ Apart(m, p, th)
    BY <2>1, <2>5, <2>6, <2>8, <2>10, <2>11 DEF Alters, Apart
  <2> DEFINE u == p.thread[th]
             st == m3.thread[th].stack
             st2 == u.stack
  <2>13. st2 = st \o values /\ st = SubSeq(v.stack, 1, own - 1)
    BY <2>8, <2>10, <2>11 DEF Restacked
  <2>14. /\ Len(st2) = own + 1 /\ st2[own] = "L" /\ \A j \in 1 .. own - 1 : st2[j] = t.stack[j]
    <3>1. v.stack \in Seq(Value)
      BY <1>3, <2>1 DEF Machine, ThreadState
    <3>2. own - 1 \in 0 .. Len(v.stack) /\ \A j \in 1 .. own - 1 : v.stack[j] = t.stack[j]
      <4>1. \A j \in 1 .. own - 1 : j \in 1 .. func
        <5> HIDE DEF own
        <5> QED BY <2>3
      <4>2. own - 1 \in 0 .. func + 1
        <5> HIDE DEF own
        <5> QED BY <2>3
      <4> QED BY <2>1, <4>1, <4>2
    <3> HIDE DEF own, v, t, st, st2
    <3>3. st \in Seq(Value) /\ Len(st) = own - 1 /\ Prefix(v.stack, st, own - 1)
      BY <2>13, <3>1, <3>2, CutShort
    <3>4. /\ Len(st2) = Len(st) + Len(values) /\ Prefix(st, st2, Len(st))
          /\ \A j \in 1 .. Len(values) : st2[Len(st) + j] = values[j]
      <4>1. st \in Seq(Value) /\ values \in Seq(Value) /\ st2 = st \o values
        BY <2>9, <2>13, <3>3
      <4> QED BY ONLY <4>1, PushedOn
    <3>5. Len(st2) = own + 1 /\ (own - 1) + 1 = own
      BY <2>3, <2>9, <3>3, <3>4
    <3>6. st2[own] = "L"
      <4>1. 1 \in 1 .. Len(values)
        BY <2>9
      <4>2. st2[Len(st) + 1] = values[1]
        BY <3>4, <4>1
      <4> QED BY <2>9, <3>3, <3>5, <4>2
    <3>7. \A j \in 1 .. own - 1 : st2[j] = t.stack[j]
      BY <3>2, <3>3, <3>4 DEF Prefix
    <3> QED BY <3>5, <3>6, <3>7
  <2>15. /\ u.nCcalls = t.nCcalls /\ u.baseCcalls = t.baseCcalls /\ u.errfunc = t.errfunc
         /\ u.open = {i \in t.open : i < own + 1} /\ u.ci = m2.thread[th].ci
    <3> DEFINE Numbers(x) == <<x.nCcalls, x.baseCcalls, x.errfunc>>
    <3>1. Numbers(v) = Numbers(t) /\ v.open = t.open
      BY <2>1 DEF Rest
    <3>2. Numbers(m1.thread[th]) = Numbers(v) /\ m1.thread[th].open = {i \in v.open : i < own + 1}
      BY <2>5 DEF Closes, Rest
    <3>3. /\ Numbers(m2.thread[th]) = Numbers(m1.thread[th])
          /\ m2.thread[th].open = m1.thread[th].open
      BY <2>6 DEF LosesFrame, Rest
    <3>4. /\ Numbers(m3.thread[th]) = Numbers(m2.thread[th])
          /\ m3.thread[th].open = m2.thread[th].open /\ m3.thread[th].ci = m2.thread[th].ci
      BY <2>8 DEF Restacked, Rest
    <3>5. /\ Numbers(m4.thread[th]) = Numbers(m3.thread[th])
          /\ m4.thread[th].open = m3.thread[th].open /\ m4.thread[th].ci = m3.thread[th].ci
      BY <2>10 DEF Restacked, Rest
    <3>6. u = m4.thread[th]
      BY <2>11
    <3>7. /\ Numbers(u) = Numbers(t) /\ u.open = {i \in t.open : i < own + 1}
          /\ u.ci = m2.thread[th].ci
      <4> HIDE DEF u, t, v, own, Numbers
      <4> QED BY ONLY <3>1, <3>2, <3>3, <3>4, <3>5, <3>6
    <3> HIDE DEF u, t, own
    <3> QED BY ONLY <3>7
  <2>16. Len(u.ci) = l /\ \A k \in 1 .. l : u.ci[k] = t.ci[k]
    <3>1. m1.thread[th].ci = v.ci
      BY <2>5 DEF Closes
    <3>2. Len(u.ci) = Len(v.ci) - 1 /\ \A k \in 1 .. Len(v.ci) - 1 : u.ci[k] = v.ci[k]
      BY <2>6, <2>15, <3>1 DEF LosesFrame
    <3> HIDE DEF u, v, t, l
    <3>3. Len(v.ci) - 1 = l
      BY <2>1, <2>2
    <3> QED BY <2>1, <3>2, <3>3
  <2>17. DropsFrame(t, u)
    <3>1. u.open \subseteq t.open /\ \A i \in u.open : i <= own
      <4>1. t.open \subseteq Nat
        BY <1>3 DEF ThreadState
      <4>2. \A i, f \in Nat : i < f + 1 => i <= f
        OBVIOUS
      <4> HIDE DEF own
      <4> QED BY <2>3, <2>15, <4>1, <4>2
    <3>2. u.ci[l].func = own /\ l \in 1 .. l
      <4>1. l \in 1 .. l
        <5> HIDE DEF l
        <5> QED BY <2>2
      <4>2. u.ci[l] = t.ci[l]
        <5> HIDE DEF u, t, l
        <5> QED BY ONLY <2>16, <4>1
      <4> QED BY <4>1, <4>2
    <3>3. RunsLua(u, l)
      BY <2>14, <3>2 DEF RunsLua, LuaFunctions
    <3>4. own + 1 <= Len(u.stack)
      <4> HIDE DEF own
      <4> QED BY <2>3, <2>14
    <3>5. Prefix(t.stack, u.stack, own - 1)
      <4>1. own - 1 <= Len(u.stack)
        <5> HIDE DEF own
        <5> QED BY <2>3, <2>14
      <4> QED BY <2>14, <4>1 DEF Prefix
    <3>6. \A k \in 1 .. l - 1 : u.ci[k] = t.ci[k]
      <4>1. \A k \in 1 .. l - 1 : k \in 1 .. l
        <5> HIDE DEF l
        <5> QED BY <2>2
      <4> QED BY <2>16, <4>1
    <3>7. Len(u.ci) \in {l - 1, l}
      BY <2>16
    <3> HIDE DEF u, t
    <3> QED BY <2>15, <3>1, <3>2, <3>3, <3>4, <3>5, <3>6, <3>7 DEF DropsFrame, t
  <2>18. PICK n : n = Len(m.cs) - 1
    OBVIOUS
  <2>19. DropsStack(m.cs, p.cs, n) /\ Len(p.cs) # n /\ Size(p.cs[n + 1]) = Size(m.cs[n + 1])
    <3>1. n \in Nat /\ n + 1 = Len(m.cs) /\ m.cs[n + 1] = Last(m.cs)
      BY <1>3, <2>18, StackedUnder
    <3> QED BY <1>3, <2>11, <2>18, <3>1 DEF DropsStack
  <2>20. Does(m, p, th)
    <3>1. Len(u.ci) + Size(m.cs[n + 1]) = Len(t.ci) + (IF Len(p.cs) = n THEN 0 ELSE Size(p.cs[n + 1]))
      BY <2>16, <2>19
    <3> QED BY <2>12, <2>17, <2>19, <3>1, DropStep
  <2>21. Goes(p, th)
    BY <2>11 DEF Goes
  <2> QED BY <2>20, <2>21, GoesFits DEF Does
<1> QED BY <1>2, <1>4, <1>5
=============================================================================
