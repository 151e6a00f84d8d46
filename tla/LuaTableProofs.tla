--------------------------- MODULE LuaTableProofs ---------------------------
(***************************************************************************)
(* Proofs about LuaTable, for any keys, hashes and sizes: what a chain is, *)
(* what luaH_set leaves of a table in good shape, the room a resize makes, *)
(* and that the four properties the runs check hold of every table.        *)
(***************************************************************************)
EXTENDS LuaTable, FiniteSetTheorems, WellFoundedInduction, TLAPS

Vals == {Nil} \union {Value[k] : k \in Keys}

NodeType == [key : Keys \union {Nil}, dead : BOOLEAN, val : Vals, next : Int]

(* The types of a table's parts.                                           *)
TableType(N) ==
  [array : Seq(Vals), node : [N -> NodeType], sizenode : Nat \ {0},
   dummy : BOOLEAN, lastfree : Nat]

TableOK(t) ==
  /\ t \in TableType(Nodes(t))
  /\ \A i \in 1 .. Len(t.array) : t.array[i] # Nil => i \in Ints

(* The nodes of a table and their links; next is NULL or another node, no  *)
(* two nodes have the same, and no chain runs in a circle.                 *)
LinksOK(N, next) ==
  /\ NULL \notin N
  /\ next \in [N -> N \union {NULL}]
  /\ \A m, n \in N : next[m] = next[n] /\ next[n] # NULL => m = n
  /\ \A S \in SUBSET N : S # {} => \E n \in S : next[n] \notin S

(* From, of links alone.                                                   *)
Reach(N, next, n) ==
  {m \in N : \A S \in SUBSET (N \ {m}) :
     n \in S => \E k \in S : next[k] \notin S \union {NULL}}

Links(t) == [n \in Nodes(t) |-> t.node[n].next]

(* What was never used is in no chain.                                     *)
Linked(t) ==
  /\ LinksOK(Nodes(t), Links(t))
  /\ \A n \in Nodes(t) : t.node[n].key = Nil => t.node[n] = FreeNode
  /\ \A n \in Nodes(t) : t.node[n].next # NULL => t.node[t.node[n].next].key # Nil

(* A key is in the chain of its main position, where a key stands that is  *)
(* in its own.                                                             *)
Hashed(t) ==
  \A n \in Nodes(t) : t.node[n].key # Nil =>
    /\ ~ InArray(t, t.node[n].key)
    /\ t.node[n].dead => t.node[n].val = Nil
    /\ LET mp == mainposition(t, t.node[n].key)
       IN  /\ t.node[mp].key # Nil /\ mainposition(t, t.node[mp].key) = mp
           /\ n \in From(t, mp)

(* A key that is not dead is in one node; dead ones follow it.             *)
Distinct(t) ==
  \A m, n \in Nodes(t) :
    t.node[n].key # Nil /\ ~ t.node[n].dead /\ t.node[m].key = t.node[n].key /\ m # n =>
      t.node[m].dead /\ m \in From(t, n)

(* From lastfree on no node is free.                                       *)
FreeList(t) ==
  IF t.dummy THEN t.lastfree = 0 /\ \A n \in Nodes(t) : t.node[n].key = Nil
             ELSE \A n \in Nodes(t) : n >= t.lastfree => t.node[n].key # Nil

Shape(t) == TableOK(t) /\ Linked(t) /\ Hashed(t) /\ Distinct(t) /\ FreeList(t)

(* The nodes that were used.                                               *)
Keyed(t) == {n \in Nodes(t) : t.node[n].key # Nil}
Capacity(t) == IF t.dummy THEN 0 ELSE t.sizenode

(* The keys of what resize puts back.                                      *)
EntryKeys(entries) ==
  {entries[i].key : i \in {j \in 1 .. Len(entries) : entries[j].val # Nil}}

(* What a resize has still to put back.                                    *)
Waiting ==
  EntryKeys(old) \union (IF pending = NoEntry THEN {} ELSE {pending.key})

Content(d, key) == IF key \in DOMAIN d THEN d[key] ELSE Nil

EntryType == [key : Keys \union {Nil} \union Nat, val : Vals]

SearchType ==
  [pc : {"none", "double", "linear", "binary", "found"}, i : Nat, j : Nat]

VisitType ==
  [last : Keys \union {Nil}, seen : SUBSET Keys, count : Nat, stayed : SUBSET Keys,
   on : BOOLEAN]

TypeOK ==
  /\ old \in Seq(EntryType) /\ pending \in EntryType
  /\ search \in SearchType
  /\ DOMAIN dict \subseteq Keys /\ \A k \in DOMAIN dict : dict[k] \in Vals \ {Nil}
  /\ visit \in VisitType /\ IsFiniteSet(visit.seen)

(* Every key gives what was assigned, or waits with it.                    *)
Restoring ==
  /\ \A i \in 1 .. Len(old) : old[i].val # Nil =>
       /\ old[i].key \in Keys /\ Content(dict, old[i].key) = old[i].val
       /\ pending # NoEntry => pending.key # old[i].key
       /\ \A j \in 1 .. Len(old) : old[j].val # Nil /\ old[j].key = old[i].key => j = i
  /\ pending # NoEntry => pending.key \in Keys /\ Content(dict, pending.key) = pending.val
  /\ \A key \in Keys \ Waiting : luaH_get(table, key) = Content(dict, key)
  /\ Moving => ~ visit.on

(* There are nodes enough for it.                                          *)
Room ==
  Moving => Cardinality(Keyed(table)) + Cardinality({k \in Waiting : ~ InArray(table, k)})
              <= Capacity(table)

Present(i) == i = 0 \/ i \in DOMAIN dict

(* Each loop of luaH_getn has a present index below an absent one.         *)
InOrder(s) ==
  CASE s.pc = "none"   -> s = NoSearch
    [] s.pc = "double" -> Present(s.i) /\ s.i < s.j
    [] s.pc = "linear" -> s.i >= 1 /\ Present(s.i - 1)
    [] s.pc = "binary" -> Present(s.i) /\ s.i < s.j /\ s.j \notin DOMAIN dict
    [] s.pc = "found"  -> Present(s.i) /\ s.i + 1 \notin DOMAIN dict

Searching == (search = NoSearch \/ ~ Moving) /\ InOrder(search)

(* A traversal has returned the keys up to its place that stayed, and none *)
(* after it.                                                               *)
Visiting ==
  /\ visit.count = Cardinality(visit.seen)
  /\ ~ visit.on => visit.stayed \subseteq visit.seen
  /\ visit.on =>
       /\ visit.stayed \subseteq DOMAIN dict
       /\ findindex(table, visit.last) \in Nat
       /\ \A k \in visit.seen : findindex(table, k) \in 0 .. findindex(table, visit.last)
       /\ \A k \in visit.stayed :
            findindex(table, k) <= findindex(table, visit.last) => k \in visit.seen

IInv == TypeOK /\ Shape(table) /\ Restoring /\ Room /\ Searching /\ Visiting
-----------------------------------------------------------------------------
(* Facts on links.                                                         *)

(* A chain begins with its first node.                                     *)
LEMMA ReachSelf ==
  ASSUME NEW N, NEW next, NEW n \in N
  PROVE  n \in Reach(N, next, n)
BY Zenon DEF Reach

(* Nothing leads out of a chain.                                           *)
LEMMA ReachClosed ==
  ASSUME NEW N, NEW next, NEW n, LinksOK(N, next),
         NEW k \in Reach(N, next, n), next[k] # NULL
  PROVE  next[k] \in Reach(N, next, n)
<1>1. k \in N /\ next[k] \in N
  BY DEF Reach, LinksOK
<1>2. ASSUME NEW S \in SUBSET (N \ {next[k]}), n \in S
      PROVE  \E j \in S : next[j] \notin S \union {NULL}
  <2>1. CASE k \in S
    BY <1>2, <2>1
  <2>2. CASE k \notin S
    <3>1. S \in SUBSET (N \ {k})
      BY <2>2
    <3> QED BY <1>2, <3>1 DEF Reach
  <2> QED BY <2>1, <2>2
<1> QED BY <1>1, <1>2 DEF Reach

(* A chain is within every set that has its first node and is closed.      *)
LEMMA ReachLeast ==
  ASSUME NEW N, NEW next, NEW n, NEW S, S \subseteq N, n \in S,
         \A k \in S : next[k] # NULL => next[k] \in S
  PROVE  Reach(N, next, n) \subseteq S
<1> SUFFICES ASSUME NEW m \in Reach(N, next, n), m \notin S PROVE FALSE
  OBVIOUS
<1>1. S \in SUBSET (N \ {m})
  OBVIOUS
<1> QED BY <1>1 DEF Reach

(* What follows a node of a chain is in the chain.                         *)
LEMMA ReachTrans ==
  ASSUME NEW N, NEW next, NEW n, LinksOK(N, next), NEW m \in Reach(N, next, n)
  PROVE  Reach(N, next, m) \subseteq Reach(N, next, n)
<1>1. Reach(N, next, n) \subseteq N
  BY DEF Reach
<1>2. \A k \in Reach(N, next, n) : next[k] # NULL => next[k] \in Reach(N, next, n)
  BY ReachClosed
<1> QED BY <1>1, <1>2, ReachLeast

(* A chain is its first node and the chain of the next.                    *)
LEMMA ReachStep ==
  ASSUME NEW N, NEW next, NEW n \in N, LinksOK(N, next)
  PROVE  /\ \A m \in Reach(N, next, n) :
              m # n => next[n] # NULL /\ m \in Reach(N, next, next[n])
         /\ next[n] # NULL => Reach(N, next, next[n]) \subseteq Reach(N, next, n)
<1> DEFINE S == {n} \union (IF next[n] = NULL THEN {} ELSE Reach(N, next, next[n]))
<1>1. next[n] # NULL => next[n] \in N
  BY DEF LinksOK
<1>2. S \subseteq N /\ n \in S
  BY DEF Reach
<1>3. ASSUME NEW k \in S, next[k] # NULL PROVE next[k] \in S
  <2>1. CASE k = n
    BY <1>1, <1>3, <2>1, ReachSelf
  <2>2. CASE k # n
    BY <1>3, <2>2, ReachClosed
  <2> QED BY <2>1, <2>2
<1>4. Reach(N, next, n) \subseteq S
  <2> HIDE DEF S
  <2> QED BY <1>2, <1>3, ReachLeast
<1>5. next[n] # NULL => next[n] \in Reach(N, next, n)
  BY ReachSelf, ReachClosed
<1> QED BY <1>4, <1>5, ReachTrans

(* No two nodes are each in the chain of the other.                        *)
LEMMA ReachAntisymmetric ==
  ASSUME NEW N, NEW next, LinksOK(N, next), NEW n \in N,
         NEW m \in Reach(N, next, n), n \in Reach(N, next, m)
  PROVE  m = n
<1> DEFINE C == {x \in Reach(N, next, n) : n \in Reach(N, next, x)}
<1> SUFFICES ASSUME m # n PROVE FALSE
  OBVIOUS
<1>1. C \subseteq N /\ C # {} /\ m \in N
  BY DEF Reach
<1>2. PICK k \in C : next[k] \notin C
  <2> HIDE DEF C
  <2> QED BY <1>1 DEF LinksOK
<1>3. k \in N /\ k \in Reach(N, next, n) /\ n \in Reach(N, next, k)
  BY <1>1
<1>4. CASE n # k
  <2>1. next[k] # NULL /\ n \in Reach(N, next, next[k])
    BY <1>3, <1>4, ReachStep
  <2>2. next[k] \in Reach(N, next, n)
    BY <1>3, <2>1, ReachClosed
  <2> QED BY <1>2, <2>1, <2>2
<1>5. CASE n = k
  <2>1. next[n] # NULL /\ m \in Reach(N, next, next[n])
    BY ReachStep
  <2>2. Reach(N, next, m) \subseteq Reach(N, next, next[n])
    BY <2>1, ReachTrans
  <2>3. next[n] \in Reach(N, next, n)
    BY <2>1, ReachSelf, ReachClosed
  <2> QED BY <1>2, <1>5, <2>2, <2>3
<1> QED BY <1>4, <1>5

(* A node of a chain but the first is the next of another.                 *)
LEMMA ReachPrevious ==
  ASSUME NEW N, NEW next, LinksOK(N, next), NEW n \in N,
         NEW m \in Reach(N, next, n), m # n
  PROVE  \E k \in N : next[k] = m
<1> SUFFICES ASSUME \A k \in N : next[k] # m PROVE FALSE
  OBVIOUS
<1> DEFINE S == Reach(N, next, n) \ {m}
<1>1. S \subseteq N /\ n \in S
  BY ReachSelf DEF Reach
<1>2. \A k \in S : next[k] # NULL => next[k] \in S
  BY <1>1, ReachClosed
<1>3. Reach(N, next, n) \subseteq S
  <2> HIDE DEF S
  <2> QED BY <1>1, <1>2, ReachLeast
<1> QED BY <1>3

-----------------------------------------------------------------------------
(* A free node is put behind mp.                                           *)
Behind(next, mp, free) == [next EXCEPT ![free] = next[mp], ![mp] = free]

(* The links stay in order, and every chain has the nodes it had.          *)
LEMMA BehindLinks ==
  ASSUME NEW N, NEW next, LinksOK(N, next), NEW mp \in N, NEW free \in N,
         mp # free, next[free] = NULL, \A k \in N : next[k] # free
  PROVE  LET new == Behind(next, mp, free)
         IN  /\ LinksOK(N, new)
             /\ \A x \in N \ {free} : Reach(N, next, x) \subseteq Reach(N, new, x)
             /\ free \in Reach(N, new, mp)
             /\ \A y \in Reach(N, next, mp) : y # mp => y \in Reach(N, new, free)
<1> DEFINE new == Behind(next, mp, free)
<1>0. /\ NULL \notin N /\ next \in [N -> N \union {NULL}] /\ next[mp] # mp
      /\ \A m, n \in N : next[m] = next[n] /\ next[n] # NULL => m = n
      /\ \A S \in SUBSET N : S # {} => \E n \in S : next[n] \notin S
  <2>1. \E n \in {mp} : next[n] \notin {mp}
    BY DEF LinksOK
  <2> QED BY <2>1 DEF LinksOK
<1>1. /\ new \in [N -> N \union {NULL}]
      /\ new[free] = next[mp] /\ new[mp] = free
      /\ \A k \in N \ {mp, free} : new[k] = next[k]
  BY <1>0 DEF Behind
<1> HIDE DEF new
<1>2. ASSUME NEW m \in N, NEW n \in N, new[m] = new[n], new[n] # NULL PROVE m = n
  BY <1>0, <1>1, <1>2
<1>3. ASSUME NEW S \in SUBSET N, S # {}, \A n \in S : new[n] \in S PROVE FALSE
  <2>1. CASE S \ {free} = {}
    BY <1>0, <1>1, <1>3, <2>1
  <2>2. CASE S \ {free} # {}
    <3>1. PICK k \in S \ {free} : next[k] \notin S \ {free}
      BY <1>0, <2>2
    <3> QED BY <1>0, <1>1, <1>3, <3>1
  <2> QED BY <2>1, <2>2
<1>4. LinksOK(N, new)
  BY <1>0, <1>1, <1>2, <1>3 DEF LinksOK
<1>5. ASSUME NEW x \in N \ {free} PROVE Reach(N, next, x) \subseteq Reach(N, new, x)
  <2> DEFINE S == Reach(N, new, x) \ {free}
  <2>1. S \subseteq N /\ x \in S
    BY ReachSelf DEF Reach
  <2>2. ASSUME NEW k \in S, next[k] # NULL PROVE next[k] \in S
    <3>1. k \in Reach(N, new, x) /\ k \in N /\ k # free /\ next[k] # free
      BY <2>1
    <3>2. CASE k # mp
      BY <1>1, <1>4, <2>2, <3>1, <3>2, ReachClosed
    <3>3. CASE k = mp
      <4>1. new[k] = free /\ free # NULL
        BY <1>0, <1>1, <3>3
      <4>2. free \in Reach(N, new, x)
        BY <1>4, <3>1, <4>1, ReachClosed
      <4>3. next[k] \in Reach(N, new, x)
        BY <1>1, <1>4, <2>2, <3>3, <4>2, ReachClosed
      <4> QED BY <3>1, <4>3
    <3> QED BY <3>2, <3>3
  <2>3. Reach(N, next, x) \subseteq S
    <3> HIDE DEF S
    <3> QED BY <2>1, <2>2, ReachLeast
  <2> QED BY <2>3
<1>6. free \in Reach(N, new, mp)
  <2>1. new[mp] # NULL
    BY <1>0, <1>1
  <2> QED BY <1>1, <1>4, <2>1, ReachSelf, ReachClosed
<1>7. ASSUME NEW y \in Reach(N, next, mp), y # mp PROVE y \in Reach(N, new, free)
  <2>1. next[mp] # NULL /\ y \in Reach(N, next, next[mp])
    BY <1>7, ReachStep
  <2>2. next[mp] \in N \ {free}
    BY <1>0, <2>1
  <2>3. y \in Reach(N, new, next[mp])
    BY <1>5, <2>1, <2>2
  <2>4. Reach(N, new, new[free]) \subseteq Reach(N, new, free)
    BY <1>1, <1>4, <2>1, ReachStep
  <2> QED BY <1>1, <2>3, <2>4
<1> QED BY <1>4, <1>5, <1>6, <1>7 DEF new

(* The node mp, which is the next of prev, moves to a free node.           *)
MovedLinks(next, mp, prev, free) ==
  [next EXCEPT ![free] = next[mp], ![prev] = free, ![mp] = NULL]

(* The links stay in order, and the free node takes the place of mp in     *)
(* every chain that does not begin there.                                  *)
LEMMA MovedLinksOK ==
  ASSUME NEW N, NEW next, LinksOK(N, next),
         NEW mp \in N, NEW prev \in N, NEW free \in N, next[prev] = mp,
         mp # free, next[free] = NULL, \A k \in N : next[k] # free
  PROVE  LET new == MovedLinks(next, mp, prev, free)
         IN  /\ LinksOK(N, new)
             /\ \A x \in N \ {mp, free} : \A y \in Reach(N, next, x) :
                  (IF y = mp THEN free ELSE y) \in Reach(N, new, x)
             /\ \A y \in Reach(N, next, mp) : y # mp => y \in Reach(N, new, free)
<1> DEFINE new == MovedLinks(next, mp, prev, free)
           As(y) == IF y = mp THEN free ELSE y
<1>0. /\ NULL \notin N /\ next \in [N -> N \union {NULL}] /\ next[mp] # mp
      /\ prev # mp /\ prev # free
      /\ \A m, n \in N : next[m] = next[n] /\ next[n] # NULL => m = n
      /\ \A S \in SUBSET N : S # {} => \E n \in S : next[n] \notin S
  <2>1. \E n \in {mp} : next[n] \notin {mp}
    BY DEF LinksOK
  <2> QED BY <2>1 DEF LinksOK
<1>1. /\ new \in [N -> N \union {NULL}]
      /\ new[free] = next[mp] /\ new[prev] = free /\ new[mp] = NULL
      /\ \A k \in N \ {mp, prev, free} : new[k] = next[k]
  BY <1>0 DEF MovedLinks
<1> HIDE DEF new
<1>2. ASSUME NEW m \in N, NEW n \in N, new[m] = new[n], new[n] # NULL PROVE m = n
  BY <1>0, <1>1, <1>2
<1>3. ASSUME NEW S \in SUBSET N, S # {}, \A n \in S : new[n] \in S PROVE FALSE
  <2> DEFINE T == {y \in N \ {free} : As(y) \in S}
  <2>1. mp \notin S
    BY <1>0, <1>1, <1>3
  <2>2. T # {}
    <3>1. PICK k \in S : TRUE
      BY <1>3
    <3>2. CASE k = free
      BY <3>1, <3>2
    <3>3. CASE k # free
      BY <2>1, <3>1, <3>3
    <3> QED BY <3>2, <3>3
  <2>3. PICK k \in T : next[k] \notin T
    <3> HIDE DEF T
    <3>1. T \in SUBSET N
      BY DEF T
    <3> QED BY <1>0, <2>2, <3>1
  <2>4. next[k] # free
    BY <2>3
  <2>5. CASE k = mp
    BY <1>0, <1>1, <1>3, <2>1, <2>3, <2>4, <2>5
  <2>6. CASE k = prev
    BY <1>0, <1>1, <1>3, <2>1, <2>3, <2>4, <2>6
  <2>7. CASE k \notin {mp, prev}
    BY <1>0, <1>1, <1>3, <2>1, <2>3, <2>4, <2>7
  <2> QED BY <2>5, <2>6, <2>7
<1>4. LinksOK(N, new)
  BY <1>0, <1>1, <1>2, <1>3 DEF LinksOK
<1>5. ASSUME NEW x \in N \ {mp, free}, NEW y \in Reach(N, next, x)
      PROVE  As(y) \in Reach(N, new, x)
  <2> DEFINE S == {z \in N \ {free} : As(z) \in Reach(N, new, x)}
  <2>1. S \subseteq N /\ x \in S
    BY ReachSelf
  <2>2. ASSUME NEW k \in S, next[k] # NULL PROVE next[k] \in S
    <3>1. k \in N \ {free} /\ As(k) \in Reach(N, new, x) /\ next[k] \in N \ {free}
      BY <1>0, <2>2
    <3>2. CASE k = mp
      BY <1>0, <1>1, <1>4, <2>2, <3>1, <3>2, ReachClosed
    <3>3. CASE k = prev
      BY <1>0, <1>1, <1>4, <2>2, <3>1, <3>3, ReachClosed
    <3>4. CASE k \notin {mp, prev}
      BY <1>0, <1>1, <1>4, <2>2, <3>1, <3>4, ReachClosed
    <3> QED BY <3>2, <3>3, <3>4
  <2>3. Reach(N, next, x) \subseteq S
    <3> HIDE DEF S
    <3> QED BY <2>1, <2>2, ReachLeast
  <2> QED BY <2>3
<1>6. ASSUME NEW y \in Reach(N, next, mp), y # mp PROVE y \in Reach(N, new, free)
  <2>1. next[mp] # NULL /\ y \in Reach(N, next, next[mp])
    BY <1>6, ReachStep
  <2>2. next[mp] \in N \ {mp, free}
    BY <1>0, <2>1
  <2>3. y \in Reach(N, new, next[mp])
    BY <1>5, <1>6, <2>1, <2>2
  <2>4. Reach(N, new, new[free]) \subseteq Reach(N, new, free)
    BY <1>1, <1>4, <2>1, ReachStep
  <2> QED BY <1>1, <2>3, <2>4
<1> QED BY <1>4, <1>5, <1>6 DEF new
-----------------------------------------------------------------------------
(* Facts on tables.                                                        *)

(* A key is in this node and not dead.                                     *)
Holds(t, n, key) == n \in Nodes(t) /\ t.node[n].key = key /\ ~ t.node[n].dead

(* From is what is reached by the links.                                   *)
LEMMA FromReach ==
  ASSUME NEW t, NEW n
  PROVE  From(t, n) = Reach(Nodes(t), Links(t), n)
BY DEF From, Reach, Links

(* A node is in the chain that begins there, and links lead to nodes.      *)
LEMMA FromSelf ==
  ASSUME NEW t, NEW n \in Nodes(t)
  PROVE  n \in From(t, n)
BY FromReach, ReachSelf

(* No two nodes are each in the chain of the other.                        *)
LEMMA FromAntisymmetric ==
  ASSUME NEW t, Linked(t), NEW n \in Nodes(t), NEW m \in From(t, n), n \in From(t, m)
  PROVE  m = n
BY FromReach, ReachAntisymmetric DEF Linked

(* The nodes of a table have their types.                                  *)
LEMMA NodeParts ==
  ASSUME NEW t, TableOK(t), NEW n \in Nodes(t)
  PROVE  /\ t.node[n] \in NodeType
         /\ t.node[n].key \in Keys \union {Nil} /\ t.node[n].dead \in BOOLEAN
         /\ t.node[n].val \in Vals /\ t.node[n].next \in Int
         /\ t.node[n] = [key |-> t.node[n].key, dead |-> t.node[n].dead,
                         val |-> t.node[n].val, next |-> t.node[n].next]
         /\ n \in Nat
BY DEF TableOK, TableType, NodeType, Nodes

(* A key's main position is a node.                                        *)
LEMMA MainPosition ==
  ASSUME NEW t, TableOK(t), NEW key \in Keys
  PROVE  mainposition(t, key) \in Nodes(t)
<1>1. Hash[key] \in Nat /\ t.sizenode \in Nat \ {0}
  BY HashAssumption DEF TableOK, TableType
<1>2. Hash[key] % t.sizenode \in 0 .. t.sizenode - 1
  BY <1>1
<1>3. ASSUME t.sizenode # 1 PROVE Hash[key] % (t.sizenode - 1) \in 0 .. t.sizenode - 1
  <2>1. t.sizenode - 1 \in Nat \ {0}
    BY <1>1, <1>3
  <2>2. Hash[key] % (t.sizenode - 1) \in 0 .. t.sizenode - 1 - 1
    BY <1>1, <2>1
  <2> QED BY <1>1, <2>2
<1>4. Hash[key] % 1 \in 0 .. 0
  BY <1>1
<1>5. 0 \in 0 .. t.sizenode - 1
  BY <1>1
<1> QED BY <1>1, <1>2, <1>3, <1>4, <1>5 DEF mainposition, Nodes

(* A main position depends on the number of nodes only.                    *)
LEMMA SamePosition ==
  ASSUME NEW t, NEW u, u.sizenode = t.sizenode, NEW key
  PROVE  mainposition(u, key) = mainposition(t, key)
BY DEF mainposition

(* A key that is not dead is found in its one node.                        *)
LEMMA LiveIs ==
  ASSUME NEW t, Shape(t), NEW key \in Keys
  PROVE  /\ LiveNodes(t, key) = {n \in Nodes(t) : Holds(t, n, key)}
         /\ \A n \in LiveNodes(t, key) :
              LiveNodes(t, key) = {n} /\ FirstOf(t, LiveNodes(t, key)) = n
<1>1. key # Nil
  BY KeysAssumption
<1>2. ASSUME NEW n \in Nodes(t), t.node[n].key = key PROVE n \in Chain(t, key)
  BY <1>1, <1>2 DEF Shape, Hashed, Chain
<1>3. LiveNodes(t, key) = {n \in Nodes(t) : Holds(t, n, key)}
  BY <1>2 DEF LiveNodes, Holds
<1>4. ASSUME NEW n \in LiveNodes(t, key)
      PROVE  LiveNodes(t, key) = {n} /\ FirstOf(t, LiveNodes(t, key)) = n
  <2>1. \A m \in LiveNodes(t, key) : m = n
    BY <1>1, <1>3, <1>4 DEF Shape, Distinct, Holds
  <2>2. LiveNodes(t, key) = {n}
    BY <1>4, <2>1
  <2>3. FirstOf(t, {n}) = n
    BY DEF FirstOf
  <2> QED BY <2>2, <2>3
<1> QED BY <1>3, <1>4

(* What luaH_get gives.                                                    *)
LEMMA GetIs ==
  ASSUME NEW t, Shape(t), NEW key \in Keys
  PROVE  /\ InArray(t, key) => luaH_get(t, key) = t.array[key]
         /\ \A n : Holds(t, n, key) => ~ InArray(t, key) /\ luaH_get(t, key) = t.node[n].val
         /\ ~ InArray(t, key) /\ (\A n : ~ Holds(t, n, key)) => luaH_get(t, key) = Nil
<1>1. InArray(t, key) => luaH_get(t, key) = t.array[key]
  BY DEF luaH_get
<1>2. ASSUME NEW n, Holds(t, n, key)
      PROVE  ~ InArray(t, key) /\ luaH_get(t, key) = t.node[n].val
  <2>1. n \in LiveNodes(t, key)
    BY <1>2, LiveIs DEF Holds
  <2>2. ~ InArray(t, key)
    BY <1>2, KeysAssumption DEF Shape, Hashed, Holds
  <2> QED BY <2>1, <2>2, LiveIs DEF luaH_get
<1>3. ASSUME ~ InArray(t, key), \A n : ~ Holds(t, n, key) PROVE luaH_get(t, key) = Nil
  BY <1>3, LiveIs DEF luaH_get
<1> QED BY <1>1, <1>2, <1>3

(* A key gives the same in two tables that hold it with the same value, or *)
(* without one.                                                            *)
LEMMA SameGet ==
  ASSUME NEW t, Shape(t), NEW u, Shape(u), u.array = t.array, NEW key \in Keys,
         \A n : Holds(u, n, key) =>
           \E m : Holds(t, m, key) /\ t.node[m].val = u.node[n].val,
         \A m : Holds(t, m, key) =>
           \/ t.node[m].val = Nil
           \/ \E n : Holds(u, n, key) /\ u.node[n].val = t.node[m].val
  PROVE  luaH_get(u, key) = luaH_get(t, key)
<1>1. InArray(u, key) = InArray(t, key)
  BY DEF InArray
<1>2. CASE InArray(t, key)
  BY <1>1, <1>2, GetIs
<1>3. CASE ~ InArray(t, key) /\ \E n : Holds(u, n, key)
  BY <1>3, GetIs
<1>4. CASE ~ InArray(t, key) /\ \A n : ~ Holds(u, n, key)
  <2>1. luaH_get(u, key) = Nil
    BY <1>1, <1>4, GetIs
  <2>2. luaH_get(t, key) = Nil
    <3>1. CASE \E m : Holds(t, m, key)
      BY <1>4, <3>1, GetIs
    <3>2. CASE \A m : ~ Holds(t, m, key)
      BY <1>4, <3>2, GetIs
    <3> QED BY <3>1, <3>2
  <2> QED BY <2>1, <2>2
<1> QED BY <1>2, <1>3, <1>4

(* A table with other nodes, and another lastfree, than t.                 *)
IsWith(t, u, lastfree, node) ==
  /\ u \in TableType(Nodes(t))
  /\ u.array = t.array /\ u.node = node /\ u.sizenode = t.sizenode
  /\ u.dummy = t.dummy /\ u.lastfree = lastfree

(* The parts of a table whose nodes are replaced.                          *)
LEMMA ReplacedNodes ==
  ASSUME NEW t, TableOK(t), NEW free \in Nat, NEW node \in [Nodes(t) -> NodeType]
  PROVE  /\ IsWith(t, [t EXCEPT !.lastfree = free, !.node = node], free, node)
         /\ IsWith(t, [t EXCEPT !.node = node], t.lastfree, node)
<1>1. t \in TableType(Nodes(t))
  BY DEF TableOK
<1>2. IsWith(t, [t EXCEPT !.lastfree = free, !.node = node], free, node)
  BY <1>1 DEF TableType, IsWith
<1>3. IsWith(t, [t EXCEPT !.node = node], t.lastfree, node)
  BY <1>1 DEF TableType, IsWith
<1> QED BY <1>2, <1>3

(* The parts of a table whose array is replaced.                           *)
LEMMA ReplacedArray ==
  ASSUME NEW t, TableOK(t), NEW array \in Seq(Vals)
  PROVE  LET u == [t EXCEPT !.array = array]
         IN  /\ u \in TableType(Nodes(t))
             /\ u.array = array /\ u.node = t.node /\ u.sizenode = t.sizenode
             /\ u.dummy = t.dummy /\ u.lastfree = t.lastfree
BY DEF TableOK, TableType

(* What a table with other nodes has in common with t.                     *)
LEMMA IsWithKeeps ==
  ASSUME NEW t, TableOK(t), NEW u, NEW free, NEW node, IsWith(t, u, free, node)
  PROVE  /\ TableOK(u) /\ Nodes(u) = Nodes(t) /\ u.node = node /\ u.lastfree = free
         /\ u.array = t.array /\ u.sizenode = t.sizenode /\ u.dummy = t.dummy
         /\ \A key : InArray(u, key) = InArray(t, key)
         /\ \A key : mainposition(u, key) = mainposition(t, key)
<1>1. /\ u.array = t.array /\ u.sizenode = t.sizenode /\ u.dummy = t.dummy
      /\ u.node = node /\ u.lastfree = free /\ u \in TableType(Nodes(t))
  BY DEF IsWith
<1>2. Nodes(u) = Nodes(t)
  BY <1>1 DEF Nodes
<1>3. TableOK(u)
  BY <1>1, <1>2 DEF TableOK
<1>4. \A key : InArray(u, key) = InArray(t, key)
  BY <1>1, Zenon DEF InArray
<1>5. \A key : mainposition(u, key) = mainposition(t, key)
  BY <1>1, SamePosition
<1> QED BY <1>1, <1>2, <1>3, <1>4, <1>5

(* What an assignment that finds room does to a table.                     *)
IsSet(t, u, key, val) ==
  /\ Shape(u)
  /\ Len(u.array) = Len(t.array) /\ u.sizenode = t.sizenode /\ u.dummy = t.dummy
  /\ luaH_get(u, key) = val
  /\ \A k \in Keys \ {key} : luaH_get(u, k) = luaH_get(t, k)
  /\ InArray(t, key) => Keyed(u) = Keyed(t)
  /\ \E n : Keyed(u) \subseteq Keyed(t) \union {n}

(* The assignment to an element of the array.                              *)
LEMMA SetArray ==
  ASSUME NEW t, Shape(t), NEW key \in Keys, NEW val \in Vals, InArray(t, key)
  PROVE  IsSet(t, [t EXCEPT !.array[key] = val], key, val)
<1> DEFINE u == [t EXCEPT !.array[key] = val]
<1>0. /\ TableOK(t) /\ key \in 1 .. Len(t.array) /\ key \in Ints
  BY KeysAssumption DEF Shape, InArray, Keys, Collectable
<1> DEFINE array == [t.array EXCEPT ![key] = val]
<1>1. /\ array \in Seq(Vals) /\ Len(array) = Len(t.array) /\ array[key] = val
      /\ \A i \in 1 .. Len(t.array) : i # key => array[i] = t.array[i]
  BY <1>0 DEF TableOK, TableType
<1> HIDE DEF array
<1>2. /\ u \in TableType(Nodes(t)) /\ u.array = array /\ u.node = t.node
      /\ u.sizenode = t.sizenode /\ u.dummy = t.dummy /\ u.lastfree = t.lastfree
  <2>1. LET w == [t EXCEPT !.array = array]
        IN  /\ w \in TableType(Nodes(t)) /\ w.array = array /\ w.node = t.node
            /\ w.sizenode = t.sizenode /\ w.dummy = t.dummy /\ w.lastfree = t.lastfree
    BY <1>0, <1>1, ReplacedArray
  <2> QED BY <2>1, Zenon DEF array
<1> HIDE DEF u
<1>3. /\ Len(u.array) = Len(t.array) /\ u.array[key] = val
      /\ \A i \in 1 .. Len(t.array) : i # key => u.array[i] = t.array[i]
  BY <1>1, <1>2
<1>4. /\ Nodes(u) = Nodes(t) /\ \A k : InArray(u, k) = InArray(t, k)
      /\ \A k : mainposition(u, k) = mainposition(t, k)
      /\ \A n : From(u, n) = From(t, n)
  BY <1>2, <1>3, SamePosition DEF Nodes, InArray, From
<1>5. TableOK(u)
  BY <1>0, <1>2, <1>3, <1>4 DEF TableOK
<1>6. Linked(u)
  <2>1. Links(u) = Links(t)
    BY <1>2, <1>4 DEF Links
  <2> QED BY <1>2, <1>4, <2>1 DEF Shape, Linked
<1>7. Hashed(u) /\ Distinct(u) /\ FreeList(u)
  BY <1>2, <1>4 DEF Shape, Hashed, Distinct, FreeList
<1>8. Shape(u)
  BY <1>5, <1>6, <1>7 DEF Shape
<1>9. luaH_get(u, key) = val
  BY <1>3, <1>4, <1>8, GetIs
<1>10. ASSUME NEW k \in Keys \ {key} PROVE luaH_get(u, k) = luaH_get(t, k)
  <2>1. CASE InArray(t, k)
    BY <1>3, <1>4, <1>8, <2>1, GetIs DEF InArray
  <2>2. CASE ~ InArray(t, k)
    <3>1. \A n : Holds(u, n, k) = Holds(t, n, k)
      BY <1>2, <1>4 DEF Holds
    <3> QED BY <1>2, <1>4, <1>8, <2>2, <3>1, GetIs
  <2> QED BY <2>1, <2>2
<1>11. Keyed(u) = Keyed(t)
  BY <1>2, <1>4 DEF Keyed
<1>12. IsSet(t, u, key, val)
  BY <1>2, <1>3, <1>8, <1>9, <1>10, <1>11 DEF IsSet
<1> QED BY <1>12 DEF u

(* The assignment to the node of a key.                                    *)
LEMMA SetLive ==
  ASSUME NEW t, Shape(t), NEW key \in Keys, NEW val \in Vals, NEW h, Holds(t, h, key)
  PROVE  IsSet(t, [t EXCEPT !.node[h].val = val], key, val)
<1> DEFINE u == [t EXCEPT !.node[h].val = val]
<1>0. /\ TableOK(t) /\ h \in Nodes(t) /\ t.node[h].key = key /\ ~ t.node[h].dead
      /\ key # Nil /\ ~ InArray(t, key)
  BY GetIs, KeysAssumption DEF Shape, Holds
<1> DEFINE node == [t.node EXCEPT ![h].val = val]
<1>1. t.node \in [Nodes(t) -> NodeType] /\ t.lastfree \in Nat
  BY <1>0 DEF TableOK, TableType
<1>2. /\ node \in [Nodes(t) -> NodeType]
      /\ node[h].val = val
      /\ \A n \in Nodes(t) : n # h => node[n] = t.node[n]
      /\ \A n \in Nodes(t) : /\ node[n].key = t.node[n].key
                            /\ node[n].dead = t.node[n].dead
                            /\ node[n].next = t.node[n].next
  BY <1>0, <1>1 DEF NodeType
<1> HIDE DEF node
<1>3. IsWith(t, u, t.lastfree, node)
  <2>1. IsWith(t, [t EXCEPT !.node = node], t.lastfree, node)
    BY <1>0, <1>1, <1>2, ReplacedNodes
  <2> QED BY <2>1, Zenon DEF node
<1> HIDE DEF u
<1>4. /\ TableOK(u) /\ Nodes(u) = Nodes(t) /\ u.lastfree = t.lastfree
      /\ u.array = t.array /\ u.sizenode = t.sizenode /\ u.dummy = t.dummy
      /\ \A k : InArray(u, k) = InArray(t, k)
      /\ \A k : mainposition(u, k) = mainposition(t, k)
  BY <1>0, <1>3, IsWithKeeps
<1>5. u.node = node
  BY <1>0, <1>3, IsWithKeeps
<1>6. /\ u.node[h].val = val
      /\ \A n \in Nodes(t) : n # h => u.node[n] = t.node[n]
      /\ \A n \in Nodes(t) : /\ u.node[n].key = t.node[n].key
                            /\ u.node[n].dead = t.node[n].dead
                            /\ u.node[n].next = t.node[n].next
  BY <1>2, <1>5
<1>7. Links(u) = Links(t)
  BY <1>4, <1>6 DEF Links
<1>8. \A n : From(u, n) = From(t, n)
  BY <1>4, <1>6, <1>7, FromReach
<1>9. Linked(u)
  <2>1. LinksOK(Nodes(u), Links(u))
    BY <1>4, <1>6, <1>7 DEF Shape, Linked
  <2>2. ASSUME NEW n \in Nodes(u), u.node[n].key = Nil PROVE u.node[n] = FreeNode
    BY <1>0, <1>4, <1>6, <2>2 DEF Shape, Linked
  <2>3. ASSUME NEW n \in Nodes(u), u.node[n].next # NULL
        PROVE  u.node[u.node[n].next].key # Nil
    <3>1. u.node[n].next = t.node[n].next /\ t.node[n].next \in Nodes(t)
      BY <1>4, <1>6, <2>3 DEF Shape, Linked, LinksOK, Links
    <3> QED BY <1>4, <1>6, <2>3, <3>1 DEF Shape, Linked
  <2> QED BY <2>1, <2>2, <2>3 DEF Linked
<1>10. Hashed(u)
  <2> SUFFICES ASSUME NEW n \in Nodes(u), u.node[n].key # Nil
               PROVE  /\ ~ InArray(u, u.node[n].key)
                      /\ u.node[n].dead => u.node[n].val = Nil
                      /\ LET mp == mainposition(u, u.node[n].key)
                         IN  /\ u.node[mp].key # Nil /\ mainposition(u, u.node[mp].key) = mp
                             /\ n \in From(u, mp)
    BY DEF Hashed
  <2>1. n \in Nodes(t) /\ t.node[n].key = u.node[n].key /\ t.node[n].key \in Keys
    BY <1>0, <1>4, <1>6, NodeParts
  <2>2. mainposition(t, t.node[n].key) \in Nodes(t)
    BY <1>0, <2>1, MainPosition
  <2> QED BY <1>0, <1>4, <1>6, <1>8, <2>1, <2>2 DEF Shape, Hashed
<1>11. Distinct(u) /\ FreeList(u)
  BY <1>4, <1>6, <1>8 DEF Shape, Distinct, FreeList
<1>12. Shape(u)
  BY <1>4, <1>6, <1>9, <1>10, <1>11 DEF Shape
<1>13. \A n, k : Holds(u, n, k) = Holds(t, n, k)
  BY <1>4, <1>6 DEF Holds
<1>14. luaH_get(u, key) = val
  <2>1. Holds(u, h, key)
    BY <1>13
  <2>2. luaH_get(u, key) = u.node[h].val
    BY <1>12, <2>1, GetIs
  <2> QED BY <1>6, <2>2
<1>15. ASSUME NEW k \in Keys \ {key} PROVE luaH_get(u, k) = luaH_get(t, k)
  <2>1. \A n : Holds(u, n, k) => n \in Nodes(t) /\ u.node[n].val = t.node[n].val
    BY <1>0, <1>4, <1>6 DEF Holds
  <2> QED BY <1>4, <1>12, <1>13, <2>1, SameGet
<1>16. Keyed(u) = Keyed(t)
  BY <1>4, <1>6 DEF Keyed
<1>17. IsSet(t, u, key, val)
  BY <1>4, <1>6, <1>12, <1>14, <1>15, <1>16 DEF IsSet
<1> QED BY <1>17 DEF u

(* What luaH_get does not find is in no node, or only in dead ones.        *)
LEMMA NotLive ==
  ASSUME NEW t, Shape(t), NEW key \in Keys, LiveNodes(t, key) = {}
  PROVE  \A n \in Nodes(t) : t.node[n].key = key => t.node[n].dead
BY LiveIs DEF Holds

(* A node with a value has a key that is not dead.                         *)
LEMMA UsedIsLive ==
  ASSUME NEW t, Shape(t), NEW n \in Nodes(t), t.node[n].val # Nil
  PROVE  /\ t.node[n].key # Nil /\ t.node[n].key \in Keys /\ ~ t.node[n].dead
         /\ ~ InArray(t, t.node[n].key) /\ Holds(t, n, t.node[n].key)
<1>1. t.node[n].key # Nil
  BY DEF Shape, Linked, FreeNode
<1>2. t.node[n].key \in Keys
  BY <1>1, NodeParts DEF Shape
<1> QED BY <1>1, <1>2 DEF Shape, Hashed, Holds

(* newkey takes the main position, whose value is nil.                     *)
LEMMA SetPlaced ==
  ASSUME NEW t, Shape(t), NEW key \in Keys, NEW val \in Vals,
         ~ InArray(t, key), LiveNodes(t, key) = {}, ~ Collides(t, key)
  PROVE  IsSet(t, Placed(t, mainposition(t, key), key, val), key, val)
<1> DEFINE mp == mainposition(t, key)
           u == Placed(t, mp, key, val)
           new == Node(key, val, t.node[mp].next)
           node == [t.node EXCEPT ![mp] = new]
<1>0. /\ TableOK(t) /\ mp \in Nodes(t) /\ key # Nil
      /\ ~ t.dummy /\ t.node[mp].val = Nil /\ t.node[mp].next \in Int
      /\ \A n \in Nodes(t) : t.node[n].key = key => t.node[n].dead
  BY MainPosition, NodeParts, NotLive, KeysAssumption DEF Shape, Collides
<1> HIDE DEF mp
<1>1. t.node \in [Nodes(t) -> NodeType] /\ t.lastfree \in Nat
  BY <1>0 DEF TableOK, TableType
<1>2. /\ new \in NodeType /\ new.key = key /\ ~ new.dead /\ new.val = val
      /\ new.next = t.node[mp].next
  BY <1>0 DEF NodeType, Node
<1>3. IsWith(t, u, t.lastfree, node)
  <2> HIDE DEF new
  <2>1. node \in [Nodes(t) -> NodeType]
    BY <1>0, <1>1, <1>2
  <2> HIDE DEF node
  <2>2. IsWith(t, [t EXCEPT !.node = node], t.lastfree, node)
    BY <1>0, <1>1, <2>1, ReplacedNodes
  <2> QED BY <2>2, Zenon DEF node, new, Placed
<1>4. /\ TableOK(u) /\ Nodes(u) = Nodes(t) /\ u.lastfree = t.lastfree
      /\ u.array = t.array /\ u.sizenode = t.sizenode /\ u.dummy = t.dummy
      /\ \A k : InArray(u, k) = InArray(t, k)
      /\ \A k : mainposition(u, k) = mainposition(t, k)
  <2> HIDE DEF u, node
  <2> QED BY <1>0, <1>3, IsWithKeeps
<1>5. u.node = node
  <2> HIDE DEF u, node
  <2> QED BY <1>0, <1>3, IsWithKeeps
<1> HIDE DEF u
<1>6. /\ u.node[mp].key = key /\ ~ u.node[mp].dead /\ u.node[mp].val = val
      /\ \A n \in Nodes(t) : n # mp => u.node[n] = t.node[n]
      /\ \A n \in Nodes(t) : u.node[n].next = t.node[n].next
  <2> HIDE DEF new
  <2> QED BY <1>0, <1>1, <1>2, <1>5
<1> HIDE DEF new, node
<1>7. Links(u) = Links(t)
  BY <1>4, <1>6 DEF Links
<1>8. \A n : From(u, n) = From(t, n)
  BY <1>4, <1>7, FromReach
<1>9. Linked(u)
  <2>1. LinksOK(Nodes(u), Links(u))
    BY <1>4, <1>7 DEF Shape, Linked
  <2>2. ASSUME NEW n \in Nodes(u), u.node[n].key = Nil PROVE u.node[n] = FreeNode
    BY <1>0, <1>4, <1>6, <2>2 DEF Shape, Linked
  <2>3. ASSUME NEW n \in Nodes(u), u.node[n].next # NULL
        PROVE  u.node[u.node[n].next].key # Nil
    <3>1. u.node[n].next = t.node[n].next /\ t.node[n].next \in Nodes(t)
      BY <1>4, <1>6, <2>3 DEF Shape, Linked, LinksOK, Links
    <3>2. t.node[t.node[n].next].key # Nil
      BY <1>4, <2>3, <3>1 DEF Shape, Linked
    <3> QED BY <1>0, <1>6, <3>1, <3>2
  <2> QED BY <2>1, <2>2, <2>3 DEF Linked
<1>10. Hashed(u)
  <2> SUFFICES ASSUME NEW n \in Nodes(u), u.node[n].key # Nil
               PROVE  /\ ~ InArray(u, u.node[n].key)
                      /\ u.node[n].dead => u.node[n].val = Nil
                      /\ LET p == mainposition(u, u.node[n].key)
                         IN  /\ u.node[p].key # Nil /\ mainposition(u, u.node[p].key) = p
                             /\ n \in From(u, p)
    BY DEF Hashed
  <2>1. CASE n = mp
    <3>1. mainposition(u, u.node[n].key) = mp
      BY <1>4, <1>6, <2>1 DEF mp
    <3>2. n \in From(u, mp)
      BY <1>0, <1>8, <2>1, FromSelf
    <3> QED BY <1>0, <1>4, <1>6, <2>1, <3>1, <3>2
  <2>2. CASE n # mp
    <3>1. n \in Nodes(t) /\ u.node[n] = t.node[n] /\ t.node[n].key \in Keys
      BY <1>0, <1>4, <1>6, <2>2, NodeParts
    <3>2. PICK p \in Nodes(t) : p = mainposition(t, t.node[n].key)
      BY <1>0, <3>1, MainPosition
    <3>3. /\ t.node[p].key # Nil /\ mainposition(t, t.node[p].key) = p
          /\ n \in From(t, p) /\ ~ InArray(t, t.node[n].key)
          /\ t.node[n].dead => t.node[n].val = Nil
      BY <3>1, <3>2 DEF Shape, Hashed
    <3>4. u.node[p].key # Nil /\ mainposition(u, u.node[p].key) = p
      BY <1>0, <1>4, <1>6, <3>2, <3>3 DEF mp
    <3> QED BY <1>4, <1>8, <3>1, <3>2, <3>3, <3>4
  <2> QED BY <2>1, <2>2
<1>11. Distinct(u)
  <2> SUFFICES ASSUME NEW m \in Nodes(u), NEW n \in Nodes(u), u.node[n].key # Nil,
                      ~ u.node[n].dead, u.node[m].key = u.node[n].key, m # n
               PROVE  u.node[m].dead /\ m \in From(u, n)
    BY DEF Distinct
  <2>1. CASE n = mp
    <3>1. t.node[m].key = key /\ u.node[m] = t.node[m]
      BY <1>4, <1>6, <2>1
    <3>2. m \in From(t, mp)
      BY <1>0, <1>4, <3>1 DEF Shape, Hashed, mp
    <3> QED BY <1>0, <1>4, <1>8, <2>1, <3>1, <3>2
  <2>2. CASE m = mp
    BY <1>0, <1>4, <1>6, <2>2
  <2>3. CASE m # mp /\ n # mp
    BY <1>4, <1>6, <1>8, <2>3 DEF Shape, Distinct
  <2> QED BY <2>1, <2>2, <2>3
<1>12. FreeList(u)
  BY <1>0, <1>4, <1>6 DEF Shape, FreeList
<1>13. Shape(u)
  BY <1>4, <1>9, <1>10, <1>11, <1>12 DEF Shape
<1>14. luaH_get(u, key) = val
  <2>1. Holds(u, mp, key)
    BY <1>0, <1>4, <1>6 DEF Holds
  <2>2. luaH_get(u, key) = u.node[mp].val
    BY <1>13, <2>1, GetIs
  <2> QED BY <1>6, <2>2
<1>15. ASSUME NEW k \in Keys \ {key} PROVE luaH_get(u, k) = luaH_get(t, k)
  <2>1. ASSUME NEW n, Holds(u, n, k)
        PROVE  Holds(t, n, k) /\ t.node[n].val = u.node[n].val
    BY <1>4, <1>6, <2>1 DEF Holds
  <2>2. ASSUME NEW n, Holds(t, n, k), t.node[n].val # Nil
        PROVE  Holds(u, n, k) /\ t.node[n].val = u.node[n].val
    BY <1>0, <1>4, <1>6, <2>2 DEF Holds
  <2> QED BY <1>4, <1>13, <2>1, <2>2, SameGet
<1>16. Keyed(u) \subseteq Keyed(t) \union {mp}
  BY <1>4, <1>6 DEF Keyed
<1>17. IsSet(t, u, key, val)
  BY <1>4, <1>13, <1>14, <1>15, <1>16 DEF IsSet
<1> QED BY <1>17 DEF u, mp

(* The last free node below lastfree.                                      *)
IsLastFree(t, free) ==
  /\ free \in Nodes(t) /\ free < t.lastfree /\ t.node[free].key = Nil
  /\ \A n \in Nodes(t) : n > free => t.node[n].key # Nil

(* A free node is in no chain.                                             *)
LEMMA FreeIsUnlinked ==
  ASSUME NEW t, Shape(t), NEW free \in Nodes(t), t.node[free].key = Nil
  PROVE  /\ t.node[free].next = NULL /\ t.node[free].val = Nil
         /\ \A n \in Nodes(t) : t.node[n].next # free
BY DEF Shape, Linked, FreeNode, NULL, LinksOK, Links

(* Nodes are changed one after the other.                                  *)
TwoNodes(nd, k, v, m, f) == [nd EXCEPT ![k] = v, ![m].next = f]

(* Of a table's nodes k is v, only the link of m is changed, and the rest  *)
(* is as before.                                                           *)
AreChanged(t, node, k, v, m, f) ==
  /\ node \in [Nodes(t) -> NodeType]
  /\ node[k] = v
  /\ node[m].next = f /\ node[m].key = t.node[m].key
  /\ node[m].dead = t.node[m].dead /\ node[m].val = t.node[m].val
  /\ \A n \in Nodes(t) \ {k, m} : node[n] = t.node[n]

(* What becomes of a table's nodes when two are changed.                   *)
LEMMA TwoChanged ==
  ASSUME NEW t, TableOK(t), NEW k \in Nodes(t), NEW v \in NodeType,
         NEW m \in Nodes(t), NEW f \in Int, m # k
  PROVE  AreChanged(t, TwoNodes(t.node, k, v, m, f), k, v, m, f)
<1>0. PICK nd \in [Nodes(t) -> NodeType] : nd = t.node
  BY DEF TableOK, TableType
<1> DEFINE n1 == [nd EXCEPT ![k] = v]
           n2 == [n1 EXCEPT ![m].next = f]
<1>1. n1 \in [Nodes(t) -> NodeType] /\ n1[k] = v /\ \A n \in Nodes(t) \ {k} : n1[n] = nd[n]
  OBVIOUS
<1> HIDE DEF n1
<1>2. /\ n2 \in [Nodes(t) -> NodeType]
      /\ n2[m].next = f /\ n2[m].key = n1[m].key
      /\ n2[m].dead = n1[m].dead /\ n2[m].val = n1[m].val
      /\ \A n \in Nodes(t) \ {m} : n2[n] = n1[n]
  BY <1>1 DEF NodeType
<1> HIDE DEF n2
<1>3. n2 = TwoNodes(t.node, k, v, m, f)
  BY <1>0, Zenon DEF n1, n2, TwoNodes
<1>4. AreChanged(t, n2, k, v, m, f)
  BY <1>0, <1>1, <1>2 DEF AreChanged
<1> QED BY <1>3, <1>4

(* newkey puts the key into a free node behind the colliding one.          *)
LEMMA SetChained ==
  ASSUME NEW t, Shape(t), NEW key \in Keys, NEW val \in Vals, ~ t.dummy,
         ~ InArray(t, key), LiveNodes(t, key) = {}, NEW free, IsLastFree(t, free),
         t.node[mainposition(t, key)].val # Nil,
         mainposition(t, t.node[mainposition(t, key)].key) = mainposition(t, key)
  PROVE  IsSet(t, Chained(t, mainposition(t, key), free, key, val), key, val)
<1> DEFINE mp == mainposition(t, key)
           u == Chained(t, mp, free, key, val)
           new == Node(key, val, t.node[mp].next)
           node == [t.node EXCEPT ![free] = new, ![mp].next = free]
<1>0. /\ TableOK(t) /\ mp \in Nodes(t) /\ key # Nil
      /\ free \in Nodes(t) /\ free \in Nat /\ t.node[free].key = Nil /\ free < t.lastfree
      /\ \A n \in Nodes(t) : n > free => t.node[n].key # Nil
      /\ t.node[mp].next \in Int
      /\ \A n \in Nodes(t) : t.node[n].key = key => t.node[n].dead
  BY MainPosition, NodeParts, NotLive, KeysAssumption DEF Shape, IsLastFree
<1>1. /\ t.node[free].next = NULL /\ t.node[free].val = Nil
      /\ \A n \in Nodes(t) : t.node[n].next # free
  BY <1>0, FreeIsUnlinked
<1>2. /\ mp # free /\ t.node[mp].key # Nil /\ ~ t.node[mp].dead
      /\ mainposition(t, t.node[mp].key) = mp
  BY <1>0, <1>1, UsedIsLive
<1> HIDE DEF mp
<1>3. t.node \in [Nodes(t) -> NodeType] /\ t.lastfree \in Nat
  BY <1>0 DEF TableOK, TableType
<1>4. /\ new \in NodeType /\ new.key = key /\ ~ new.dead /\ new.val = val
      /\ new.next = t.node[mp].next
  BY <1>0 DEF NodeType, Node
<1>5. /\ node \in [Nodes(t) -> NodeType]
      /\ node[free] = new
      /\ node[mp].next = free /\ node[mp].key = t.node[mp].key
      /\ node[mp].dead = t.node[mp].dead /\ node[mp].val = t.node[mp].val
      /\ \A n \in Nodes(t) \ {free, mp} : node[n] = t.node[n]
  <2>1. node = TwoNodes(t.node, free, new, mp, free)
    BY Zenon DEF TwoNodes
  <2> HIDE DEF node, new
  <2>2. free \in Int /\ new \in NodeType /\ mp # free /\ TableOK(t)
        /\ free \in Nodes(t) /\ mp \in Nodes(t)
    BY <1>0, <1>2, <1>4
  <2>3. AreChanged(t, TwoNodes(t.node, free, new, mp, free), free, new, mp, free)
    BY <2>2, TwoChanged, Zenon
  <2> QED BY <2>1, <2>3 DEF AreChanged
<1>6. IsWith(t, u, free, node)
  <2> HIDE DEF node
  <2>1. IsWith(t, [t EXCEPT !.lastfree = free, !.node = node], free, node)
    BY <1>0, <1>5, ReplacedNodes
  <2> QED BY <2>1, Zenon DEF node, new, Chained
<1>7. /\ TableOK(u) /\ Nodes(u) = Nodes(t) /\ u.lastfree = free
      /\ u.array = t.array /\ u.sizenode = t.sizenode /\ u.dummy = t.dummy
      /\ \A k : InArray(u, k) = InArray(t, k)
      /\ \A k : mainposition(u, k) = mainposition(t, k)
  <2> HIDE DEF u, node
  <2> QED BY <1>0, <1>6, IsWithKeeps
<1>8. u.node = node
  <2> HIDE DEF u, node
  <2> QED BY <1>0, <1>6, IsWithKeeps
<1> HIDE DEF u
<1>9. /\ u.node[free].key = key /\ ~ u.node[free].dead /\ u.node[free].val = val
      /\ u.node[free].next = t.node[mp].next
      /\ u.node[mp].next = free /\ u.node[mp].key = t.node[mp].key
      /\ u.node[mp].dead = t.node[mp].dead /\ u.node[mp].val = t.node[mp].val
      /\ \A n \in Nodes(t) \ {free, mp} : u.node[n] = t.node[n]
  <2> HIDE DEF new, node
  <2> QED BY <1>4, <1>5, <1>8
<1> HIDE DEF new, node
<1>10. \A n \in Nodes(t) \ {free} : /\ u.node[n].key = t.node[n].key
                                   /\ u.node[n].dead = t.node[n].dead
                                   /\ u.node[n].val = t.node[n].val
  BY <1>9
<1>11. Links(u) = Behind(Links(t), mp, free)
  BY <1>0, <1>2, <1>7, <1>9 DEF Links, Behind
<1>12. /\ LinksOK(Nodes(t), Links(t))
       /\ Links(t)[free] = NULL /\ \A k \in Nodes(t) : Links(t)[k] # free
  BY <1>0, <1>1 DEF Shape, Linked, Links
<1>13. /\ LinksOK(Nodes(u), Links(u))
       /\ \A x \in Nodes(t) \ {free} : From(t, x) \subseteq From(u, x)
       /\ free \in From(u, mp)
       /\ \A y \in From(t, mp) : y # mp => y \in From(u, free)
  <2>1. LET l == Behind(Links(t), mp, free)
        IN  /\ LinksOK(Nodes(t), l)
            /\ \A x \in Nodes(t) \ {free} :
                 Reach(Nodes(t), Links(t), x) \subseteq Reach(Nodes(t), l, x)
            /\ free \in Reach(Nodes(t), l, mp)
            /\ \A y \in Reach(Nodes(t), Links(t), mp) : y # mp => y \in Reach(Nodes(t), l, free)
    BY <1>0, <1>2, <1>12, BehindLinks
  <2> QED BY <1>7, <1>11, <2>1, FromReach
<1>14. Linked(u)
  <2>1. ASSUME NEW n \in Nodes(u), u.node[n].key = Nil PROVE u.node[n] = FreeNode
    BY <1>0, <1>2, <1>7, <1>9, <2>1 DEF Shape, Linked
  <2>2. ASSUME NEW n \in Nodes(u), u.node[n].next # NULL
        PROVE  u.node[u.node[n].next].key # Nil
    <3>1. CASE n = mp
      BY <1>0, <1>9, <3>1
    <3>2. CASE n # mp
      <4>1. PICK m \in Nodes(t) : u.node[n].next = t.node[m].next
        BY <1>0, <1>7, <1>9, <3>2
      <4>2. t.node[m].next \in Nodes(t)
        BY <2>2, <4>1 DEF Shape, Linked, LinksOK, Links
      <4>3. t.node[t.node[m].next].key # Nil
        BY <2>2, <4>1 DEF Shape, Linked
      <4> QED BY <1>1, <1>10, <4>1, <4>2, <4>3
    <3> QED BY <3>1, <3>2
  <2> QED BY <1>13, <2>1, <2>2 DEF Linked
<1>15. Hashed(u)
  <2> SUFFICES ASSUME NEW n \in Nodes(u), u.node[n].key # Nil
               PROVE  /\ ~ InArray(u, u.node[n].key)
                      /\ u.node[n].dead => u.node[n].val = Nil
                      /\ LET p == mainposition(u, u.node[n].key)
                         IN  /\ u.node[p].key # Nil /\ mainposition(u, u.node[p].key) = p
                             /\ n \in From(u, p)
    BY DEF Hashed
  <2>1. CASE n = free
    <3>1. mainposition(u, u.node[n].key) = mp
      BY <1>7, <1>9, <2>1 DEF mp
    <3> QED BY <1>2, <1>7, <1>9, <1>13, <2>1, <3>1
  <2>2. CASE n # free
    <3>1. /\ n \in Nodes(t) /\ u.node[n].key = t.node[n].key /\ t.node[n].key \in Keys
          /\ u.node[n].dead = t.node[n].dead /\ u.node[n].val = t.node[n].val
      BY <1>0, <1>7, <1>10, <2>2, NodeParts
    <3>2. PICK p \in Nodes(t) : p = mainposition(t, t.node[n].key)
      BY <1>0, <3>1, MainPosition
    <3>3. /\ t.node[p].key # Nil /\ mainposition(t, t.node[p].key) = p
          /\ n \in From(t, p) /\ ~ InArray(t, t.node[n].key)
          /\ t.node[n].dead => t.node[n].val = Nil
      BY <3>1, <3>2 DEF Shape, Hashed
    <3>4. p # free
      BY <1>0, <3>3
    <3>5. u.node[p].key # Nil /\ mainposition(u, u.node[p].key) = p
      BY <1>7, <1>10, <3>3, <3>4
    <3> QED BY <1>7, <1>13, <3>1, <3>2, <3>3, <3>4, <3>5
  <2> QED BY <2>1, <2>2
<1>16. Distinct(u)
  <2> SUFFICES ASSUME NEW m \in Nodes(u), NEW n \in Nodes(u), u.node[n].key # Nil,
                      ~ u.node[n].dead, u.node[m].key = u.node[n].key, m # n
               PROVE  u.node[m].dead /\ m \in From(u, n)
    BY DEF Distinct
  <2>1. CASE n = free
    <3>1. m \in Nodes(t) /\ t.node[m].key = key /\ u.node[m].dead = t.node[m].dead
      BY <1>7, <1>9, <1>10, <2>1
    <3>2. m \in From(t, mp) /\ t.node[m].dead
      BY <1>0, <3>1 DEF Shape, Hashed, mp
    <3> QED BY <1>2, <1>13, <2>1, <3>1, <3>2
  <2>2. CASE m = free
    BY <1>0, <1>7, <1>9, <1>10, <2>2
  <2>3. CASE m # free /\ n # free
    <3>1. t.node[m].dead /\ m \in From(t, n)
      BY <1>7, <1>10, <2>3 DEF Shape, Distinct
    <3> QED BY <1>7, <1>10, <1>13, <2>3, <3>1
  <2> QED BY <2>1, <2>2, <2>3
<1>17. FreeList(u)
  <2>1. \A n \in Nodes(t) : n \in Nat
    BY DEF Nodes
  <2> QED BY <1>0, <1>7, <1>9, <1>10, <2>1 DEF FreeList
<1>18. Shape(u)
  BY <1>7, <1>14, <1>15, <1>16, <1>17 DEF Shape
<1>19. luaH_get(u, key) = val
  <2>1. Holds(u, free, key)
    BY <1>0, <1>7, <1>9 DEF Holds
  <2>2. luaH_get(u, key) = u.node[free].val
    BY <1>18, <2>1, GetIs
  <2> QED BY <1>9, <2>2
<1>20. ASSUME NEW k \in Keys \ {key} PROVE luaH_get(u, k) = luaH_get(t, k)
  <2>0. k # Nil
    BY KeysAssumption
  <2>1. ASSUME NEW n, Holds(u, n, k)
        PROVE  Holds(t, n, k) /\ t.node[n].val = u.node[n].val
    BY <1>7, <1>9, <1>10, <2>1 DEF Holds
  <2>2. ASSUME NEW n, Holds(t, n, k)
        PROVE  Holds(u, n, k) /\ t.node[n].val = u.node[n].val
    BY <1>0, <1>7, <1>10, <2>0, <2>2 DEF Holds
  <2> QED BY <1>7, <1>18, <2>1, <2>2, SameGet
<1>21. Keyed(u) \subseteq Keyed(t) \union {free}
  BY <1>7, <1>10 DEF Keyed
<1>22. IsSet(t, u, key, val)
  BY <1>7, <1>18, <1>19, <1>20, <1>21 DEF IsSet
<1> QED BY <1>22 DEF u, mp

(* newkey moves the colliding node, which is in another chain behind prev, *)
(* to a free one.                                                          *)
LEMMA SetMoved ==
  ASSUME NEW t, Shape(t), NEW key \in Keys, NEW val \in Vals, ~ t.dummy,
         ~ InArray(t, key), LiveNodes(t, key) = {}, NEW free, IsLastFree(t, free),
         t.node[mainposition(t, key)].val # Nil,
         mainposition(t, t.node[mainposition(t, key)].key) # mainposition(t, key),
         NEW prev \in Nodes(t), t.node[prev].next = mainposition(t, key)
  PROVE  IsSet(t, Moved(t, mainposition(t, key), prev, free, key, val), key, val)
<1> DEFINE mp == mainposition(t, key)
           u == Moved(t, mp, prev, free, key, val)
           new == Node(key, val, NULL)
           node == [t.node EXCEPT ![free] = t.node[mp], ![prev].next = free, ![mp] = new]
<1>0. /\ TableOK(t) /\ mp \in Nodes(t) /\ key # Nil
      /\ free \in Nodes(t) /\ free \in Nat /\ t.node[free].key = Nil /\ free < t.lastfree
      /\ \A n \in Nodes(t) : n > free => t.node[n].key # Nil
  BY MainPosition, NodeParts, KeysAssumption DEF Shape, IsLastFree
<1>1. /\ t.node[free].next = NULL /\ t.node[free].val = Nil
      /\ \A n \in Nodes(t) : t.node[n].next # free
  BY <1>0, FreeIsUnlinked
<1>2. /\ mp # free /\ t.node[mp].key # Nil /\ t.node[mp].key \in Keys /\ ~ t.node[mp].dead
      /\ mainposition(t, t.node[mp].key) # mp
  BY <1>0, <1>1, UsedIsLive
<1>3. \A n \in Nodes(t) : t.node[n].key # Nil => mainposition(t, t.node[n].key) # mp
  BY <1>2 DEF Shape, Hashed
<1>4. \A n \in Nodes(t) : t.node[n].key # key
  BY <1>0, <1>3 DEF mp
<1>5. prev # mp /\ prev # free /\ t.node[prev].next = mp /\ mp # NULL
  <2>1. \E n \in {mp} : Links(t)[n] \notin {mp}
    BY <1>0 DEF Shape, Linked, LinksOK
  <2> QED BY <1>0, <1>1, <2>1 DEF Links, NULL, Nodes
<1> HIDE DEF mp
<1>6. t.node \in [Nodes(t) -> NodeType] /\ t.lastfree \in Nat
  BY <1>0 DEF TableOK, TableType
<1>7. /\ new \in NodeType /\ new.key = key /\ ~ new.dead /\ new.val = val
      /\ new.next = NULL
  BY <1>0 DEF NodeType, Node, NULL
<1>8. /\ node \in [Nodes(t) -> NodeType]
      /\ node[free] = t.node[mp] /\ node[mp] = new
      /\ node[prev].next = free /\ node[prev].key = t.node[prev].key
      /\ node[prev].dead = t.node[prev].dead /\ node[prev].val = t.node[prev].val
      /\ \A n \in Nodes(t) \ {free, prev, mp} : node[n] = t.node[n]
  <2> DEFINE two == TwoNodes(t.node, free, t.node[mp], prev, free)
  <2>1. node = [two EXCEPT ![mp] = new]
    BY Zenon DEF TwoNodes
  <2>2. t.node[mp] \in NodeType /\ free \in Int /\ TableOK(t) /\ prev # free
        /\ free \in Nodes(t) /\ prev \in Nodes(t)
    BY <1>0, <1>5, <1>6
  <2>3. AreChanged(t, two, free, t.node[mp], prev, free)
    BY <2>2, TwoChanged, Zenon
  <2> HIDE DEF node, new, two
  <2>4. two \in [Nodes(t) -> NodeType]
    BY <2>3 DEF AreChanged
  <2>5. /\ node \in [Nodes(t) -> NodeType] /\ node[mp] = new
        /\ \A n \in Nodes(t) \ {mp} : node[n] = two[n]
    BY <1>0, <1>7, <2>1, <2>4
  <2> QED BY <1>0, <1>2, <1>5, <2>3, <2>5 DEF AreChanged
<1>9. IsWith(t, u, free, node)
  <2> HIDE DEF node
  <2>1. IsWith(t, [t EXCEPT !.lastfree = free, !.node = node], free, node)
    BY <1>0, <1>8, ReplacedNodes
  <2> QED BY <2>1, Zenon DEF node, new, Moved
<1>10. /\ TableOK(u) /\ Nodes(u) = Nodes(t) /\ u.lastfree = free
       /\ u.array = t.array /\ u.sizenode = t.sizenode /\ u.dummy = t.dummy
       /\ \A k : InArray(u, k) = InArray(t, k)
       /\ \A k : mainposition(u, k) = mainposition(t, k)
  <2> HIDE DEF u, node
  <2> QED BY <1>0, <1>9, IsWithKeeps
<1>11. u.node = node
  <2> HIDE DEF u, node
  <2> QED BY <1>0, <1>9, IsWithKeeps
<1> HIDE DEF u
<1>12. /\ u.node[free] = t.node[mp]
       /\ u.node[mp].key = key /\ ~ u.node[mp].dead /\ u.node[mp].val = val
       /\ u.node[mp].next = NULL
       /\ u.node[prev].next = free
       /\ \A n \in Nodes(t) \ {free, prev, mp} : u.node[n].next = t.node[n].next
       /\ \A n \in Nodes(t) \ {free, mp} : /\ u.node[n].key = t.node[n].key
                                           /\ u.node[n].dead = t.node[n].dead
                                           /\ u.node[n].val = t.node[n].val
       /\ \A n \in Nodes(t) \ {free, prev, mp} : u.node[n] = t.node[n]
  <2> HIDE DEF new, node
  <2> QED BY <1>7, <1>8, <1>11
<1> HIDE DEF new, node
<1>13. Links(u) = MovedLinks(Links(t), mp, prev, free)
  BY <1>0, <1>2, <1>5, <1>10, <1>12 DEF Links, MovedLinks
<1>14. /\ LinksOK(Nodes(t), Links(t))
       /\ Links(t)[free] = NULL /\ \A k \in Nodes(t) : Links(t)[k] # free
       /\ Links(t)[prev] = mp
  BY <1>0, <1>1, <1>5 DEF Shape, Linked, Links
<1>15. /\ LinksOK(Nodes(u), Links(u))
       /\ \A x \in Nodes(t) \ {mp, free} : \A y \in From(t, x) :
            (IF y = mp THEN free ELSE y) \in From(u, x)
       /\ \A y \in From(t, mp) : y # mp => y \in From(u, free)
  <2>1. LET l == MovedLinks(Links(t), mp, prev, free)
        IN  /\ LinksOK(Nodes(t), l)
            /\ \A x \in Nodes(t) \ {mp, free} : \A y \in Reach(Nodes(t), Links(t), x) :
                 (IF y = mp THEN free ELSE y) \in Reach(Nodes(t), l, x)
            /\ \A y \in Reach(Nodes(t), Links(t), mp) : y # mp => y \in Reach(Nodes(t), l, free)
    BY <1>0, <1>2, <1>14, MovedLinksOK
  <2> QED BY <1>10, <1>13, <2>1, FromReach
<1>16. Linked(u)
  <2>1. ASSUME NEW n \in Nodes(u), u.node[n].key = Nil PROVE u.node[n] = FreeNode
    <3>1. n \notin {free, mp}
      BY <1>0, <1>2, <1>12, <2>1
    <3>2. t.node[n].key = Nil /\ t.node[n] = FreeNode
      BY <1>10, <1>12, <2>1, <3>1 DEF Shape, Linked
    <3>3. n # prev
      BY <1>5, <3>2 DEF FreeNode
    <3> QED BY <1>10, <1>12, <3>1, <3>2, <3>3
  <2>2. ASSUME NEW n \in Nodes(u), u.node[n].next # NULL
        PROVE  u.node[u.node[n].next].key # Nil
    <3>1. CASE n = prev
      BY <1>2, <1>12, <3>1
    <3>2. CASE n # prev
      <4>1. PICK m \in Nodes(t) : u.node[n].next = t.node[m].next
        BY <1>0, <1>10, <1>12, <2>2, <3>2
      <4>2. t.node[m].next \in Nodes(t)
        BY <2>2, <4>1 DEF Shape, Linked, LinksOK, Links
      <4>3. t.node[t.node[m].next].key # Nil
        BY <2>2, <4>1 DEF Shape, Linked
      <4> QED BY <1>0, <1>1, <1>12, <4>1, <4>2, <4>3
    <3> QED BY <3>1, <3>2
  <2> QED BY <1>15, <2>1, <2>2 DEF Linked
<1>17. ASSUME NEW n \in Nodes(t), t.node[n].key # Nil
       PROVE  \E p \in Nodes(t) \ {mp, free} :
                /\ p = mainposition(t, t.node[n].key) /\ t.node[n].key \in Keys
                /\ t.node[p].key # Nil /\ mainposition(t, t.node[p].key) = p
                /\ n \in From(t, p) /\ ~ InArray(t, t.node[n].key)
                /\ t.node[n].dead => t.node[n].val = Nil
  <2>1. t.node[n].key \in Keys
    BY <1>0, <1>17, NodeParts
  <2>2. PICK p \in Nodes(t) : p = mainposition(t, t.node[n].key)
    BY <1>0, <2>1, MainPosition
  <2>3. /\ t.node[p].key # Nil /\ mainposition(t, t.node[p].key) = p
        /\ n \in From(t, p) /\ ~ InArray(t, t.node[n].key)
        /\ t.node[n].dead => t.node[n].val = Nil
    BY <1>17, <2>2 DEF Shape, Hashed
  <2> QED BY <1>0, <1>3, <1>17, <2>1, <2>2, <2>3
<1>18. Hashed(u)
  <2> SUFFICES ASSUME NEW n \in Nodes(u), u.node[n].key # Nil
               PROVE  /\ ~ InArray(u, u.node[n].key)
                      /\ u.node[n].dead => u.node[n].val = Nil
                      /\ LET p == mainposition(u, u.node[n].key)
                         IN  /\ u.node[p].key # Nil /\ mainposition(u, u.node[p].key) = p
                             /\ n \in From(u, p)
    BY DEF Hashed
  <2>1. CASE n = mp
    <3>1. mainposition(u, u.node[n].key) = mp
      BY <1>10, <1>12, <2>1 DEF mp
    <3>2. n \in From(u, mp)
      BY <2>1, FromSelf
    <3> QED BY <1>0, <1>10, <1>12, <2>1, <3>1, <3>2
  <2>2. CASE n = free
    <3>1. PICK p \in Nodes(t) \ {mp, free} :
            /\ p = mainposition(t, t.node[mp].key) /\ t.node[mp].key \in Keys
            /\ t.node[p].key # Nil /\ mainposition(t, t.node[p].key) = p
            /\ mp \in From(t, p) /\ ~ InArray(t, t.node[mp].key)
            /\ t.node[mp].dead => t.node[mp].val = Nil
      BY <1>0, <1>2, <1>17
    <3>2. free \in From(u, p)
      BY <1>15, <3>1
    <3> QED BY <1>10, <1>12, <2>2, <3>1, <3>2
  <2>3. CASE n \notin {mp, free}
    <3>1. /\ n \in Nodes(t) /\ u.node[n].key = t.node[n].key
          /\ u.node[n].dead = t.node[n].dead /\ u.node[n].val = t.node[n].val
      BY <1>10, <1>12, <2>3
    <3>2. PICK p \in Nodes(t) \ {mp, free} :
            /\ p = mainposition(t, t.node[n].key) /\ t.node[n].key \in Keys
            /\ t.node[p].key # Nil /\ mainposition(t, t.node[p].key) = p
            /\ n \in From(t, p) /\ ~ InArray(t, t.node[n].key)
            /\ t.node[n].dead => t.node[n].val = Nil
      BY <1>17, <3>1
    <3>3. n \in From(u, p)
      BY <1>15, <2>3, <3>2
    <3> QED BY <1>10, <1>12, <3>1, <3>2, <3>3
  <2> QED BY <2>1, <2>2, <2>3
<1>19. Distinct(u)
  <2> SUFFICES ASSUME NEW m \in Nodes(u), NEW n \in Nodes(u), u.node[n].key # Nil,
                      ~ u.node[n].dead, u.node[m].key = u.node[n].key, m # n
               PROVE  u.node[m].dead /\ m \in From(u, n)
    BY DEF Distinct
  <2>1. m # mp /\ n # mp
    BY <1>0, <1>4, <1>10, <1>12
  <2>2. CASE n = free
    <3>1. m \in Nodes(t) /\ t.node[m].key = t.node[mp].key /\ u.node[m].dead = t.node[m].dead
      BY <1>10, <1>12, <2>1, <2>2
    <3>2. t.node[m].dead /\ m \in From(t, mp)
      BY <1>0, <1>2, <2>1, <3>1 DEF Shape, Distinct
    <3> QED BY <1>15, <2>1, <2>2, <3>1, <3>2
  <2>3. CASE m = free
    <3>1. n \in Nodes(t) /\ t.node[n].key = t.node[mp].key /\ ~ t.node[n].dead
      BY <1>10, <1>12, <2>1, <2>3
    <3>2. t.node[mp].dead
      BY <1>0, <1>2, <2>1, <3>1 DEF Shape, Distinct
    <3> QED BY <1>2, <3>2
  <2>4. CASE m # free /\ n # free
    <3>1. t.node[m].dead /\ m \in From(t, n)
      BY <1>10, <1>12, <2>1, <2>4 DEF Shape, Distinct
    <3> QED BY <1>10, <1>12, <1>15, <2>1, <2>4, <3>1
  <2> QED BY <2>2, <2>3, <2>4
<1>20. FreeList(u)
  <2> SUFFICES ASSUME NEW n \in Nodes(t), n >= free PROVE u.node[n].key # Nil
    BY <1>10 DEF FreeList
  <2>1. CASE n \in {free, mp}
    BY <1>0, <1>2, <1>12, <2>1
  <2>2. CASE n \notin {free, mp}
    <3>1. n > free
      BY <1>0, <2>2 DEF Nodes
    <3> QED BY <1>0, <1>12, <2>2, <3>1
  <2> QED BY <2>1, <2>2
<1>21. Shape(u)
  BY <1>10, <1>16, <1>18, <1>19, <1>20 DEF Shape
<1>22. luaH_get(u, key) = val
  <2>1. Holds(u, mp, key)
    BY <1>0, <1>10, <1>12 DEF Holds
  <2>2. luaH_get(u, key) = u.node[mp].val
    BY <1>21, <2>1, GetIs
  <2> QED BY <1>12, <2>2
<1>23. ASSUME NEW k \in Keys \ {key} PROVE luaH_get(u, k) = luaH_get(t, k)
  <2>0. k # Nil
    BY KeysAssumption
  <2>1. ASSUME NEW n, Holds(u, n, k)
        PROVE  \E m : Holds(t, m, k) /\ t.node[m].val = u.node[n].val
    <3>1. CASE n = free
      BY <1>0, <1>12, <2>1, <3>1 DEF Holds
    <3>2. CASE n # free
      BY <1>10, <1>12, <2>1, <3>2 DEF Holds
    <3> QED BY <3>1, <3>2
  <2>2. ASSUME NEW m, Holds(t, m, k)
        PROVE  \E n : Holds(u, n, k) /\ u.node[n].val = t.node[m].val
    <3>1. CASE m = mp
      BY <1>0, <1>10, <1>12, <2>2, <3>1 DEF Holds
    <3>2. CASE m # mp
      BY <1>0, <1>10, <1>12, <2>0, <2>2, <3>2 DEF Holds
    <3> QED BY <3>1, <3>2
  <2> QED BY <1>10, <1>21, <2>1, <2>2, SameGet
<1>24. Keyed(u) \subseteq Keyed(t) \union {free}
  BY <1>2, <1>10, <1>12 DEF Keyed
<1>25. IsSet(t, u, key, val)
  BY <1>10, <1>21, <1>22, <1>23, <1>24 DEF IsSet
<1> QED BY <1>25 DEF u, mp
-----------------------------------------------------------------------------
(* A set of natural numbers has a least element.                           *)
LEMMA MinIs ==
  ASSUME NEW S, S \subseteq Nat, S # {}
  PROVE  Min(S) \in S /\ \A x \in S : Min(S) <= x
<1>1. PICK m \in S : \A x \in S : ~ (<<x, m>> \in OpToRel(<, Nat))
  BY NatLessThanWellFounded, WFMin, Zenon
<1>2. \A x \in S : ~ (x < m)
  BY <1>1, Zenon DEF OpToRel
<1>3. \A x \in S : m <= x
  BY <1>2
<1> QED BY <1>3, Zenon DEF Min

(* A bounded one has a greatest.                                           *)
LEMMA MaxIs ==
  ASSUME NEW b \in Nat, NEW S, S \subseteq 0 .. b, S # {}
  PROVE  Max(S) \in S /\ \A x \in S : x <= Max(S)
<1> DEFINE gaps == {b - x : x \in S}
<1>0. \A x \in S : x \in Nat /\ x <= b
  OBVIOUS
<1>1. gaps \subseteq Nat /\ gaps # {}
  <2>1. \A x \in S : b - x \in Nat
    BY <1>0
  <2> QED BY <2>1
<1>2. Min(gaps) \in gaps /\ \A g \in gaps : Min(gaps) <= g
  <2> HIDE DEF gaps
  <2> QED BY <1>1, MinIs
<1>3. PICK m \in S : Min(gaps) = b - m
  BY <1>2
<1>4. \A x \in S : b - m <= b - x
  BY <1>2, <1>3
<1>5. \A x \in S : m >= x
  BY <1>4
<1>6. Max(S) \in S /\ \A x \in S : Max(S) >= x
  BY <1>5, Zenon DEF Max
<1> QED BY <1>6

(* The node newkey takes: the last free one.                               *)
LEMMA MaxIsLastFree ==
  ASSUME NEW t, Shape(t), FreeBelow(t) # {}
  PROVE  ~ t.dummy /\ IsLastFree(t, Max(FreeBelow(t)))
<1>1. t.sizenode \in Nat \ {0} /\ t.lastfree \in Nat
  BY DEF Shape, TableOK, TableType
<1>2. FreeBelow(t) \subseteq 0 .. t.sizenode
  BY <1>1 DEF FreeBelow, Nodes
<1>3. Max(FreeBelow(t)) \in FreeBelow(t) /\ \A x \in FreeBelow(t) : x <= Max(FreeBelow(t))
  BY <1>1, <1>2, MaxIs
<1>4. PICK free \in FreeBelow(t) : free = Max(FreeBelow(t))
  BY <1>3
<1>5. free \in Nat /\ free \in Nodes(t) /\ free < t.lastfree /\ t.node[free].key = Nil
  BY <1>1, <1>2 DEF FreeBelow
<1>6. ~ t.dummy
  BY <1>1, <1>5 DEF Shape, FreeList
<1>7. ASSUME NEW n \in Nodes(t), n > free PROVE t.node[n].key # Nil
  <2>1. n \in Nat
    BY DEF Nodes
  <2>2. CASE n < t.lastfree
    BY <1>3, <1>4, <1>5, <1>7, <2>1, <2>2 DEF FreeBelow
  <2>3. CASE n >= t.lastfree
    BY <1>6, <2>3 DEF Shape, FreeList
  <2> QED BY <1>1, <2>1, <2>2, <2>3
<1> QED BY <1>4, <1>5, <1>6, <1>7 DEF IsLastFree

(* luaH_set keeps a table in good shape, gives the key its value and       *)
(* leaves the others theirs; it uses one more node at most, and none for   *)
(* an element of the array.                                                *)
LEMMA SetKeeps ==
  ASSUME NEW t, Shape(t), NEW key \in Keys, NEW val \in Vals, ~ Full(t, key)
  PROVE  IsSet(t, luaH_set(t, key, val), key, val)
<1>1. CASE InArray(t, key)
  BY <1>1, SetArray DEF luaH_set
<1>2. CASE ~ InArray(t, key) /\ LiveNodes(t, key) # {}
  <2>1. PICK n \in LiveNodes(t, key) : TRUE
    BY <1>2
  <2>2. FirstOf(t, LiveNodes(t, key)) = n /\ Holds(t, n, key)
    BY <2>1, LiveIs
  <2>3. luaH_set(t, key, val) = [t EXCEPT !.node[n].val = val]
    BY <1>2, <2>2, Zenon DEF luaH_set
  <2> QED BY <2>2, <2>3, SetLive
<1>3. CASE ~ InArray(t, key) /\ LiveNodes(t, key) = {}
  <2> DEFINE mp == mainposition(t, key)
             free == Max(FreeBelow(t))
             prev == CHOOSE n \in Nodes(t) : t.node[n].next = mp
  <2>1. CASE ~ Collides(t, key)
    BY <1>3, <2>1, SetPlaced DEF luaH_set, newkey
  <2>2. CASE Collides(t, key)
    <3>1. ~ t.dummy /\ IsLastFree(t, free) /\ t.node[mp].val # Nil
      BY <1>3, <2>2, MaxIsLastFree DEF Full, Collides
    <3>2. CASE mainposition(t, t.node[mp].key) = mp
      <4>1. luaH_set(t, key, val) = Chained(t, mp, free, key, val)
        BY <1>3, <2>2, <3>2, Zenon DEF luaH_set, newkey
      <4> HIDE DEF free
      <4> QED BY <1>3, <3>1, <3>2, <4>1, SetChained
    <3>3. CASE mainposition(t, t.node[mp].key) # mp
      <4>1. /\ mp \in Nodes(t) /\ t.node[mp].key # Nil /\ t.node[mp].key \in Keys
            /\ mainposition(t, t.node[mp].key) \in Nodes(t)
        BY <3>1, MainPosition, UsedIsLive DEF Shape
      <4>2. mp \in From(t, mainposition(t, t.node[mp].key))
        BY <4>1 DEF Shape, Hashed
      <4>3. \E n \in Nodes(t) : Links(t)[n] = mp
        BY <3>3, <4>1, <4>2, FromReach, ReachPrevious DEF Shape, Linked
      <4>4. \E n \in Nodes(t) : t.node[n].next = mp
        BY <4>3 DEF Links
      <4>5. prev \in Nodes(t) /\ t.node[prev].next = mp
        BY <4>4, Zenon
      <4>6. luaH_set(t, key, val) = Moved(t, mp, prev, free, key, val)
        BY <1>3, <2>2, <3>3, Zenon DEF luaH_set, newkey
      <4> HIDE DEF free, prev
      <4> QED BY <1>3, <3>1, <3>3, <4>5, <4>6, SetMoved
    <3> QED BY <3>2, <3>3
  <2> QED BY <2>1, <2>2
<1> QED BY <1>1, <1>2, <1>3

-----------------------------------------------------------------------------
(* What luaH_set has room for, and what resize makes.                      *)

(* There are no more values of a function than arguments.                  *)
LEMMA Image ==
  ASSUME NEW S, IsFiniteSet(S), NEW f, DOMAIN f = S, NEW T, T \subseteq {f[x] : x \in S}
  PROVE  IsFiniteSet(T) /\ Cardinality(T) <= Cardinality(S)
<1> DEFINE R == {f[x] : x \in S}
           g == [x \in S |-> f[x]]
<1>1. g \in Surjection(S, R)
  BY DEF Surjection
<1>2. IsFiniteSet(R) /\ Cardinality(R) <= Cardinality(S) /\ Cardinality(S) \in Nat
  <2> HIDE DEF g, R
  <2> QED BY <1>1, FS_Surjection, FS_CardinalityType
<1>3. IsFiniteSet(T) /\ Cardinality(T) <= Cardinality(R) /\ Cardinality(R) \in Nat
        /\ Cardinality(T) \in Nat
  <2>1. T \in SUBSET R
    OBVIOUS
  <2> HIDE DEF R
  <2> QED BY <1>2, <2>1, FS_Subset, FS_CardinalityType
<1> QED BY <1>2, <1>3

(* The nodes, and those that were used, are finitely many.                 *)
LEMMA NodesFinite ==
  ASSUME NEW t, TableOK(t)
  PROVE  /\ IsFiniteSet(Nodes(t)) /\ Cardinality(Nodes(t)) = t.sizenode
         /\ IsFiniteSet(Keyed(t)) /\ Cardinality(Keyed(t)) \in Nat
         /\ IsFiniteSet(UsedNodes(t)) /\ Cardinality(UsedNodes(t)) \in Nat
         /\ Cardinality(UsedNodes(t)) <= t.sizenode
         /\ IsFiniteSet(UsedArray(t)) /\ Cardinality(UsedArray(t)) \in Nat
<1>1. t.sizenode \in Nat \ {0} /\ Len(t.array) \in Nat /\ DOMAIN t.array = 1 .. Len(t.array)
  BY DEF TableOK, TableType
<1>2. IsFiniteSet(Nodes(t)) /\ Cardinality(Nodes(t)) = t.sizenode
  <2>1. t.sizenode - 1 \in Int /\ 0 \in Int /\ ~ (0 > t.sizenode - 1)
    BY <1>1
  <2>2. IsFiniteSet(0 .. t.sizenode - 1)
        /\ Cardinality(0 .. t.sizenode - 1) = (t.sizenode - 1) - 0 + 1
    BY <2>1, FS_Interval
  <2> QED BY <1>1, <2>2 DEF Nodes
<1>3. IsFiniteSet(1 .. Len(t.array))
  BY <1>1, FS_Interval
<1>4. /\ Keyed(t) \in SUBSET Nodes(t) /\ UsedNodes(t) \in SUBSET Nodes(t)
      /\ UsedArray(t) \in SUBSET (1 .. Len(t.array))
  BY <1>1 DEF Keyed, UsedNodes, UsedArray
<1>5. IsFiniteSet(Keyed(t)) /\ Cardinality(Keyed(t)) \in Nat
  BY <1>2, <1>4, FS_Subset, FS_CardinalityType
<1>6. IsFiniteSet(UsedNodes(t)) /\ Cardinality(UsedNodes(t)) \in Nat
      /\ Cardinality(UsedNodes(t)) <= t.sizenode
  BY <1>2, <1>4, FS_Subset, FS_CardinalityType
<1>7. IsFiniteSet(UsedArray(t)) /\ Cardinality(UsedArray(t)) \in Nat
  BY <1>3, <1>4, FS_Subset, FS_CardinalityType
<1> QED BY <1>2, <1>5, <1>6, <1>7

(* newkey finds a node while not all are used.                             *)
LEMMA NotFull ==
  ASSUME NEW t, Shape(t), NEW key \in Keys,
         InArray(t, key) \/ Cardinality(Keyed(t)) < Capacity(t)
  PROVE  ~ Full(t, key)
<1> SUFFICES ASSUME Full(t, key) PROVE FALSE
  OBVIOUS
<1>0. TableOK(t) /\ t.dummy \in BOOLEAN /\ t.lastfree \in Nat /\ t.sizenode \in Nat
  BY DEF Shape, TableOK, TableType
<1>1. ~ InArray(t, key) /\ FreeBelow(t) = {} /\ Cardinality(Keyed(t)) < Capacity(t)
  BY DEF Full
<1>2. CASE t.dummy
  BY <1>0, <1>1, <1>2, NodesFinite DEF Capacity
<1>3. CASE ~ t.dummy
  <2>1. ASSUME NEW n \in Nodes(t) PROVE t.node[n].key # Nil
    <3>1. n \in Nat
      BY DEF Nodes
    <3>2. n < t.lastfree \/ n >= t.lastfree
      BY <1>0, <3>1
    <3> QED BY <1>1, <1>3, <3>2 DEF FreeBelow, Shape, FreeList
  <2>2. Keyed(t) = Nodes(t)
    BY <2>1 DEF Keyed
  <2>3. Cardinality(Keyed(t)) = t.sizenode
    BY <1>0, <2>2, NodesFinite
  <2> QED BY <1>0, <1>1, <1>3, <2>3 DEF Capacity
<1> QED BY <1>2, <1>3

(* The smallest power of two that is large enough.                         *)
LEMMA SizeOfHash ==
  ASSUME NEW nhash \in Nat, Fits(nhash)
  PROVE  LET size == Min({p \in PowersOfTwo : p >= nhash})
         IN  size \in Nat \ {0} /\ size >= nhash
<1> DEFINE S == {p \in PowersOfTwo : p >= nhash}
<1>1. S \subseteq Nat \ {0} /\ S # {}
  <2>1. PowersOfTwo \subseteq 1 .. MAXASIZE
    BY Zenon DEF PowersOfTwo
  <2>2. \A p \in PowersOfTwo : p \in Nat \ {0}
    BY <2>1, SizesAssumption
  <2> QED BY <2>2 DEF Fits
<1>2. Min(S) \in S
  <2> HIDE DEF S
  <2> QED BY <1>1, MinIs
<1> QED BY <1>1, <1>2

(* A table whose hash part is empty gives what is in its array.            *)
LEMMA EmptyIs ==
  ASSUME NEW array \in Seq(Vals), \A i \in 1 .. Len(array) : array[i] # Nil => i \in Ints,
         NEW nhash \in Nat, Fits(nhash)
  PROVE  LET t == Empty(array, nhash)
         IN  /\ Shape(t) /\ t.array = array /\ Keyed(t) = {} /\ Capacity(t) >= nhash
             /\ \A key \in Keys :
                  luaH_get(t, key) = IF InArray(t, key) THEN array[key] ELSE Nil
<1> DEFINE size == Min({p \in PowersOfTwo : p >= nhash})
           N == 0 .. size - 1
           node == [n \in N |-> FreeNode]
           t == Empty(array, nhash)
<1>0. size \in Nat \ {0} /\ size >= nhash
  BY SizeOfHash
<1>1. t = [array |-> array, node |-> node, sizenode |-> size, dummy |-> nhash = 0,
           lastfree |-> IF nhash = 0 THEN 0 ELSE size]
  BY DEF Empty
<1> HIDE DEF t, size
<1>2. /\ t.array = array /\ t.node = node /\ t.sizenode = size
      /\ t.dummy = (nhash = 0) /\ t.lastfree = IF nhash = 0 THEN 0 ELSE size
  BY <1>1
<1>3. Nodes(t) = N /\ \A n \in N : n \in Nat
  BY <1>0, <1>2 DEF Nodes
<1>4. FreeNode \in NodeType
  BY DEF FreeNode, NodeType, Vals, NULL
<1>5. TableOK(t)
  <2>1. node \in [N -> NodeType]
    BY <1>4
  <2>2. t \in TableType(N)
    <3> HIDE DEF node, N
    <3>1. (IF nhash = 0 THEN 0 ELSE size) \in Nat /\ (nhash = 0) \in BOOLEAN
      BY <1>0
    <3> QED BY <1>0, <1>1, <2>1, <3>1 DEF TableType
  <2> QED BY <1>2, <1>3, <2>2 DEF TableOK
<1>6. \A n \in Nodes(t) : t.node[n] = FreeNode
  BY <1>2, <1>3
<1>7. FreeNode.key = Nil /\ FreeNode.next = NULL /\ FreeNode.dead = FALSE /\ FreeNode.val = Nil
  BY DEF FreeNode
<1> HIDE DEF node, N
<1>8. Linked(t)
  <2>1. Links(t) = [n \in Nodes(t) |-> NULL]
    BY <1>6, <1>7 DEF Links
  <2>2. NULL \notin Nodes(t)
    BY <1>3 DEF NULL
  <2>3. LinksOK(Nodes(t), Links(t))
    BY <2>1, <2>2 DEF LinksOK
  <2> QED BY <1>6, <1>7, <2>3 DEF Linked
<1>9. Hashed(t) /\ Distinct(t) /\ Keyed(t) = {}
  BY <1>6, <1>7 DEF Hashed, Distinct, Keyed
<1>10. FreeList(t)
  <2>1. CASE nhash = 0
    BY <1>2, <1>6, <1>7, <2>1 DEF FreeList
  <2>2. CASE nhash # 0
    <3>1. ~ t.dummy /\ t.lastfree = size
      BY <1>2, <2>2
    <3>2. \A n \in Nodes(t) : n < size
      BY <1>0, <1>3 DEF N
    <3>3. \A n \in Nodes(t) : ~ (n >= size)
      BY <1>0, <1>3, <3>2
    <3> QED BY <3>1, <3>3 DEF FreeList
  <2> QED BY <2>1, <2>2
<1>11. Shape(t)
  BY <1>5, <1>8, <1>9, <1>10 DEF Shape
<1>12. Capacity(t) >= nhash
  <2>1. CASE nhash = 0
    <3>1. t.dummy
      BY <1>2, <2>1
    <3>2. Capacity(t) = 0
      BY <3>1 DEF Capacity
    <3> QED BY <2>1, <3>2
  <2>2. CASE nhash # 0
    BY <1>0, <1>2, <2>2 DEF Capacity
  <2> QED BY <2>1, <2>2
<1>13. ASSUME NEW key \in Keys
       PROVE  luaH_get(t, key) = IF InArray(t, key) THEN array[key] ELSE Nil
  <2>1. \A n : ~ Holds(t, n, key)
    BY <1>6, <1>7, KeysAssumption DEF Holds
  <2> QED BY <1>2, <1>11, <2>1, GetIs
<1> QED BY <1>2, <1>9, <1>11, <1>12, <1>13 DEF t

-----------------------------------------------------------------------------
(* What resize puts back, one by one.                                      *)
LEMMA EntriesAre ==
  ASSUME NEW t, Shape(t), NEW nasize \in Nat
  PROVE  LET e == Entries(t, nasize)
             lost == IF nasize < Len(t.array) THEN Len(t.array) - nasize ELSE 0
         IN  /\ e \in Seq(EntryType) /\ Len(e) = lost + t.sizenode /\ lost \in Nat
             /\ \A i \in 1 .. Len(e) :
                  IF i <= lost
                  THEN /\ e[i].key = nasize + i /\ e[i].val = t.array[nasize + i]
                       /\ nasize + i \in 1 .. Len(t.array)
                  ELSE LET n == t.sizenode + lost - i
                       IN  /\ n \in Nodes(t)
                           /\ e[i].key = t.node[n].key /\ e[i].val = t.node[n].val
<1> DEFINE lost == IF nasize < Len(t.array) THEN Len(t.array) - nasize ELSE 0
           e == Entries(t, nasize)
           at(i) == IF i <= lost THEN Entry(nasize + i, t.array[nasize + i])
                    ELSE Entry(t.node[t.sizenode + lost - i].key,
                               t.node[t.sizenode + lost - i].val)
<1>0. /\ t.sizenode \in Nat \ {0} /\ Len(t.array) \in Nat /\ t.array \in Seq(Vals)
      /\ TableOK(t)
  BY DEF Shape, TableOK, TableType
<1>1. lost \in Nat /\ (lost # 0 => lost = Len(t.array) - nasize)
  BY <1>0
<1>2. e = [i \in 1 .. lost + t.sizenode |-> at(i)]
  BY DEF Entries, Entry
<1> HIDE DEF e, lost
<1>3. ASSUME NEW i \in 1 .. lost + t.sizenode
      PROVE  /\ at(i) \in EntryType
             /\ IF i <= lost
                THEN /\ at(i).key = nasize + i /\ at(i).val = t.array[nasize + i]
                     /\ nasize + i \in 1 .. Len(t.array)
                ELSE LET n == t.sizenode + lost - i
                     IN  /\ n \in Nodes(t)
                         /\ at(i).key = t.node[n].key /\ at(i).val = t.node[n].val
  <2>1. CASE i <= lost
    <3>1. nasize + i \in 1 .. Len(t.array) /\ nasize + i \in Nat
      BY <1>0, <1>1, <2>1
    <3>2. t.array[nasize + i] \in Vals
      BY <1>0, <3>1
    <3> QED BY <2>1, <3>1, <3>2 DEF Entry, EntryType
  <2>2. CASE ~ (i <= lost)
    <3> DEFINE n == t.sizenode + lost - i
    <3>1. n \in Nodes(t)
      BY <1>0, <1>1, <2>2 DEF Nodes
    <3>2. t.node[n].key \in Keys \union {Nil} /\ t.node[n].val \in Vals
      BY <1>0, <3>1, NodeParts
    <3>3. at(i) = Entry(t.node[n].key, t.node[n].val)
      BY <2>2
    <3> HIDE DEF at, n
    <3>4. at(i) \in EntryType /\ at(i).key = t.node[n].key /\ at(i).val = t.node[n].val
      BY <3>2, <3>3 DEF Entry, EntryType
    <3> QED BY <2>2, <3>1, <3>4 DEF n
  <2> QED BY <2>1, <2>2
<1> HIDE DEF at
<1>4. lost + t.sizenode \in Nat
  BY <1>0, <1>1
<1>5. e \in Seq(EntryType) /\ Len(e) = lost + t.sizenode
  BY <1>2, <1>3, <1>4
<1>6. \A i \in 1 .. Len(e) : e[i] = at(i)
  BY <1>2, <1>5
<1> QED BY <1>1, <1>3, <1>5, <1>6 DEF e, lost

(* They are the table's own: what has a value, once each, and whatever the *)
(* new array does not keep.                                                *)
LEMMA EntriesHold ==
  ASSUME NEW t, Shape(t), NEW nasize \in Nat
  PROVE  LET e == Entries(t, nasize)
         IN  /\ \A i \in 1 .. Len(e) : e[i].val # Nil =>
                  /\ e[i].key \in Keys /\ luaH_get(t, e[i].key) = e[i].val
                  /\ ~ (InArray(t, e[i].key) /\ e[i].key <= nasize)
                  /\ e[i].key \in UsedArray(t) \union {t.node[n].key : n \in UsedNodes(t)}
                  /\ \A j \in 1 .. Len(e) :
                       e[j].val # Nil /\ e[j].key = e[i].key => j = i
             /\ \A key \in Keys :
                  luaH_get(t, key) # Nil /\ ~ (InArray(t, key) /\ key <= nasize)
                    => key \in EntryKeys(e)
<1> DEFINE lost == IF nasize < Len(t.array) THEN Len(t.array) - nasize ELSE 0
           e == Entries(t, nasize)
<1>0. /\ t.sizenode \in Nat \ {0} /\ Len(t.array) \in Nat /\ t.array \in Seq(Vals)
      /\ DOMAIN t.array = 1 .. Len(t.array)
      /\ TableOK(t) /\ \A i \in 1 .. Len(t.array) : t.array[i] # Nil => i \in Ints
  BY DEF Shape, TableOK, TableType
<1>1. lost \in Nat /\ Len(e) = lost + t.sizenode
  BY EntriesAre
<1>2. \A i \in 1 .. Len(e) : i <= lost =>
        /\ e[i].key = nasize + i /\ e[i].val = t.array[nasize + i]
        /\ nasize + i \in 1 .. Len(t.array)
  BY EntriesAre
<1>3. \A i \in 1 .. Len(e) : ~ (i <= lost) =>
        /\ t.sizenode + lost - i \in Nodes(t)
        /\ e[i].key = t.node[t.sizenode + lost - i].key
        /\ e[i].val = t.node[t.sizenode + lost - i].val
  BY EntriesAre
<1>4. (lost # 0 => lost = Len(t.array) - nasize)
      /\ (nasize < Len(t.array) => lost = Len(t.array) - nasize)
  BY <1>0
<1> HIDE DEF e, lost
<1>5. ASSUME NEW i \in 1 .. Len(e), i <= lost, e[i].val # Nil
      PROVE  /\ e[i].key = nasize + i /\ e[i].key \in Keys /\ InArray(t, e[i].key)
             /\ luaH_get(t, e[i].key) = e[i].val /\ e[i].key \in UsedArray(t)
  <2>1. nasize + i \in 1 .. Len(t.array) /\ e[i].key = nasize + i
          /\ e[i].val = t.array[nasize + i]
    BY <1>2, <1>5
  <2>2. nasize + i \in Ints /\ nasize + i \in Keys
    BY <1>0, <1>5, <2>1 DEF Keys
  <2>3. InArray(t, nasize + i)
    BY <2>1 DEF InArray
  <2>4. luaH_get(t, nasize + i) = t.array[nasize + i]
    BY <2>2, <2>3, GetIs
  <2>5. nasize + i \in UsedArray(t)
    BY <1>0, <1>5, <2>1 DEF UsedArray
  <2> QED BY <2>1, <2>2, <2>3, <2>4, <2>5
<1>6. ASSUME NEW i \in 1 .. Len(e), ~ (i <= lost), e[i].val # Nil
      PROVE  LET n == t.sizenode + lost - i
             IN  /\ n \in UsedNodes(t) /\ e[i].key = t.node[n].key /\ Holds(t, n, e[i].key)
                 /\ e[i].key \in Keys /\ ~ InArray(t, e[i].key)
                 /\ luaH_get(t, e[i].key) = e[i].val
  <2> DEFINE n == t.sizenode + lost - i
  <2>1. n \in Nodes(t) /\ e[i].key = t.node[n].key /\ e[i].val = t.node[n].val
    BY <1>3, <1>6
  <2> HIDE DEF n
  <2>2. n \in UsedNodes(t)
    BY <1>6, <2>1 DEF UsedNodes
  <2>3. e[i].key \in Keys /\ ~ InArray(t, e[i].key) /\ Holds(t, n, e[i].key)
    BY <1>6, <2>1, UsedIsLive
  <2>4. luaH_get(t, e[i].key) = t.node[n].val
    BY <2>3, GetIs
  <2> QED BY <2>1, <2>2, <2>3, <2>4 DEF n
<1>7. ASSUME NEW i \in 1 .. Len(e), e[i].val # Nil,
             NEW j \in 1 .. Len(e), e[j].val # Nil, e[j].key = e[i].key
      PROVE  j = i
  <2>1. CASE i <= lost /\ j <= lost
    <3>1. nasize + i = nasize + j
      BY <1>5, <1>7, <2>1
    <3> QED BY <3>1
  <2>2. CASE i <= lost /\ ~ (j <= lost)
    <3>1. InArray(t, e[i].key)
      BY <1>5, <1>7, <2>2
    <3>2. ~ InArray(t, e[j].key)
      BY <1>6, <1>7, <2>2
    <3> QED BY <1>7, <3>1, <3>2
  <2>4. CASE j <= lost /\ ~ (i <= lost)
    <3>1. InArray(t, e[j].key)
      BY <1>5, <1>7, <2>4
    <3>2. ~ InArray(t, e[i].key)
      BY <1>6, <1>7, <2>4
    <3> QED BY <1>7, <3>1, <3>2
  <2>3. CASE ~ (i <= lost) /\ ~ (j <= lost)
    <3> DEFINE m == t.sizenode + lost - i
               n == t.sizenode + lost - j
    <3>1. Holds(t, m, e[i].key) /\ e[i].key \in Keys
      BY <1>6, <1>7, <2>3
    <3>2. Holds(t, n, e[j].key)
      BY <1>6, <1>7, <2>3
    <3>3. m \in LiveNodes(t, e[i].key) /\ n \in LiveNodes(t, e[i].key)
      <4> HIDE DEF m, n
      <4>1. m \in Nodes(t) /\ n \in Nodes(t) /\ Holds(t, n, e[i].key)
        BY <1>7, <3>1, <3>2 DEF Holds
      <4> QED BY <3>1, <4>1, LiveIs
    <3>4. m = n
      <4> HIDE DEF m, n
      <4> QED BY <3>1, <3>3, LiveIs
    <3> QED BY <1>0, <1>1, <3>4
  <2> QED BY <2>1, <2>2, <2>3, <2>4
<1>8. ASSUME NEW i \in 1 .. Len(e), e[i].val # Nil
      PROVE  /\ e[i].key \in Keys /\ luaH_get(t, e[i].key) = e[i].val
             /\ ~ (InArray(t, e[i].key) /\ e[i].key <= nasize)
             /\ e[i].key \in UsedArray(t) \union {t.node[n].key : n \in UsedNodes(t)}
  <2>1. CASE i <= lost
    <3>1. ~ (nasize + i <= nasize)
      BY <2>1
    <3> QED BY <1>5, <1>8, <2>1, <3>1
  <2>2. CASE ~ (i <= lost)
    BY <1>6, <1>8, <2>2
  <2> QED BY <2>1, <2>2
<1>9. ASSUME NEW key \in Keys, luaH_get(t, key) # Nil, ~ (InArray(t, key) /\ key <= nasize)
      PROVE  key \in EntryKeys(e)
  <2>1. CASE InArray(t, key)
    <3> DEFINE i == key - nasize
    <3>1. key \in 1 .. Len(t.array) /\ key > nasize
      BY <1>0, <1>9, <2>1 DEF InArray
    <3>2. i \in 1 .. Len(e) /\ i <= lost /\ nasize + i = key
      BY <1>0, <1>1, <1>4, <3>1
    <3>3. t.array[key] # Nil
      BY <1>9, <2>1, GetIs
    <3>4. e[i].key = key /\ e[i].val # Nil
      BY <1>2, <3>2, <3>3
    <3> QED BY <3>2, <3>4 DEF EntryKeys
  <2>2. CASE ~ InArray(t, key)
    <3>1. PICK n : Holds(t, n, key)
      BY <1>9, <2>2, GetIs
    <3>2. n \in Nodes(t) /\ t.node[n].key = key /\ t.node[n].val # Nil
      BY <1>9, <3>1, GetIs DEF Holds
    <3> DEFINE i == t.sizenode + lost - n
    <3>3. n \in 0 .. t.sizenode - 1
      BY <3>2 DEF Nodes
    <3>4. i \in 1 .. Len(e) /\ ~ (i <= lost) /\ t.sizenode + lost - i = n
      BY <1>0, <1>1, <3>3
    <3>5. e[i].key = key /\ e[i].val # Nil
      BY <1>3, <3>2, <3>4
    <3> QED BY <3>4, <3>5 DEF EntryKeys
  <2> QED BY <2>1, <2>2
<1> QED BY <1>7, <1>8, <1>9 DEF e

(* What a resize leaves of the table, and what it has to put back.         *)
LEMMA ResizeStep ==
  ASSUME Shape(table), NEW nasize \in Nat, NEW nhsize \in Nat, Resize(nasize, nhsize)
  PROVE  /\ Shape(table') /\ Keyed(table') = {} /\ Capacity(table') >= nhsize
         /\ Len(table'.array) = nasize
         /\ old' = Entries(table, nasize)
         /\ \A key \in Keys \ EntryKeys(old') : luaH_get(table', key) = luaH_get(table, key)
<1> DEFINE array == [i \in 1 .. nasize |->
                       IF i <= Len(table.array) THEN table.array[i] ELSE Nil]
<1>0. /\ Len(table.array) \in Nat /\ table.array \in Seq(Vals)
      /\ \A i \in 1 .. Len(table.array) : table.array[i] # Nil => i \in Ints
  BY DEF Shape, TableOK, TableType
<1>1. table' = Empty(array, nhsize) /\ Fits(nhsize) /\ old' = Entries(table, nasize)
  BY DEF Resize
<1>2. array \in Seq(Vals) /\ Len(array) = nasize
  <2>1. \A i \in 1 .. nasize : array[i] \in Vals
    BY <1>0 DEF Vals
  <2> QED BY <2>1
<1>3. \A i \in 1 .. nasize :
        array[i] = IF i <= Len(table.array) THEN table.array[i] ELSE Nil
  OBVIOUS
<1>4. \A i \in 1 .. Len(array) : array[i] # Nil => i \in Ints
  BY <1>0, <1>2, <1>3
<1> HIDE DEF array
<1>5. /\ Shape(table') /\ table'.array = array /\ Keyed(table') = {}
      /\ Capacity(table') >= nhsize
      /\ \A key \in Keys :
           luaH_get(table', key) = IF InArray(table', key) THEN array[key] ELSE Nil
  BY <1>1, <1>2, <1>4, EmptyIs, Zenon
<1>6. ASSUME NEW key \in Keys \ EntryKeys(old')
      PROVE  luaH_get(table', key) = luaH_get(table, key)
  <2>1. luaH_get(table, key) = Nil \/ (InArray(table, key) /\ key <= nasize)
    BY <1>1, EntriesHold
  <2>2. CASE InArray(table, key) /\ key <= nasize
    <3>1. key \in 1 .. nasize /\ key <= Len(table.array)
      BY <1>0, <2>2 DEF InArray
    <3>2. luaH_get(table', key) = array[key] /\ array[key] = table.array[key]
      BY <1>2, <1>3, <1>5, <3>1 DEF InArray
    <3> QED BY <2>2, <3>2, GetIs
  <2>3. CASE luaH_get(table, key) = Nil /\ ~ (InArray(table, key) /\ key <= nasize)
    <3>1. CASE InArray(table', key)
      <4>1. key \in 1 .. nasize
        BY <1>2, <1>5, <3>1 DEF InArray
      <4>2. ~ (key <= Len(table.array))
        BY <1>0, <2>3, <4>1 DEF InArray
      <4>3. array[key] = Nil
        BY <1>3, <4>1, <4>2
      <4> QED BY <1>5, <2>3, <3>1, <4>3
    <3>2. CASE ~ InArray(table', key)
      BY <1>5, <2>3, <3>2
    <3> QED BY <3>1, <3>2
  <2> QED BY <2>1, <2>2, <2>3
<1> QED BY <1>1, <1>2, <1>5, <1>6

(* What resize has to put back is finite, and has its types.               *)
LEMMA EntryKeysFinite ==
  ASSUME NEW e \in Seq(EntryType)
  PROVE  IsFiniteSet(EntryKeys(e)) /\ Cardinality(EntryKeys(e)) \in Nat
<1> DEFINE f == [i \in 1 .. Len(e) |-> e[i].key]
<1>1. IsFiniteSet(1 .. Len(e))
  BY FS_Interval
<1>2. EntryKeys(e) \subseteq {f[i] : i \in 1 .. Len(e)} /\ DOMAIN f = 1 .. Len(e)
  BY DEF EntryKeys
<1>3. IsFiniteSet(EntryKeys(e))
  <2> HIDE DEF f
  <2> QED BY <1>1, <1>2, Image
<1> QED BY <1>3, FS_CardinalityType

(* The keys of a table's nodes are no more than the nodes.                 *)
LEMMA NodeKeys ==
  ASSUME NEW t, TableOK(t)
  PROVE  LET keys == {t.node[n].key : n \in UsedNodes(t)}
         IN  IsFiniteSet(keys) /\ Cardinality(keys) \in Nat
             /\ Cardinality(keys) <= Cardinality(UsedNodes(t))
<1> DEFINE f == [n \in UsedNodes(t) |-> t.node[n].key]
           keys == {t.node[n].key : n \in UsedNodes(t)}
<1>1. keys \subseteq {f[n] : n \in UsedNodes(t)} /\ DOMAIN f = UsedNodes(t)
  OBVIOUS
<1>2. IsFiniteSet(UsedNodes(t))
  BY NodesFinite
<1>3. IsFiniteSet(keys) /\ Cardinality(keys) <= Cardinality(UsedNodes(t))
  <2> HIDE DEF f, keys
  <2> QED BY <1>1, <1>2, Image
<1> QED BY <1>3, FS_CardinalityType

(* A resize that keeps the array has room for the nodes' keys.             *)
LEMMA RoomForNodes ==
  ASSUME NEW t, Shape(t), NEW nasize \in Nat, nasize > Len(t.array)
  PROVE  /\ Capacity(t) \in Nat
         /\ Cardinality(EntryKeys(Entries(t, nasize))) <= Capacity(t)
<1> DEFINE keys == {t.node[n].key : n \in UsedNodes(t)}
           e == Entries(t, nasize)
<1>0. /\ TableOK(t) /\ t.sizenode \in Nat \ {0} /\ t.dummy \in BOOLEAN /\ Len(t.array) \in Nat
      /\ DOMAIN t.array = 1 .. Len(t.array)
  BY DEF Shape, TableOK, TableType
<1>1. EntryKeys(e) \subseteq keys
  <2> SUFFICES ASSUME NEW i \in 1 .. Len(e), e[i].val # Nil PROVE e[i].key \in keys
    BY DEF EntryKeys
  <2>1. /\ e[i].key \in UsedArray(t) \union keys
        /\ ~ (InArray(t, e[i].key) /\ e[i].key <= nasize)
    BY EntriesHold
  <2>2. ASSUME NEW k \in UsedArray(t) PROVE InArray(t, k) /\ k <= nasize
    BY <1>0 DEF UsedArray, InArray
  <2> QED BY <2>1, <2>2
<1>2. IsFiniteSet(keys) /\ Cardinality(keys) \in Nat
        /\ Cardinality(keys) <= Cardinality(UsedNodes(t))
  BY <1>0, NodeKeys
<1>3. e \in Seq(EntryType)
  BY EntriesAre
<1> HIDE DEF keys, e
<1>4. Cardinality(EntryKeys(e)) <= Cardinality(keys) /\ Cardinality(EntryKeys(e)) \in Nat
  BY <1>1, <1>2, <1>3, FS_Subset, EntryKeysFinite
<1>5. Cardinality(UsedNodes(t)) <= t.sizenode /\ Cardinality(UsedNodes(t)) \in Nat
  BY <1>0, NodesFinite
<1>6. CASE ~ t.dummy
  BY <1>0, <1>2, <1>4, <1>5, <1>6 DEF Capacity, e
<1>7. CASE t.dummy
  <2>1. \A n \in Nodes(t) : t.node[n].key = Nil
    BY <1>7 DEF Shape, FreeList
  <2>2. UsedNodes(t) = {}
    BY <2>1, UsedIsLive DEF UsedNodes
  <2>3. Cardinality(UsedNodes(t)) = 0
    BY <2>2, FS_EmptySet
  <2> QED BY <1>2, <1>4, <1>5, <1>7, <2>3 DEF Capacity, e
<1> QED BY <1>0, <1>6, <1>7

(* computesizes gives the size of an array.                                *)
LEMMA ArraySize ==
  ASSUME NEW candidates
  PROVE  computesizes(candidates) \in Nat
<1> DEFINE Below(p) == {k \in candidates : k <= p}
           S == {0} \union {p \in PowersOfTwo :
                        /\ p \div 2 < Cardinality(candidates)
                        /\ Below(p) # Below(p \div 2)
                        /\ Cardinality(Below(p)) > p \div 2}
<1>1. PowersOfTwo \subseteq 1 .. MAXASIZE
  BY Zenon DEF PowersOfTwo
<1>2. S \subseteq {0} \union PowersOfTwo /\ 0 \in S
  BY Zenon
<1>3. computesizes(candidates) = Max(S)
  BY Zenon DEF computesizes
<1> HIDE DEF S
<1>4. S \subseteq 0 .. MAXASIZE /\ S # {} /\ MAXASIZE \in Nat
  BY <1>1, <1>2, SizesAssumption
<1>5. Max(S) \in S
  BY <1>4, MaxIs
<1>6. \A m \in S : m \in Nat
  BY <1>4
<1> QED BY <1>3, <1>5, <1>6, Zenon

(* rehash makes room for all that is put back outside of the new array.    *)
LEMMA RoomForAll ==
  ASSUME Shape(table), NEW key \in Keys, rehash(key)
  PROVE  \E nasize, nhsize \in Nat :
           /\ Resize(nasize, nhsize)
           /\ Cardinality({k \in EntryKeys(Entries(table, nasize)) \union {key} :
                             k \notin 1 .. nasize}) <= nhsize
<1> DEFINE candidates == ArrayCandidates(table, key)
           nasize == computesizes(candidates)
           totaluse == Cardinality(UsedArray(table)) + Cardinality(UsedNodes(table)) + 1
           C == {k \in candidates : k <= nasize}
           nhsize == totaluse - Cardinality(C)
           keys == {table.node[n].key : n \in UsedNodes(table)}
           U == (UsedArray(table) \union keys) \union {key}
           W == {k \in EntryKeys(Entries(table, nasize)) \union {key} : k \notin 1 .. nasize}
<1>0. /\ TableOK(table) /\ Len(table.array) \in Nat
      /\ DOMAIN table.array = 1 .. Len(table.array)
  BY DEF Shape, TableOK, TableType
<1>1. Resize(nasize, nhsize)
  BY DEF rehash
<1>2. nasize \in Nat
  BY ArraySize
<1>3. candidates \subseteq U
  BY DEF ArrayCandidates
<1>4. \A k \in candidates : k \in Nat /\ k >= 1
  <2>1. \A k \in UsedArray(table) : k \in Nat /\ k >= 1
    BY <1>0 DEF UsedArray
  <2>2. \A k \in 1 .. MAXASIZE : k \in Nat /\ k >= 1
    BY SizesAssumption
  <2> QED BY <2>1, <2>2 DEF ArrayCandidates
<1>5. W \subseteq U
  <2>1. EntryKeys(Entries(table, nasize)) \subseteq UsedArray(table) \union keys
    <3> HIDE DEF nasize, keys
    <3> SUFFICES ASSUME NEW i \in 1 .. Len(Entries(table, nasize)),
                        Entries(table, nasize)[i].val # Nil
                 PROVE  Entries(table, nasize)[i].key \in UsedArray(table) \union keys
      BY DEF EntryKeys
    <3> QED BY <1>2, EntriesHold DEF keys
  <2> QED BY <2>1
<1>6. /\ IsFiniteSet(U) /\ Cardinality(U) \in Nat
      /\ Cardinality(U) <= totaluse /\ totaluse \in Nat
  <2>1. /\ IsFiniteSet(keys) /\ Cardinality(keys) \in Nat
        /\ Cardinality(keys) <= Cardinality(UsedNodes(table))
    BY <1>0, NodeKeys
  <2>2. /\ IsFiniteSet(UsedArray(table)) /\ Cardinality(UsedArray(table)) \in Nat
        /\ Cardinality(UsedNodes(table)) \in Nat
    BY <1>0, NodesFinite
  <2> DEFINE V == UsedArray(table) \union keys
  <2> HIDE DEF keys
  <2>3. IsFiniteSet(V) /\ Cardinality(V) =
          Cardinality(UsedArray(table)) + Cardinality(keys)
            - Cardinality(UsedArray(table) \intersect keys)
    BY <2>1, <2>2, FS_Union
  <2>4. Cardinality(UsedArray(table) \intersect keys) \in Nat
    <3>1. IsFiniteSet(UsedArray(table) \intersect keys)
      BY <2>2, FS_Intersection
    <3> QED BY <3>1, FS_CardinalityType
  <2>5. Cardinality(V) \in Nat
    BY <2>3, FS_CardinalityType
  <2>6. IsFiniteSet(V \union {key}) /\ Cardinality(V \union {key}) \in Nat
        /\ Cardinality(V \union {key}) <= Cardinality(V) + 1
    <3> HIDE DEF V
    <3>1. IsFiniteSet(V \union {key}) /\ Cardinality(V \union {key}) =
            IF key \in V THEN Cardinality(V) ELSE Cardinality(V) + 1
      BY <2>3, FS_AddElement
    <3> QED BY <2>5, <3>1
  <2>7. Cardinality(V) <= Cardinality(UsedArray(table)) + Cardinality(UsedNodes(table))
    BY <2>1, <2>2, <2>3, <2>4
  <2> HIDE DEF V
  <2>8. totaluse \in Nat
    BY <2>2
  <2>9. Cardinality(V \union {key}) <= totaluse
    BY <2>2, <2>5, <2>6, <2>7
  <2> QED BY <2>6, <2>8, <2>9 DEF V
<1>7. W \subseteq U \ C
  <2> SUFFICES ASSUME NEW k \in W, k \in C PROVE FALSE
    BY <1>5
  <2>1. k \in Nat /\ k >= 1 /\ k <= nasize
    BY <1>4
  <2>2. k \notin 1 .. nasize
    OBVIOUS
  <2> HIDE DEF nasize
  <2> QED BY <1>2, <2>1, <2>2
<1>8. C \subseteq U
  BY <1>3
<1> HIDE DEF U, C, W, totaluse, nasize, candidates
<1>9. /\ IsFiniteSet(U \ C) /\ Cardinality(U \ C) = Cardinality(U) - Cardinality(C)
      /\ Cardinality(C) \in Nat /\ Cardinality(U \ C) \in Nat
  <2>1. U \intersect C = C
    BY <1>8
  <2>2. IsFiniteSet(C) /\ Cardinality(C) \in Nat
    BY <1>6, <1>8, FS_Subset, FS_CardinalityType
  <2> QED BY <1>6, <2>1, <2>2, FS_Difference, FS_CardinalityType
<1>10. Cardinality(W) <= Cardinality(U \ C) /\ Cardinality(W) \in Nat
  <2>1. W \in SUBSET (U \ C)
    BY <1>7
  <2> QED BY <1>9, <2>1, FS_Subset, FS_CardinalityType
<1>11. nhsize \in Nat /\ Cardinality(W) <= nhsize
  BY <1>6, <1>9, <1>10
<1> HIDE DEF nhsize
<1>12. Resize(nasize, nhsize) /\ Cardinality(W) <= nhsize /\ nasize \in Nat /\ nhsize \in Nat
  BY <1>1, <1>2, <1>11
<1> QED BY <1>12, Zenon DEF W

-----------------------------------------------------------------------------
(* Where a traversal finds its place.                                      *)

(* The keys of two tables are in the same places.                          *)
SamePlaces(t, u) ==
  /\ Len(u.array) = Len(t.array) /\ u.sizenode = t.sizenode
  /\ \A n \in Nodes(t) : u.node[n].key = t.node[n].key /\ u.node[n].next = t.node[n].next

(* There every key is found at the same position.                          *)
LEMMA FindSame ==
  ASSUME NEW t, NEW u, SamePlaces(t, u), NEW key
  PROVE  findindex(u, key) = findindex(t, key)
<1>1. Nodes(u) = Nodes(t) /\ InArray(u, key) = InArray(t, key)
  BY DEF SamePlaces, Nodes, InArray
<1>2. \A n : From(u, n) = From(t, n)
  BY <1>1 DEF From, SamePlaces
<1>3. Chain(u, key) = Chain(t, key)
  BY <1>2, SamePosition DEF Chain, SamePlaces
<1> DEFINE foundt == {n \in Nodes(t) : t.node[n].key = key /\ n \in Chain(t, key)}
           foundu == {n \in Nodes(u) : u.node[n].key = key /\ n \in Chain(u, key)}
<1>4. foundu = foundt
  BY <1>1, <1>3 DEF SamePlaces
<1>5. \A nodes : FirstOf(u, nodes) = FirstOf(t, nodes)
  BY <1>2 DEF FirstOf
<1> HIDE DEF foundt, foundu
<1>6. FirstOf(u, foundu) = FirstOf(t, foundt)
  BY <1>4, <1>5, Zenon
<1> QED BY <1>1, <1>4, <1>6, Zenon DEF findindex, foundt, foundu, SamePlaces

(* findindex finds the node of a key that has a value before any dead one. *)
LEMMA FindNode ==
  ASSUME NEW t, Shape(t), NEW n \in UsedNodes(t)
  PROVE  findindex(t, t.node[n].key) = Len(t.array) + 1 + n
<1> DEFINE key == t.node[n].key
           found == {m \in Nodes(t) : t.node[m].key = key /\ m \in Chain(t, key)}
<1>1. /\ n \in Nodes(t) /\ key # Nil /\ key \in Keys /\ ~ t.node[n].dead /\ ~ InArray(t, key)
  BY UsedIsLive DEF UsedNodes
<1>2. n \in found
  BY <1>1 DEF Shape, Hashed, Chain
<1>3. \A m \in found : m \in From(t, n)
  BY <1>1, FromSelf DEF Shape, Distinct
<1>4. ASSUME NEW x \in found, \A m \in found \ {x} : m \in From(t, x) PROVE x = n
  BY <1>1, <1>2, <1>3, <1>4, FromAntisymmetric DEF Shape
<1> HIDE DEF found
<1>5. FirstOf(t, found) = n
  BY <1>2, <1>3, <1>4, Zenon DEF FirstOf
<1> QED BY <1>1, <1>2, <1>5, Zenon DEF findindex, found

(* A position with a value is where its key is found.                      *)
LEMMA FindSlot ==
  ASSUME NEW t, Shape(t), NEW i \in Slots(t), ValueAt(t, i) # Nil
  PROVE  /\ KeyAt(t, i) \in Keys /\ findindex(t, KeyAt(t, i)) = i
         /\ luaH_get(t, KeyAt(t, i)) = ValueAt(t, i)
<1>0. /\ TableOK(t) /\ Len(t.array) \in Nat /\ t.sizenode \in Nat \ {0}
      /\ \A j \in 1 .. Len(t.array) : t.array[j] # Nil => j \in Ints
  BY DEF Shape, TableOK, TableType
<1>1. i \in Nat /\ i >= 1 /\ i <= Len(t.array) + t.sizenode
  BY <1>0 DEF Slots
<1>2. CASE i <= Len(t.array)
  <2>1. ValueAt(t, i) = t.array[i] /\ KeyAt(t, i) = i
    BY <1>2, Zenon DEF ValueAt, KeyAt
  <2>2. i \in 1 .. Len(t.array)
    BY <1>0, <1>1, <1>2
  <2>3. i \in Ints /\ i \in Keys /\ InArray(t, i)
    BY <1>0, <2>1, <2>2 DEF Keys, InArray
  <2>4. i # Nil
    BY <2>3, KeysAssumption
  <2>5. findindex(t, i) = i
    BY <2>3, <2>4, Zenon DEF findindex
  <2> QED BY <2>1, <2>3, <2>5, GetIs
<1>3. CASE ~ (i <= Len(t.array))
  <2> DEFINE n == i - Len(t.array) - 1
  <2>1. ValueAt(t, i) = t.node[n].val /\ KeyAt(t, i) = t.node[n].key
    BY <1>3, Zenon DEF ValueAt, KeyAt
  <2>2. n \in Nodes(t) /\ Len(t.array) + 1 + n = i
    <3> DEFINE l == Len(t.array)
               s == t.sizenode
    <3>1. l \in Nat /\ s \in Nat /\ i \in Nat /\ i <= l + s /\ ~ (i <= l)
      BY <1>0, <1>1, <1>3
    <3> HIDE DEF l, s
    <3>2. i - l - 1 \in 0 .. s - 1 /\ l + 1 + (i - l - 1) = i
      BY <3>1
    <3> QED BY <3>2 DEF Nodes, l, s
  <2> HIDE DEF n
  <2>3. n \in UsedNodes(t)
    BY <2>1, <2>2 DEF UsedNodes
  <2>4. Holds(t, n, t.node[n].key) /\ t.node[n].key \in Keys
    BY <2>1, <2>2, UsedIsLive
  <2>5. luaH_get(t, t.node[n].key) = t.node[n].val
    BY <2>4, GetIs
  <2>6. findindex(t, t.node[n].key) = Len(t.array) + 1 + n
    BY <2>3, FindNode
  <2> QED BY <2>1, <2>2, <2>4, <2>5, <2>6
<1> QED BY <1>2, <1>3

(* Every key with a value is found at a position.                          *)
LEMMA FindKey ==
  ASSUME NEW t, Shape(t), NEW key \in Keys, luaH_get(t, key) # Nil
  PROVE  /\ findindex(t, key) \in Slots(t)
         /\ ValueAt(t, findindex(t, key)) # Nil /\ KeyAt(t, findindex(t, key)) = key
<1>0. TableOK(t) /\ Len(t.array) \in Nat /\ t.sizenode \in Nat \ {0}
  BY DEF Shape, TableOK, TableType
<1>1. CASE InArray(t, key)
  <2>1. key # Nil
    BY KeysAssumption
  <2>2. findindex(t, key) = key
    BY <1>1, <2>1, Zenon DEF findindex
  <2>3. key \in 1 .. Len(t.array)
    BY <1>1 DEF InArray
  <2>4. key \in Slots(t) /\ key <= Len(t.array)
    BY <1>0, <2>3 DEF Slots
  <2>5. ValueAt(t, key) = t.array[key] /\ KeyAt(t, key) = key
    BY <2>4, Zenon DEF ValueAt, KeyAt
  <2> QED BY <1>1, <2>2, <2>4, <2>5, GetIs
<1>2. CASE ~ InArray(t, key)
  <2>1. PICK n : Holds(t, n, key)
    BY <1>2, GetIs
  <2>2. n \in Nodes(t) /\ t.node[n].key = key /\ t.node[n].val # Nil
    BY <2>1, GetIs DEF Holds
  <2>3. n \in UsedNodes(t)
    BY <2>2 DEF UsedNodes
  <2>4. findindex(t, key) = Len(t.array) + 1 + n
    BY <2>2, <2>3, FindNode
  <2> DEFINE i == Len(t.array) + 1 + n
  <2>5. i \in Slots(t) /\ ~ (i <= Len(t.array)) /\ i - Len(t.array) - 1 = n
    <3> DEFINE l == Len(t.array)
               s == t.sizenode
    <3>1. l \in Nat /\ s \in Nat /\ n \in 0 .. s - 1
      BY <1>0, <2>2 DEF Nodes
    <3> HIDE DEF l, s
    <3>2. l + 1 + n \in 1 .. l + s /\ ~ (l + 1 + n <= l) /\ (l + 1 + n) - l - 1 = n
      BY <3>1
    <3> QED BY <3>2 DEF Slots, l, s
  <2>6. ValueAt(t, i) = t.node[n].val /\ KeyAt(t, i) = t.node[n].key
    <3> HIDE DEF i
    <3> QED BY <2>5, Zenon DEF ValueAt, KeyAt
  <2> QED BY <2>2, <2>4, <2>5, <2>6
<1> QED BY <1>1, <1>2

-----------------------------------------------------------------------------
(* The inductive invariant.                                                *)

(* Nothing waits while no resize is under way.                             *)
LEMMA AtRest ==
  ASSUME IInv, ~ Moving
  PROVE  /\ old = <<>> /\ pending = NoEntry /\ Waiting = {}
         /\ \A key \in Keys : luaH_get(table, key) = Content(dict, key)
<1>1. old = <<>> /\ pending = NoEntry
  BY DEF Moving
<1>2. EntryKeys(old) = {}
  BY <1>1 DEF EntryKeys
<1>3. Waiting = {}
  BY <1>1, <1>2 DEF Waiting
<1> QED BY <1>1, <1>3 DEF IInv, Restoring

(* A pair of a key and a value is not the lack of one.                     *)
LEMMA EntryIs ==
  ASSUME NEW key \in Keys, NEW val
  PROVE  /\ Entry(key, val) # NoEntry
         /\ Entry(key, val).key = key /\ Entry(key, val).val = val
<1>1. key # Nil
  BY KeysAssumption
<1> QED BY <1>1 DEF Entry, NoEntry

(* What is assigned is in the dictionary, or no longer.                    *)
LEMMA UpdatedIs ==
  ASSUME TypeOK, NEW key \in Keys, NEW val \in Vals, dict' = Updated(key, val)
  PROVE  /\ DOMAIN dict' = (DOMAIN dict \ {key}) \union (IF val = Nil THEN {} ELSE {key})
         /\ DOMAIN dict' \subseteq Keys /\ \A k \in DOMAIN dict' : dict'[k] \in Vals \ {Nil}
         /\ \A k : Content(dict', k) = IF k = key THEN val ELSE Content(dict, k)
<1> DEFINE D == (DOMAIN dict \ {key}) \union (IF val = Nil THEN {} ELSE {key})
<1>1. DOMAIN dict' = D /\ \A k \in D : dict'[k] = IF k = key THEN val ELSE dict[k]
  BY DEF Updated
<1>2. D \subseteq Keys /\ \A k \in D : dict'[k] \in Vals \ {Nil}
  BY <1>1 DEF TypeOK
<1>3. ASSUME NEW k PROVE Content(dict', k) = IF k = key THEN val ELSE Content(dict, k)
  BY <1>1 DEF Content
<1> QED BY <1>1, <1>2, <1>3

(* The value of a key that is there is assigned where it stands.           *)
LEMMA SetInPlace ==
  ASSUME NEW t, Shape(t), NEW key \in Keys, luaH_get(t, key) # Nil, NEW val \in Vals
  PROVE  ~ Full(t, key) /\ SamePlaces(t, luaH_set(t, key, val))
<1>0. /\ TableOK(t) /\ t \in TableType(Nodes(t)) /\ t.array \in Seq(Vals)
      /\ t.node \in [Nodes(t) -> NodeType]
  BY DEF Shape, TableOK, TableType
<1>1. CASE InArray(t, key)
  <2> DEFINE array == [t.array EXCEPT ![key] = val]
  <2>1. array \in Seq(Vals) /\ Len(array) = Len(t.array)
    BY <1>0, <1>1 DEF InArray
  <2>2. luaH_set(t, key, val) = [t EXCEPT !.array = array]
    BY <1>1, Zenon DEF luaH_set
  <2> HIDE DEF array
  <2>3. LET u == luaH_set(t, key, val)
        IN  u.array = array /\ u.node = t.node /\ u.sizenode = t.sizenode
    BY <1>0, <2>1, <2>2, ReplacedArray
  <2>4. SamePlaces(t, luaH_set(t, key, val))
    BY <2>1, <2>3 DEF SamePlaces
  <2> QED BY <1>1, <2>4 DEF Full
<1>2. CASE ~ InArray(t, key)
  <2>1. PICK n : Holds(t, n, key)
    BY <1>2, GetIs
  <2>2. n \in Nodes(t) /\ n \in LiveNodes(t, key)
    BY <2>1, LiveIs DEF Holds
  <2>3. FirstOf(t, LiveNodes(t, key)) = n
    BY <2>2, LiveIs
  <2>4. luaH_set(t, key, val) = [t EXCEPT !.node[n].val = val]
    BY <1>2, <2>2, <2>3, Zenon DEF luaH_set
  <2> DEFINE node == [t.node EXCEPT ![n].val = val]
  <2>5. /\ t.node[n] = [key |-> t.node[n].key, dead |-> t.node[n].dead,
                        val |-> t.node[n].val, next |-> t.node[n].next]
        /\ t.node[n] \in NodeType
    BY <1>0, <2>2, NodeParts
  <2>6. /\ node \in [Nodes(t) -> NodeType]
        /\ \A m \in Nodes(t) : node[m].key = t.node[m].key /\ node[m].next = t.node[m].next
    <3> DEFINE v == [t.node[n] EXCEPT !.val = val]
    <3>1. v \in NodeType /\ v.key = t.node[n].key /\ v.next = t.node[n].next
      BY <2>5 DEF NodeType
    <3>2. node = [t.node EXCEPT ![n] = v]
      BY <1>0, <2>2
    <3> HIDE DEF v, node
    <3> QED BY <1>0, <2>2, <3>1, <3>2
  <2>7. luaH_set(t, key, val) = [t EXCEPT !.node = node]
    BY <2>4, Zenon
  <2> HIDE DEF node
  <2>8. IsWith(t, luaH_set(t, key, val), t.lastfree, node)
    <3>1. t.lastfree \in Nat
      BY <1>0 DEF TableType
    <3>2. IsWith(t, [t EXCEPT !.node = node], t.lastfree, node)
      BY <1>0, <2>6, <3>1, ReplacedNodes
    <3> QED BY <2>7, <3>2, Zenon
  <2>9. SamePlaces(t, luaH_set(t, key, val))
    BY <2>6, <2>8 DEF SamePlaces, IsWith
  <2> QED BY <2>2, <2>9 DEF Full
<1> QED BY <1>1, <1>2

(* No traversal is under way.                                              *)
LEMMA NoVisitKeeps ==
  ASSUME visit' = NoVisit
  PROVE  /\ Visiting' /\ ~ visit'.on
         /\ visit' \in VisitType
         /\ IsFiniteSet(visit'.seen)
<1>1. IsFiniteSet({}) /\ Cardinality({}) = 0
  BY FS_EmptySet
<1>2. /\ visit'.seen = {} /\ visit'.count = 0 /\ visit'.stayed = {} /\ visit'.on = FALSE
      /\ visit'.last = Nil
  BY DEF NoVisit, VisitType
<1>3. visit' \in VisitType
  BY DEF NoVisit, VisitType
<1> QED BY <1>1, <1>2, <1>3 DEF Visiting

(* A traversal goes on in a table whose keys are in the same places.       *)
LEMMA VisitKeeps ==
  ASSUME TypeOK, Visiting, SamePlaces(table, table'),
         visit'.last = visit.last, visit'.seen = visit.seen, visit'.count = visit.count,
         visit'.on = visit.on, visit'.stayed \subseteq visit.stayed,
         visit.on => visit'.stayed \subseteq DOMAIN dict'
  PROVE  Visiting'
<1>1. \A k : findindex(table', k) = findindex(table, k)
  BY FindSame
<1> QED BY <1>1 DEF Visiting

(* The search of a length has not begun.                                   *)
LEMMA NoSearchKeeps ==
  ASSUME search' = NoSearch
  PROVE  /\ Searching'
         /\ search' \in SearchType
BY DEF Searching, InOrder, NoSearch, At, SearchType

(* An assignment for which there is room, while nothing else is under way. *)
LEMMA AssignSets ==
  ASSUME IInv, NEW key \in Keys, NEW val \in Vals, Ready, ~ Full(table, key),
         table' = luaH_set(table, key, val), UNCHANGED resizing, dict' = Updated(key, val),
         visit' = IF key \in DOMAIN dict
                  THEN [visit EXCEPT !.stayed = @ \ (IF val = Nil THEN {key} ELSE {})]
                  ELSE NoVisit,
         UNCHANGED search
  PROVE  IInv'
<1>0. /\ TypeOK /\ Shape(table) /\ Visiting /\ ~ Moving /\ search = NoSearch
      /\ old = <<>> /\ pending = NoEntry /\ Waiting = {}
      /\ \A k \in Keys : luaH_get(table, k) = Content(dict, k)
  BY AtRest DEF IInv, Ready
<1>1. /\ old' = <<>> /\ pending' = NoEntry /\ Waiting' = {} /\ ~ Moving'
  BY <1>0 DEF resizing, Moving, Waiting, EntryKeys
<1>2. IsSet(table, table', key, val)
  BY <1>0, SetKeeps
<1>3. Shape(table')
  BY <1>2 DEF IsSet
<1>4. Searching' /\ search' \in SearchType
  BY <1>0, NoSearchKeeps
<1>5. Restoring'
  <2>1. \A k \in Keys : luaH_get(table', k) = IF k = key THEN val ELSE Content(dict, k)
    BY <1>0, <1>2 DEF IsSet
  <2>2. \A k \in Keys : luaH_get(table', k) = Content(dict', k)
    BY <1>0, <2>1, UpdatedIs
  <2> QED BY <1>1, <2>2 DEF Restoring
<1>6. Room'
  BY <1>1 DEF Room
<1>7. /\ Visiting'
      /\ visit' \in VisitType
      /\ IsFiniteSet(visit'.seen)
  <2>1. CASE key \in DOMAIN dict
    <3>1. luaH_get(table, key) # Nil
      BY <1>0, <2>1 DEF Content, TypeOK
    <3>2. SamePlaces(table, table')
      BY <1>0, <3>1, SetInPlace
    <3> DEFINE gone == IF val = Nil THEN {key} ELSE {}
    <3>3. visit' = [visit EXCEPT !.stayed = @ \ gone]
      BY <2>1
    <3>4. /\ visit'.last = visit.last /\ visit'.seen = visit.seen /\ visit'.count = visit.count
          /\ visit'.on = visit.on /\ visit'.stayed = visit.stayed \ gone
          /\ visit' \in VisitType
      <4> HIDE DEF gone
      <4> QED BY <1>0, <3>3 DEF TypeOK, VisitType
    <3>5. visit.on => visit'.stayed \subseteq DOMAIN dict'
      BY <1>0, <3>4, UpdatedIs DEF Visiting
    <3>6. Visiting'
      BY <1>0, <3>2, <3>4, <3>5, VisitKeeps
    <3> QED BY <1>0, <3>4, <3>6 DEF TypeOK
  <2>2. CASE key \notin DOMAIN dict
    BY <2>2, NoVisitKeeps
  <2> QED BY <2>1, <2>2
<1>8. TypeOK'
  <2>1. old' \in Seq(EntryType) /\ pending' \in EntryType
    BY <1>0, <1>1 DEF TypeOK
  <2>2. DOMAIN dict' \subseteq Keys /\ \A k \in DOMAIN dict' : dict'[k] \in Vals \ {Nil}
    BY <1>0, UpdatedIs
  <2> QED BY <1>4, <1>7, <2>1, <2>2 DEF TypeOK
<1> QED BY <1>3, <1>4, <1>5, <1>6, <1>7, <1>8 DEF IInv

(* A resize begins: what it puts back has the values the script assigned.  *)
LEMMA ResizeBegins ==
  ASSUME IInv, ~ Moving, NEW nasize \in Nat, NEW nhsize \in Nat, Resize(nasize, nhsize)
  PROVE  /\ Shape(table') /\ old' = Entries(table, nasize) /\ old' \in Seq(EntryType)
         /\ \A k : InArray(table', k) <=> k \in 1 .. nasize
         /\ \A i \in 1 .. Len(old') : old'[i].val # Nil =>
              /\ old'[i].key \in Keys /\ Content(dict, old'[i].key) = old'[i].val
              /\ \A j \in 1 .. Len(old') :
                   old'[j].val # Nil /\ old'[j].key = old'[i].key => j = i
         /\ \A k \in Keys \ EntryKeys(old') : luaH_get(table', k) = Content(dict, k)
         /\ \A W : /\ IsFiniteSet(W) /\ Waiting' = W
                   /\ Cardinality({k \in W : k \notin 1 .. nasize}) <= nhsize
                   => Room'
<1>0. Shape(table) /\ \A k \in Keys : luaH_get(table, k) = Content(dict, k)
  BY AtRest DEF IInv
<1>1. /\ Shape(table') /\ Keyed(table') = {} /\ Capacity(table') >= nhsize
      /\ Len(table'.array) = nasize /\ old' = Entries(table, nasize)
      /\ \A k \in Keys \ EntryKeys(old') : luaH_get(table', k) = luaH_get(table, k)
  BY <1>0, ResizeStep
<1>2. old' \in Seq(EntryType)
  BY <1>0, <1>1, EntriesAre
<1>3. \A k : InArray(table', k) <=> k \in 1 .. nasize
  BY <1>1 DEF InArray
<1>4. ASSUME NEW i \in 1 .. Len(old'), old'[i].val # Nil
      PROVE  /\ old'[i].key \in Keys /\ Content(dict, old'[i].key) = old'[i].val
             /\ \A j \in 1 .. Len(old') :
                  old'[j].val # Nil /\ old'[j].key = old'[i].key => j = i
  <2>1. /\ old'[i].key \in Keys /\ luaH_get(table, old'[i].key) = old'[i].val
        /\ \A j \in 1 .. Len(old') :
             old'[j].val # Nil /\ old'[j].key = old'[i].key => j = i
    BY <1>0, <1>1, <1>4, EntriesHold
  <2>2. luaH_get(table, old'[i].key) = Content(dict, old'[i].key)
    BY <1>0, <2>1
  <2> QED BY <2>1, <2>2
<1>5. \A k \in Keys \ EntryKeys(old') : luaH_get(table', k) = Content(dict, k)
  BY <1>0, <1>1
<1>6. ASSUME NEW W, IsFiniteSet(W), Waiting' = W,
             Cardinality({k \in W : k \notin 1 .. nasize}) <= nhsize
      PROVE  Room'
  <2> DEFINE out == {k \in W : k \notin 1 .. nasize}
  <2>1. {k \in Waiting' : ~ InArray(table', k)} = out
    BY <1>3, <1>6
  <2>2. Cardinality(Keyed(table')) = 0
    BY <1>1, FS_EmptySet
  <2>3. Cardinality(out) \in Nat /\ Cardinality(out) <= nhsize
    <3>1. out \in SUBSET W
      OBVIOUS
    <3> QED BY <1>6, <3>1, FS_Subset, FS_CardinalityType
  <2>4. Capacity(table') \in Nat
    BY <1>1 DEF Shape, TableOK, TableType, Capacity
  <2> HIDE DEF out
  <2>5. Cardinality(Keyed(table')) + Cardinality(out) <= Capacity(table')
    BY <1>1, <2>2, <2>3, <2>4
  <2> QED BY <2>1, <2>5 DEF Room
<1> QED BY <1>1, <1>2, <1>3, <1>4, <1>5, <1>6

(* An assignment that makes a resize necessary.                            *)
LEMMA AssignRehashes ==
  ASSUME IInv, NEW key \in Keys, NEW val \in Vals, Ready, Full(table, key),
         rehash(key), pending' = Entry(key, val), dict' = Updated(key, val),
         key \notin DOMAIN dict => visit' = NoVisit,
         UNCHANGED search
  PROVE  IInv'
<1>0. /\ TypeOK /\ Shape(table) /\ ~ Moving /\ search = NoSearch
      /\ \A k \in Keys : luaH_get(table, k) = Content(dict, k)
  BY AtRest DEF IInv, Ready
<1>1. luaH_get(table, key) = Nil
  BY Zenon DEF Full, luaH_get
<1>2. key \notin DOMAIN dict /\ Content(dict, key) = Nil
  BY <1>0, <1>1 DEF Content, TypeOK
<1>3. /\ Visiting' /\ ~ visit'.on
      /\ visit' \in VisitType
      /\ IsFiniteSet(visit'.seen)
  BY <1>2, NoVisitKeeps
<1>4. PICK nasize, nhsize \in Nat :
        /\ Resize(nasize, nhsize)
        /\ Cardinality({k \in EntryKeys(Entries(table, nasize)) \union {key} :
                          k \notin 1 .. nasize}) <= nhsize
  BY <1>0, RoomForAll
<1>5. /\ Shape(table') /\ old' = Entries(table, nasize) /\ old' \in Seq(EntryType)
      /\ \A i \in 1 .. Len(old') : old'[i].val # Nil =>
           /\ old'[i].key \in Keys /\ Content(dict, old'[i].key) = old'[i].val
           /\ \A j \in 1 .. Len(old') :
                old'[j].val # Nil /\ old'[j].key = old'[i].key => j = i
      /\ \A k \in Keys \ EntryKeys(old') : luaH_get(table', k) = Content(dict, k)
      /\ \A W : /\ IsFiniteSet(W) /\ Waiting' = W
                /\ Cardinality({k \in W : k \notin 1 .. nasize}) <= nhsize
                => Room'
  BY <1>0, <1>4, ResizeBegins
<1>6. pending' # NoEntry /\ pending'.key = key /\ pending'.val = val
  BY EntryIs
<1>7. Waiting' = EntryKeys(old') \union {key}
  BY <1>6 DEF Waiting
<1>8. Room'
  <2>1. IsFiniteSet(EntryKeys(old') \union {key})
    BY <1>5, EntryKeysFinite, FS_AddElement
  <2> QED BY <1>4, <1>5, <1>7, <2>1
<1>9. \A k : Content(dict', k) = IF k = key THEN val ELSE Content(dict, k)
  BY <1>0, UpdatedIs
<1>10. Restoring'
  <2>1. ASSUME NEW i \in 1 .. Len(old'), old'[i].val # Nil
        PROVE  /\ old'[i].key \in Keys /\ old'[i].key # key
               /\ Content(dict', old'[i].key) = old'[i].val
               /\ \A j \in 1 .. Len(old') :
                    old'[j].val # Nil /\ old'[j].key = old'[i].key => j = i
    <3>1. /\ old'[i].key \in Keys /\ Content(dict, old'[i].key) = old'[i].val
          /\ \A j \in 1 .. Len(old') :
               old'[j].val # Nil /\ old'[j].key = old'[i].key => j = i
      BY <1>5, <2>1
    <3>2. old'[i].key # key
      BY <1>2, <2>1, <3>1
    <3>3. Content(dict', old'[i].key) = Content(dict, old'[i].key)
      BY <1>9, <3>2
    <3> QED BY <3>1, <3>2, <3>3
  <2>2. Content(dict', key) = val
    BY <1>9
  <2>3. ASSUME NEW k \in Keys \ Waiting' PROVE luaH_get(table', k) = Content(dict', k)
    BY <1>5, <1>7, <1>9
  <2> QED BY <1>3, <1>6, <2>1, <2>2, <2>3 DEF Restoring
<1>11. Searching' /\ search' \in SearchType
  BY <1>0, NoSearchKeeps
<1>12. TypeOK'
  <2>1. pending' \in EntryType
    BY DEF Entry, EntryType
  <2>2. DOMAIN dict' \subseteq Keys /\ \A k \in DOMAIN dict' : dict'[k] \in Vals \ {Nil}
    BY <1>0, UpdatedIs
  <2> QED BY <1>3, <1>5, <1>11, <2>1, <2>2 DEF TypeOK
<1> QED BY <1>3, <1>5, <1>8, <1>10, <1>11, <1>12 DEF IInv

(* The constructor makes room for its items.                               *)
LEMMA ResizeArrayKeeps ==
  ASSUME IInv, NEW nasize \in ArraySizes, ResizeArray(nasize)
  PROVE  IInv'
<1> DEFINE nhsize == Capacity(table)
<1>0. /\ TypeOK /\ Shape(table) /\ ~ Moving /\ search = NoSearch /\ pending = NoEntry
      /\ dict' = dict /\ pending' = pending /\ search' = search /\ visit' = NoVisit
      /\ nasize \in Nat /\ nasize > Len(table.array)
  <2>1. nasize \in Nat
    BY SizesAssumption
  <2> QED BY <2>1, AtRest DEF IInv, Ready, ResizeArray
<1>1. Resize(nasize, nhsize)
  BY DEF ResizeArray, Capacity
<1>2. nhsize \in Nat /\ Cardinality(EntryKeys(Entries(table, nasize))) <= nhsize
  BY <1>0, RoomForNodes
<1> HIDE DEF nhsize
<1>3. /\ Shape(table') /\ old' = Entries(table, nasize) /\ old' \in Seq(EntryType)
      /\ \A i \in 1 .. Len(old') : old'[i].val # Nil =>
           /\ old'[i].key \in Keys /\ Content(dict, old'[i].key) = old'[i].val
           /\ \A j \in 1 .. Len(old') :
                old'[j].val # Nil /\ old'[j].key = old'[i].key => j = i
      /\ \A k \in Keys \ EntryKeys(old') : luaH_get(table', k) = Content(dict, k)
      /\ \A W : /\ IsFiniteSet(W) /\ Waiting' = W
                /\ Cardinality({k \in W : k \notin 1 .. nasize}) <= nhsize
                => Room'
  BY <1>0, <1>1, <1>2, ResizeBegins
<1>4. Waiting' = EntryKeys(old')
  BY <1>0 DEF Waiting
<1>5. Room'
  <2> DEFINE W == EntryKeys(old')
             out == {k \in W : k \notin 1 .. nasize}
  <2>1. IsFiniteSet(W) /\ Cardinality(W) \in Nat /\ Cardinality(W) <= nhsize
    BY <1>2, <1>3, EntryKeysFinite
  <2>2. out \in SUBSET W
    OBVIOUS
  <2> HIDE DEF W
  <2>3. Cardinality(out) <= Cardinality(W) /\ Cardinality(out) \in Nat
    BY <2>1, <2>2, FS_Subset, FS_CardinalityType
  <2>4. Cardinality(out) <= nhsize
    BY <1>2, <2>1, <2>3
  <2>5. Waiting' = W
    BY <1>4 DEF W
  <2> QED BY <1>3, <2>1, <2>4, <2>5
<1>6. Visiting' /\ ~ visit'.on
      /\ visit' \in VisitType
      /\ IsFiniteSet(visit'.seen)
  BY <1>0, NoVisitKeeps
<1>7. Restoring'
  BY <1>0, <1>3, <1>4, <1>6 DEF Restoring
<1>8. Searching' /\ search' \in SearchType
  BY <1>0, NoSearchKeeps
<1>9. TypeOK'
  BY <1>0, <1>3, <1>6, <1>8 DEF TypeOK
<1> QED BY <1>3, <1>5, <1>6, <1>7, <1>8, <1>9 DEF IInv

(* A key that waits is put back: there is a node for it.                   *)
LEMMA PutOne ==
  ASSUME IInv, Moving, NEW key \in Keys, key \in Waiting, NEW val \in Vals,
         Content(dict, key) = val
  PROVE  /\ ~ Full(table, key)
         /\ LET u == luaH_set(table, key, val)
                W == Waiting \ {key}
            IN  /\ Shape(u)
                /\ \A k \in Keys \ W : luaH_get(u, k) = Content(dict, k)
                /\ Cardinality(Keyed(u)) + Cardinality({k \in W : ~ InArray(u, k)})
                     <= Capacity(u)
<1> DEFINE u == luaH_set(table, key, val)
           W == Waiting \ {key}
           out == {k \in Waiting : ~ InArray(table, k)}
           uout == {k \in W : ~ InArray(u, k)}
<1>0. TypeOK /\ Shape(table) /\ Restoring /\ Room /\ TableOK(table)
  BY DEF IInv, Shape
<1>1. IsFiniteSet(Waiting)
  <2>1. IsFiniteSet(EntryKeys(old))
    BY <1>0, EntryKeysFinite DEF TypeOK
  <2>2. IsFiniteSet(EntryKeys(old) \union {pending.key})
    BY <2>1, FS_AddElement
  <2> QED BY <2>1, <2>2 DEF Waiting
<1>2. /\ IsFiniteSet(out) /\ Cardinality(out) \in Nat
      /\ Cardinality(Keyed(table)) \in Nat /\ IsFiniteSet(Keyed(table))
      /\ Cardinality(Keyed(table)) + Cardinality(out) <= Capacity(table)
      /\ Capacity(table) \in Nat
  <2>1. out \in SUBSET Waiting
    OBVIOUS
  <2>2. IsFiniteSet(out) /\ Cardinality(out) \in Nat
    <3> HIDE DEF out
    <3> QED BY <1>1, <2>1, FS_Subset, FS_CardinalityType
  <2>3. Capacity(table) \in Nat
    BY <1>0 DEF Capacity, TableOK, TableType
  <2> QED BY <1>0, <2>2, <2>3, NodesFinite DEF Room
<1>3. InArray(table, key) \/ Cardinality(Keyed(table)) < Capacity(table)
  <2> SUFFICES ASSUME ~ InArray(table, key) PROVE Cardinality(Keyed(table)) < Capacity(table)
    OBVIOUS
  <2>1. out # {}
    OBVIOUS
  <2>2. Cardinality(out) # 0
    <3> HIDE DEF out
    <3> QED BY <1>2, <2>1, FS_EmptySet
  <2> HIDE DEF out
  <2> QED BY <1>2, <2>2
<1>4. ~ Full(table, key)
  BY <1>0, <1>3, NotFull
<1>5. IsSet(table, u, key, val)
  BY <1>0, <1>4, SetKeeps
<1> HIDE DEF u
<1>6. /\ Shape(u) /\ Len(u.array) = Len(table.array) /\ Capacity(u) = Capacity(table)
      /\ luaH_get(u, key) = val
      /\ \A k \in Keys \ {key} : luaH_get(u, k) = luaH_get(table, k)
      /\ InArray(table, key) => Keyed(u) = Keyed(table)
      /\ \E n : Keyed(u) \subseteq Keyed(table) \union {n}
      /\ \A k : InArray(u, k) <=> InArray(table, k)
  BY <1>5 DEF IsSet, Capacity, InArray
<1>7. \A k \in Keys \ W : luaH_get(u, k) = Content(dict, k)
  BY <1>0, <1>6 DEF Restoring
<1>8. CASE InArray(table, key)
  <2>1. uout = out
    BY <1>6, <1>8
  <2> QED BY <1>2, <1>4, <1>6, <1>7, <1>8, <2>1 DEF u
<1>9. CASE ~ InArray(table, key)
  <2>1. uout = out \ {key} /\ key \in out
    BY <1>6, <1>9
  <2>2. Cardinality(uout) = Cardinality(out) - 1
    <3> HIDE DEF out, uout
    <3> QED BY <1>2, <2>1, FS_RemoveElement
  <2>3. PICK n : Keyed(u) \subseteq Keyed(table) \union {n}
    BY <1>6
  <2>4. /\ IsFiniteSet(Keyed(table) \union {n})
        /\ Cardinality(Keyed(table) \union {n}) \in Nat
        /\ Cardinality(Keyed(table) \union {n}) <= Cardinality(Keyed(table)) + 1
    <3>1. IsFiniteSet(Keyed(table) \union {n}) /\ Cardinality(Keyed(table) \union {n}) =
            IF n \in Keyed(table) THEN Cardinality(Keyed(table))
                                  ELSE Cardinality(Keyed(table)) + 1
      BY <1>2, FS_AddElement
    <3> QED BY <1>2, <3>1
  <2>5. Cardinality(Keyed(u)) \in Nat
        /\ Cardinality(Keyed(u)) <= Cardinality(Keyed(table) \union {n})
    <3>1. Keyed(u) \in SUBSET (Keyed(table) \union {n})
      BY <2>3
    <3> QED BY <2>4, <3>1, FS_Subset, FS_CardinalityType
  <2> HIDE DEF uout, out
  <2>6. Cardinality(Keyed(u)) + Cardinality(uout) <= Capacity(u)
    BY <1>2, <1>6, <2>2, <2>4, <2>5
  <2> QED BY <1>4, <1>6, <1>7, <2>6 DEF u, uout
<1> QED BY <1>8, <1>9

(* resize puts back an element.                                            *)
LEMMA PutBackKeeps ==
  ASSUME IInv, PutBack
  PROVE  IInv'
<1> DEFINE e == Head(old)
<1>0. /\ TypeOK /\ Shape(table) /\ Restoring /\ Room /\ Searching /\ Visiting /\ Moving
      /\ old # <<>> /\ old' = Tail(old) /\ pending' = pending /\ dict' = dict
      /\ search' = search /\ visit' = visit
  BY DEF IInv, PutBack, Moving
<1>1. /\ old \in Seq(EntryType) /\ Len(old) \in Nat \ {0}
      /\ old' \in Seq(EntryType) /\ Len(old') = Len(old) - 1
      /\ \A i \in 1 .. Len(old') : i + 1 \in 1 .. Len(old) /\ old'[i] = old[i + 1]
      /\ e = old[1] /\ 1 \in 1 .. Len(old)
  BY <1>0 DEF TypeOK
<1>2. \A i \in 2 .. Len(old) : i - 1 \in 1 .. Len(old') /\ old[i] = old'[i - 1]
  BY <1>1
<1> HIDE DEF e
<1>3. EntryKeys(old') = EntryKeys(old) \ (IF e.val = Nil THEN {} ELSE {e.key})
  <2>1. ASSUME NEW k \in EntryKeys(old')
        PROVE  k \in EntryKeys(old) /\ (e.val # Nil => k # e.key)
    <3>1. PICK i \in 1 .. Len(old') : old'[i].val # Nil /\ k = old'[i].key
      BY DEF EntryKeys
    <3>2. /\ i + 1 \in 1 .. Len(old) /\ old[i + 1].val # Nil /\ k = old[i + 1].key
          /\ i + 1 # 1
      BY <1>1, <3>1
    <3>3. k \in EntryKeys(old)
      BY <3>2 DEF EntryKeys
    <3>4. e.val # Nil => k # e.key
      BY <1>0, <1>1, <3>2 DEF Restoring
    <3> QED BY <3>3, <3>4
  <2>2. ASSUME NEW k \in EntryKeys(old), e.val # Nil => k # e.key
        PROVE  k \in EntryKeys(old')
    <3>1. PICK i \in 1 .. Len(old) : old[i].val # Nil /\ k = old[i].key
      BY DEF EntryKeys
    <3>2. i # 1
      BY <1>1, <2>2, <3>1
    <3>3. i \in 2 .. Len(old)
      BY <1>1, <3>2
    <3>4. i - 1 \in 1 .. Len(old') /\ old'[i - 1].val # Nil /\ k = old'[i - 1].key
      BY <1>2, <3>1, <3>3
    <3> QED BY <3>4 DEF EntryKeys
  <2> QED BY <2>1, <2>2
<1>4. Waiting' = Waiting \ (IF e.val = Nil THEN {} ELSE {e.key})
  <2>1. pending # NoEntry /\ e.val # Nil => pending.key # e.key
    BY <1>0, <1>1 DEF Restoring
  <2> QED BY <1>0, <1>3, <2>1 DEF Waiting
<1>5. /\ Shape(table')
      /\ \A k \in Keys \ Waiting' : luaH_get(table', k) = Content(dict, k)
      /\ Cardinality(Keyed(table')) + Cardinality({k \in Waiting' : ~ InArray(table', k)})
           <= Capacity(table')
  <2>1. CASE e.val = Nil
    <3>1. table' = table /\ Waiting' = Waiting
      BY <1>4, <2>1 DEF PutBack, e
    <3> QED BY <1>0, <3>1 DEF Restoring, Room
  <2>2. CASE e.val # Nil
    <3>1. /\ e.key \in Keys /\ e.val \in Vals /\ Content(dict, e.key) = e.val
          /\ e.key \in Waiting
      <4>1. e.key \in Keys /\ Content(dict, e.key) = e.val
        BY <1>0, <1>1, <2>2 DEF Restoring
      <4>2. e.key \in EntryKeys(old)
        BY <1>1, <2>2 DEF EntryKeys
      <4>3. e \in EntryType
        BY <1>1
      <4> QED BY <4>1, <4>2, <4>3 DEF Waiting, EntryType
    <3>2. table' = luaH_set(table, e.key, e.val) /\ Waiting' = Waiting \ {e.key}
      BY <1>4, <2>2 DEF PutBack, e
    <3> QED BY <1>0, <3>1, <3>2, PutOne
  <2> QED BY <2>1, <2>2
<1>6. Restoring'
  <2>1. ASSUME NEW i \in 1 .. Len(old'), old'[i].val # Nil
        PROVE  /\ old'[i].key \in Keys /\ Content(dict, old'[i].key) = old'[i].val
               /\ pending # NoEntry => pending.key # old'[i].key
               /\ \A j \in 1 .. Len(old') :
                    old'[j].val # Nil /\ old'[j].key = old'[i].key => j = i
    <3>1. i + 1 \in 1 .. Len(old) /\ old'[i] = old[i + 1]
      BY <1>1
    <3>2. /\ old'[i].key \in Keys /\ Content(dict, old'[i].key) = old'[i].val
          /\ pending # NoEntry => pending.key # old'[i].key
          /\ \A j \in 1 .. Len(old) :
               old[j].val # Nil /\ old[j].key = old'[i].key => j = i + 1
      BY <1>0, <2>1, <3>1 DEF Restoring
    <3>3. ASSUME NEW j \in 1 .. Len(old'), old'[j].val # Nil, old'[j].key = old'[i].key
          PROVE  j = i
      <4>1. j + 1 \in 1 .. Len(old) /\ old'[j] = old[j + 1]
        BY <1>1
      <4>2. j + 1 = i + 1
        BY <3>2, <3>3, <4>1
      <4> QED BY <4>2
    <3> QED BY <3>2, <3>3
  <2>2. pending # NoEntry => pending.key \in Keys /\ Content(dict, pending.key) = pending.val
    BY <1>0 DEF Restoring
  <2>3. ~ visit.on
    BY <1>0 DEF Restoring
  <2> QED BY <1>0, <1>5, <2>1, <2>2, <2>3 DEF Restoring
<1>7. Room'
  BY <1>5 DEF Room
<1>8. Searching'
  BY <1>0, NoSearchKeeps DEF Searching
<1>9. Visiting'
  BY <1>0 DEF Visiting, Restoring
<1>10. TypeOK'
  BY <1>0, <1>1 DEF TypeOK
<1> QED BY <1>5, <1>6, <1>7, <1>8, <1>9, <1>10 DEF IInv

(* newkey puts the new key into the table that rehash made.                *)
LEMMA PutPendingKeeps ==
  ASSUME IInv, PutPending
  PROVE  IInv'
<1>0. /\ TypeOK /\ Shape(table) /\ Restoring /\ Room /\ Searching /\ Visiting /\ Moving
      /\ old = <<>> /\ pending # NoEntry /\ old' = old /\ pending' = NoEntry /\ dict' = dict
      /\ search' = search /\ visit' = visit
      /\ table' = luaH_set(table, pending.key, pending.val)
  BY DEF IInv, PutPending, Moving
<1>1. /\ pending.key \in Keys /\ Content(dict, pending.key) = pending.val
      /\ pending.val \in Vals
  BY <1>0 DEF Restoring, TypeOK, EntryType
<1>2. EntryKeys(old) = {}
  BY <1>0 DEF EntryKeys
<1>3. Waiting = {pending.key} /\ Waiting' = {} /\ ~ Moving'
  BY <1>0, <1>2 DEF Waiting, Moving
<1>4. /\ Shape(table')
      /\ \A k \in Keys \ (Waiting \ {pending.key}) : luaH_get(table', k) = Content(dict, k)
  BY <1>0, <1>1, <1>3, PutOne
<1>5. Restoring'
  BY <1>0, <1>3, <1>4 DEF Restoring
<1>6. Room'
  BY <1>3 DEF Room
<1>7. Searching'
  BY <1>0, NoSearchKeeps DEF Searching
<1>8. Visiting'
  BY <1>0 DEF Visiting, Restoring
<1>9. TypeOK'
  <2>1. NoEntry \in EntryType
    BY DEF NoEntry, Entry, EntryType, Vals
  <2> QED BY <1>0, <2>1 DEF TypeOK
<1> QED BY <1>4, <1>5, <1>6, <1>7, <1>8, <1>9 DEF IInv

(* A table whose keys without a value are dead.                            *)
KeysDead(t) ==
  [t EXCEPT !.node =
     [n \in Nodes(t) |->
        [t.node[n] EXCEPT
           !.dead = @ \/ (t.node[n].val = Nil /\ t.node[n].key \in Collectable)]]]

(* removeentry turns keys without a value into dead ones, in their places. *)
LEMMA KeysDie ==
  ASSUME NEW t, Shape(t)
  PROVE  /\ Shape(KeysDead(t)) /\ SamePlaces(t, KeysDead(t))
         /\ \A k \in Keys : luaH_get(KeysDead(t), k) = luaH_get(t, k)
<1> DEFINE dies(n) == t.node[n].val = Nil /\ t.node[n].key \in Collectable
           node == [n \in Nodes(t) |-> [t.node[n] EXCEPT !.dead = @ \/ dies(n)]]
           u == KeysDead(t)
<1>0. TableOK(t) /\ t.lastfree \in Nat
  BY DEF Shape, TableOK, TableType
<1>1. ASSUME NEW n \in Nodes(t)
      PROVE  /\ node[n] \in NodeType
             /\ node[n].key = t.node[n].key /\ node[n].val = t.node[n].val
             /\ node[n].next = t.node[n].next
             /\ node[n].dead = (t.node[n].dead \/ dies(n))
  <2>1. t.node[n] \in NodeType
    BY <1>0, NodeParts
  <2>2. (t.node[n].dead \/ dies(n)) \in BOOLEAN
    BY <2>1 DEF NodeType
  <2> DEFINE b == t.node[n].dead \/ dies(n)
  <2>3. node[n] = [t.node[n] EXCEPT !.dead = b]
    OBVIOUS
  <2> HIDE DEF b, node
  <2>4. b \in BOOLEAN
    BY <2>2 DEF b
  <2>5. /\ node[n] \in NodeType
        /\ node[n].key = t.node[n].key /\ node[n].val = t.node[n].val
        /\ node[n].next = t.node[n].next
        /\ node[n].dead = b
    BY <2>1, <2>3, <2>4 DEF NodeType
  <2> QED BY <2>5 DEF b
<1>2. node \in [Nodes(t) -> NodeType]
  <2>1. node = [n \in Nodes(t) |-> node[n]]
    OBVIOUS
  <2> HIDE DEF node
  <2> QED BY <1>1, <2>1
<1>3. IsWith(t, u, t.lastfree, node)
  <2>1. u = [t EXCEPT !.node = node]
    BY Zenon DEF KeysDead
  <2> HIDE DEF node
  <2>2. IsWith(t, [t EXCEPT !.node = node], t.lastfree, node)
    BY <1>0, <1>2, ReplacedNodes
  <2> QED BY <2>1, <2>2, Zenon
<1>4. /\ TableOK(u) /\ Nodes(u) = Nodes(t) /\ u.lastfree = t.lastfree
      /\ u.array = t.array /\ u.sizenode = t.sizenode /\ u.dummy = t.dummy
      /\ \A k : InArray(u, k) = InArray(t, k)
      /\ \A k : mainposition(u, k) = mainposition(t, k)
  <2> HIDE DEF node
  <2> QED BY <1>0, <1>3, IsWithKeeps
<1> HIDE DEF node, u
<1>5. u.node = node /\ TableOK(u)
  BY <1>0, <1>3, IsWithKeeps
<1>6. \A n \in Nodes(t) :
        /\ u.node[n].key = t.node[n].key /\ u.node[n].val = t.node[n].val
        /\ u.node[n].next = t.node[n].next
  BY <1>1, <1>5
<1>7. \A n \in Nodes(t) : u.node[n].dead = (t.node[n].dead \/ dies(n))
  BY <1>1, <1>5
<1> HIDE DEF dies
<1>8. \A n \in Nodes(t) : u.node[n] \in NodeType /\ t.node[n] \in NodeType
  BY <1>0, <1>4, NodeParts
<1>9. Links(u) = Links(t)
  BY <1>4, <1>6 DEF Links
<1>10. \A n : From(u, n) = From(t, n)
  BY <1>4, <1>6, <1>9, FromReach
<1>11. Linked(u)
  <2>1. LinksOK(Nodes(u), Links(u))
    BY <1>4, <1>9 DEF Shape, Linked
  <2>2. ASSUME NEW n \in Nodes(u), u.node[n].key = Nil PROVE u.node[n] = FreeNode
    <3>1. n \in Nodes(t) /\ t.node[n].key = Nil
      BY <1>4, <1>6, <2>2
    <3>2. t.node[n] = FreeNode
      BY <3>1 DEF Shape, Linked
    <3>3. ~ dies(n)
      BY <3>1, KeysAssumption DEF Keys, Collectable, dies
    <3>4. /\ u.node[n].key = Nil /\ u.node[n].val = Nil /\ u.node[n].next = NULL
          /\ ~ u.node[n].dead
      <4>1. /\ t.node[n].key = Nil /\ t.node[n].val = Nil /\ t.node[n].next = NULL
            /\ t.node[n].dead = FALSE
        BY <3>2 DEF FreeNode
      <4>2. u.node[n].dead = (t.node[n].dead \/ dies(n))
        BY <1>7, <3>1
      <4>3. ~ u.node[n].dead
        BY <3>3, <4>1, <4>2, Zenon
      <4> QED BY <1>6, <3>1, <4>1, <4>3
    <3>5. u.node[n].dead = FALSE
      BY <1>8, <3>1, <3>4 DEF NodeType
    <3>6. u.node[n] = [key |-> u.node[n].key, dead |-> u.node[n].dead,
                       val |-> u.node[n].val, next |-> u.node[n].next]
      BY <1>5, <2>2, NodeParts
    <3> QED BY <3>4, <3>5, <3>6 DEF FreeNode
  <2>3. ASSUME NEW n \in Nodes(u), u.node[n].next # NULL
        PROVE  u.node[u.node[n].next].key # Nil
    <3>1. u.node[n].next = t.node[n].next /\ t.node[n].next \in Nodes(t)
      BY <1>4, <1>6, <2>3 DEF Shape, Linked, LinksOK, Links
    <3> QED BY <1>4, <1>6, <2>3, <3>1 DEF Shape, Linked
  <2> QED BY <2>1, <2>2, <2>3 DEF Linked
<1>12. Hashed(u)
  <2> SUFFICES ASSUME NEW n \in Nodes(u), u.node[n].key # Nil
               PROVE  /\ ~ InArray(u, u.node[n].key)
                      /\ u.node[n].dead => u.node[n].val = Nil
                      /\ LET mp == mainposition(u, u.node[n].key)
                         IN  /\ u.node[mp].key # Nil /\ mainposition(u, u.node[mp].key) = mp
                             /\ n \in From(u, mp)
    BY DEF Hashed
  <2>1. n \in Nodes(t) /\ t.node[n].key = u.node[n].key /\ t.node[n].key \in Keys
    BY <1>0, <1>4, <1>6, NodeParts
  <2>2. mainposition(t, t.node[n].key) \in Nodes(t)
    BY <1>0, <2>1, MainPosition
  <2>3. u.node[n].dead => u.node[n].val = Nil
    BY <1>6, <1>7, <2>1 DEF Shape, Hashed, dies
  <2> QED BY <1>4, <1>6, <1>10, <2>1, <2>2, <2>3 DEF Shape, Hashed
<1>13. Distinct(u) /\ FreeList(u)
  <2>1. Distinct(u)
    BY <1>4, <1>6, <1>10, <1>7 DEF Shape, Distinct
  <2>2. FreeList(u)
    BY <1>4, <1>6 DEF Shape, FreeList
  <2> QED BY <2>1, <2>2
<1>14. Shape(u)
  BY <1>4, <1>11, <1>12, <1>13 DEF Shape
<1>15. SamePlaces(t, u)
  BY <1>4, <1>6 DEF SamePlaces
<1>16. ASSUME NEW k \in Keys PROVE luaH_get(u, k) = luaH_get(t, k)
  <2>1. \A n : Holds(u, n, k) => Holds(t, n, k) /\ t.node[n].val = u.node[n].val
    BY <1>4, <1>6, <1>7 DEF Holds
  <2>2. \A n : Holds(t, n, k) =>
          t.node[n].val = Nil \/ (Holds(u, n, k) /\ u.node[n].val = t.node[n].val)
    <3> SUFFICES ASSUME NEW n, Holds(t, n, k), t.node[n].val # Nil
                 PROVE  Holds(u, n, k) /\ u.node[n].val = t.node[n].val
      OBVIOUS
    <3>1. n \in Nodes(t) /\ ~ t.node[n].dead /\ t.node[n].key = k /\ ~ dies(n)
      BY DEF Holds, dies
    <3> QED BY <1>4, <1>6, <1>7, <3>1 DEF Holds
  <2> QED BY <1>4, <1>14, <2>1, <2>2, SameGet
<1> QED BY <1>14, <1>15, <1>16 DEF u

(* The collector comes by.                                                 *)
LEMMA RemoveEntriesKeeps ==
  ASSUME IInv, RemoveEntries
  PROVE  IInv'
<1>0. /\ TypeOK /\ Shape(table) /\ Visiting /\ ~ Moving /\ search = NoSearch
      /\ old = <<>> /\ pending = NoEntry /\ Waiting = {}
      /\ \A k \in Keys : luaH_get(table, k) = Content(dict, k)
      /\ old' = old /\ pending' = pending /\ search' = search /\ dict' = dict
      /\ visit' = visit
  BY AtRest DEF IInv, Ready, RemoveEntries, resizing
<1>1. /\ Shape(table') /\ SamePlaces(table, table')
      /\ \A k \in Keys : luaH_get(table', k) = luaH_get(table, k)
  <2>1. table' = KeysDead(table)
    BY Zenon DEF RemoveEntries, KeysDead
  <2> QED BY <1>0, <2>1, KeysDie, Zenon
<1>2. Waiting' = {} /\ ~ Moving'
  BY <1>0 DEF Moving, Waiting, EntryKeys
<1>3. Restoring'
  BY <1>0, <1>1, <1>2 DEF Restoring
<1>4. Room'
  BY <1>2 DEF Room
<1>5. Visiting'
  BY <1>0, <1>1, VisitKeeps DEF Visiting
<1>6. Searching'
  BY <1>0, NoSearchKeeps
<1>7. TypeOK'
  BY <1>0 DEF TypeOK
<1> QED BY <1>1, <1>3, <1>4, <1>5, <1>6, <1>7 DEF IInv

-----------------------------------------------------------------------------
(* A traversal.                                                            *)

(* A step that changes the traversal alone.                                *)
LEMMA VisitAlone ==
  ASSUME IInv, Ready, UNCHANGED <<table, resizing, search, dict>>,
         visit' \in VisitType,
         IsFiniteSet(visit'.seen), Visiting'
  PROVE  IInv'
<1>0. /\ TypeOK /\ Shape(table) /\ Restoring /\ Searching /\ ~ Moving
      /\ old' = old /\ pending' = pending /\ search' = search /\ dict' = dict
      /\ table' = table
  BY DEF IInv, Ready, resizing
<1>1. TypeOK'
  BY <1>0 DEF TypeOK
<1>2. ~ Moving' /\ Waiting' = Waiting
  BY <1>0 DEF Moving, Waiting
<1>3. Restoring'
  BY <1>0, <1>2 DEF Restoring
<1>4. Room'
  BY <1>2 DEF Room
<1>5. Searching'
  BY <1>0, <1>2 DEF Searching, InOrder, Present
<1> QED BY <1>0, <1>1, <1>3, <1>4, <1>5 DEF IInv

(* A key that is there is found at a position with a value.                *)
LEMMA PlaceOfKey ==
  ASSUME IInv, Ready, NEW key \in DOMAIN dict
  PROVE  /\ key \in Keys /\ findindex(table, key) \in Slots(table)
         /\ findindex(table, key) \in Nat \ {0}
         /\ ValueAt(table, findindex(table, key)) # Nil
         /\ KeyAt(table, findindex(table, key)) = key
<1>1. key \in Keys /\ Shape(table) /\ luaH_get(table, key) # Nil
  BY AtRest DEF IInv, Ready, TypeOK, Content
<1>2. /\ findindex(table, key) \in Slots(table)
      /\ ValueAt(table, findindex(table, key)) # Nil
      /\ KeyAt(table, findindex(table, key)) = key
  BY <1>1, FindKey
<1>3. \A i \in Slots(table) : i \in Nat \ {0}
  BY <1>1 DEF Slots, Shape, TableOK, TableType
<1> QED BY <1>1, <1>2, <1>3

(* A traversal begins before the first position.                           *)
LEMMA BeginKeeps ==
  ASSUME IInv, Begin
  PROVE  IInv'
<1>0. TypeOK /\ Ready /\ visit' = [NoVisit EXCEPT !.stayed = DOMAIN dict, !.on = TRUE]
      /\ dict' = dict /\ table' = table
  BY DEF IInv, Begin
<1>1. /\ visit'.last = Nil /\ visit'.seen = {} /\ visit'.count = 0
      /\ visit'.stayed = DOMAIN dict /\ visit'.on = TRUE
      /\ visit' \in VisitType
  BY <1>0 DEF NoVisit, TypeOK, VisitType
<1>2. IsFiniteSet({}) /\ Cardinality({}) = 0
  BY FS_EmptySet
<1>3. findindex(table, Nil) = 0
  BY Zenon DEF findindex
<1>4. \A k \in DOMAIN dict : ~ (findindex(table, k) <= 0)
  BY <1>0, PlaceOfKey
<1>5. Visiting'
  BY <1>0, <1>1, <1>2, <1>3, <1>4 DEF Visiting
<1> QED BY <1>0, <1>1, <1>2, <1>5, VisitAlone DEF Begin

(* next returns the next key that has a value.                             *)
LEMMA AdvanceKeeps ==
  ASSUME IInv, Advance
  PROVE  IInv'
<1> DEFINE at == findindex(table, visit.last)
           later == {i \in Slots(table) : i > at /\ ValueAt(table, i) # Nil}
           next == Min(later)
           key == KeyAt(table, next)
<1>0. /\ TypeOK /\ Shape(table) /\ Visiting /\ Ready /\ visit.on /\ dict' = dict
      /\ table' = table
  BY DEF IInv, Advance
<1>1. at \in Nat
  BY <1>0 DEF Visiting
<1>2. later # {} /\ luaH_next(table, visit.last) = next
  BY Zenon DEF Advance, luaH_next
<1>3. visit' = [visit EXCEPT !.last = key, !.seen = @ \union {key}, !.count = @ + 1]
  BY <1>2 DEF Advance
<1>4. later \subseteq Nat
  BY <1>0 DEF Slots, Shape, TableOK, TableType
<1>5. next \in later /\ \A i \in later : next <= i
  <2> HIDE DEF later
  <2> QED BY <1>2, <1>4, MinIs
<1>6. next \in Slots(table) /\ next > at /\ ValueAt(table, next) # Nil /\ next \in Nat
  BY <1>4, <1>5
<1> HIDE DEF next
<1>7. key \in Keys /\ findindex(table, key) = next
  BY <1>0, <1>6, FindSlot
<1>8. \A k \in DOMAIN dict :
        \/ findindex(table, k) <= at
        \/ findindex(table, k) \in later /\ KeyAt(table, findindex(table, k)) = k
  <2> SUFFICES ASSUME NEW k \in DOMAIN dict, ~ (findindex(table, k) <= at)
               PROVE  /\ findindex(table, k) \in later
                      /\ KeyAt(table, findindex(table, k)) = k
    OBVIOUS
  <2>1. /\ findindex(table, k) \in Slots(table) /\ findindex(table, k) \in Nat
        /\ ValueAt(table, findindex(table, k)) # Nil
        /\ KeyAt(table, findindex(table, k)) = k
    BY <1>0, PlaceOfKey
  <2> HIDE DEF at
  <2>2. findindex(table, k) > at
    BY <1>1, <2>1
  <2> QED BY <2>1, <2>2
<1> HIDE DEF later, key
<1>9. /\ visit'.last = key /\ visit'.seen = visit.seen \union {key}
      /\ visit'.count = visit.count + 1 /\ visit'.stayed = visit.stayed
      /\ visit'.on = visit.on /\ visit' \in VisitType
  <2> DEFINE seen == visit.seen \union {key}
             count == visit.count + 1
  <2>1. visit' = [visit EXCEPT !.last = key, !.seen = seen, !.count = count]
    BY <1>3
  <2>2. /\ visit \in VisitType /\ seen \in SUBSET Keys /\ count \in Nat
        /\ key \in Keys \union {Nil}
    BY <1>0, <1>7 DEF TypeOK, VisitType
  <2> HIDE DEF seen, count
  <2>3. /\ visit'.last = key /\ visit'.seen = seen
        /\ visit'.count = count /\ visit'.stayed = visit.stayed
        /\ visit'.on = visit.on /\ visit' \in VisitType
    BY <2>1, <2>2 DEF VisitType
  <2> QED BY <2>3 DEF seen, count
<1>10. key \notin visit.seen
  <2>1. \A k \in visit.seen : findindex(table, k) \in 0 .. at
    BY <1>0 DEF Visiting
  <2> HIDE DEF at
  <2> QED BY <1>1, <1>6, <1>7, <2>1
<1>11. /\ IsFiniteSet(visit'.seen) /\ visit'.count = Cardinality(visit'.seen)
  <2>1. IsFiniteSet(visit.seen) /\ visit.count = Cardinality(visit.seen)
    BY <1>0 DEF TypeOK, Visiting
  <2>2. /\ IsFiniteSet(visit.seen \union {key})
        /\ Cardinality(visit.seen \union {key}) = Cardinality(visit.seen) + 1
    BY <1>10, <2>1, FS_AddElement
  <2> QED BY <1>9, <2>1, <2>2
<1>12. \A k \in visit'.seen : findindex(table, k) \in 0 .. next
  <2>1. \A k \in visit.seen : findindex(table, k) \in 0 .. at
    BY <1>0 DEF Visiting
  <2> HIDE DEF at
  <2>2. 0 .. at \subseteq 0 .. next /\ next \in 0 .. next
    BY <1>1, <1>6
  <2> QED BY <1>7, <1>9, <2>1, <2>2
<1>13. ASSUME NEW k \in visit.stayed, findindex(table, k) <= next
       PROVE  k \in visit'.seen
  <2>1. k \in DOMAIN dict /\ (findindex(table, k) <= at => k \in visit.seen)
    BY <1>0 DEF Visiting
  <2>2. CASE findindex(table, k) <= at
    BY <1>9, <2>1, <2>2
  <2>3. CASE findindex(table, k) \in later /\ KeyAt(table, findindex(table, k)) = k
    <3>1. findindex(table, k) \in Nat /\ next <= findindex(table, k)
      BY <1>4, <1>5, <2>3
    <3>2. findindex(table, k) = next
      BY <1>6, <1>13, <3>1
    <3>3. k = key
      BY <2>3, <3>2 DEF key
    <3> QED BY <1>9, <3>3
  <2> QED BY <1>8, <2>1, <2>2, <2>3
<1>14. visit.stayed \subseteq DOMAIN dict
  BY <1>0 DEF Visiting
<1>15. findindex(table, visit'.last) = next
  BY <1>7, <1>9
<1> HIDE DEF at
<1>16. Visiting'
  <2>1. \A k \in visit'.stayed : findindex(table', k) <= findindex(table', visit'.last)
                                   => k \in visit'.seen
    BY <1>0, <1>9, <1>13, <1>15
  <2>2. \A k \in visit'.seen : findindex(table', k) \in 0 .. findindex(table', visit'.last)
    BY <1>0, <1>12, <1>15
  <2>3. findindex(table', visit'.last) \in Nat
    BY <1>0, <1>6, <1>15
  <2>4. visit'.stayed \subseteq DOMAIN dict' /\ visit'.on = TRUE
    BY <1>0, <1>9, <1>14
  <2> QED BY <1>11, <2>1, <2>2, <2>3, <2>4 DEF Visiting
<1> QED BY <1>0, <1>9, <1>11, <1>16, VisitAlone DEF Advance

(* A traversal ends when no value is left.                                 *)
LEMMA EndKeeps ==
  ASSUME IInv, End
  PROVE  IInv'
<1> DEFINE at == findindex(table, visit.last)
           later == {i \in Slots(table) : i > at /\ ValueAt(table, i) # Nil}
<1>0. /\ TypeOK /\ Shape(table) /\ Visiting /\ Ready /\ visit.on /\ dict' = dict
      /\ table' = table /\ visit' = [visit EXCEPT !.on = FALSE]
  BY DEF IInv, End
<1>1. at \in Nat
  BY <1>0 DEF Visiting
<1>2. later = {}
  <2> SUFFICES ASSUME later # {} PROVE FALSE
    OBVIOUS
  <2>1. Min(later) = 0
    BY Zenon DEF End, luaH_next
  <2>2. later \subseteq Nat \ {0}
    BY <1>0 DEF Slots, Shape, TableOK, TableType
  <2>3. Min(later) \in later
    <3> HIDE DEF later
    <3> QED BY <2>2, MinIs
  <2> HIDE DEF later
  <2> QED BY <2>1, <2>2, <2>3
<1>3. \A k \in visit.stayed : k \in visit.seen
  <2> SUFFICES ASSUME NEW k \in visit.stayed PROVE k \in visit.seen
    OBVIOUS
  <2>1. k \in DOMAIN dict /\ (findindex(table, k) <= at => k \in visit.seen)
    BY <1>0 DEF Visiting
  <2>2. /\ findindex(table, k) \in Slots(table) /\ findindex(table, k) \in Nat
        /\ ValueAt(table, findindex(table, k)) # Nil
    BY <1>0, <2>1, PlaceOfKey
  <2>3. ~ (findindex(table, k) > at)
    BY <1>2, <2>2
  <2> HIDE DEF at
  <2> QED BY <1>1, <2>1, <2>2, <2>3
<1>4. /\ visit'.seen = visit.seen /\ visit'.count = visit.count
      /\ visit'.stayed = visit.stayed /\ visit'.on = FALSE
      /\ visit' \in VisitType
      /\ IsFiniteSet(visit.seen)
  BY <1>0 DEF TypeOK, VisitType
<1>5. Visiting'
  BY <1>0, <1>3, <1>4 DEF Visiting
<1> QED BY <1>0, <1>4, <1>5, VisitAlone DEF End

-----------------------------------------------------------------------------
(* The length.                                                             *)

(* An index is absent if luaH_getnum gives nil.                            *)
LEMMA AbsentIsNil ==
  ASSUME IInv, ~ Moving, NEW i \in Nat
  PROVE  IsNil(i) <=> i \notin DOMAIN dict
<1>0. /\ Shape(table) /\ DOMAIN dict \subseteq Keys
      /\ \A k \in DOMAIN dict : dict[k] # Nil
      /\ \A k \in Keys : luaH_get(table, k) = Content(dict, k)
  BY AtRest DEF IInv, TypeOK
<1>1. CASE i \in Keys
  BY <1>0, <1>1 DEF Content, IsNil
<1>2. CASE i \notin Keys
  <2>1. i \notin Ints /\ i # Nil
    BY <1>2, KeysAssumption DEF Keys
  <2>2. CASE InArray(table, i)
    <3>1. table.array[i] = Nil
      BY <2>1, <2>2 DEF Shape, TableOK, InArray, IInv
    <3>2. luaH_get(table, i) = table.array[i]
      BY <2>2, Zenon DEF luaH_get
    <3> QED BY <1>0, <1>2, <3>1, <3>2 DEF IsNil
  <2>3. CASE ~ InArray(table, i)
    <3>1. \A n \in Nodes(table) : table.node[n].key # i
      BY <1>0, <1>2, <2>1, NodeParts DEF Shape
    <3>2. LiveNodes(table, i) = {}
      BY <3>1 DEF LiveNodes
    <3>3. luaH_get(table, i) = Nil
      BY <2>3, <3>2, Zenon DEF luaH_get
    <3> QED BY <1>0, <1>2, <3>3 DEF IsNil
  <2> QED BY <2>2, <2>3
<1> QED BY <1>1, <1>2

(* luaH_getn begins in order.                                              *)
LEMMA LengthBegins ==
  ASSUME IInv, ~ Moving
  PROVE  Length \in SearchType /\ InOrder(Length)
<1> DEFINE l == Len(table.array)
<1>1. l \in Nat /\ Shape(table)
  BY DEF IInv, Shape, TableOK, TableType
<1>2. \A n \in Nat : IsNil(n) <=> n \notin DOMAIN dict
  BY AbsentIsNil
<1>3. l > 0 => (IsNil(l) <=> table.array[l] = Nil)
  <2> SUFFICES ASSUME l > 0 PROVE IsNil(l) <=> table.array[l] = Nil
    OBVIOUS
  <2>1. InArray(table, l)
    BY <1>1 DEF InArray
  <2> QED BY <2>1, Zenon DEF IsNil, luaH_get
<1>4. table.dummy => IsNil(l + 1)
  <2> SUFFICES ASSUME table.dummy PROVE IsNil(l + 1)
    OBVIOUS
  <2>1. ~ InArray(table, l + 1)
    BY <1>1 DEF InArray
  <2>2. \A n \in Nodes(table) : table.node[n].key = Nil
    BY <1>1 DEF Shape, FreeList
  <2>3. l + 1 # Nil
    BY <1>1, KeysAssumption
  <2>4. LiveNodes(table, l + 1) = {}
    BY <2>2, <2>3 DEF LiveNodes
  <2> QED BY <2>1, <2>4, Zenon DEF IsNil, luaH_get
<1> HIDE DEF l
<1>5. ~ (l > 0 /\ table.array[l] = Nil) => Present(l)
  BY <1>1, <1>2, <1>3 DEF Present
<1>6. CASE l > 0 /\ table.array[l] = Nil
  <2>1. Length = At("binary", 0, l)
    BY <1>6 DEF Length, l
  <2>2. l \notin DOMAIN dict
    BY <1>1, <1>2, <1>3, <1>6
  <2> QED BY <1>1, <1>6, <2>1, <2>2 DEF At, Present, InOrder, SearchType
<1>7. CASE ~ (l > 0 /\ table.array[l] = Nil) /\ table.dummy
  <2>1. Length = At("found", l, l)
    BY <1>7 DEF Length, l
  <2>2. l + 1 \notin DOMAIN dict
    BY <1>1, <1>2, <1>4, <1>7
  <2> QED BY <1>1, <1>5, <1>7, <2>1, <2>2 DEF At, InOrder, SearchType
<1>8. CASE ~ (l > 0 /\ table.array[l] = Nil) /\ ~ table.dummy
  <2>1. Length = At("double", l, l + 1)
    BY <1>8 DEF Length, l
  <2> QED BY <1>1, <1>5, <1>8, <2>1 DEF At, InOrder, SearchType
<1> QED BY <1>6, <1>7, <1>8

(* Each turn of luaH_getn keeps a present index below an absent one.       *)
LEMMA TurnsKeep ==
  ASSUME IInv, ~ Moving, NEW i \in Nat, NEW j \in Nat
  PROVE  /\ Present(i) /\ i < j => Double(i, j) \in SearchType /\ InOrder(Double(i, j))
         /\ i >= 1 /\ Present(i - 1) => Linear(i, j) \in SearchType /\ InOrder(Linear(i, j))
         /\ Present(i) /\ i < j /\ j \notin DOMAIN dict =>
              Binary(i, j) \in SearchType /\ InOrder(Binary(i, j))
<1>1. \A n \in Nat : IsNil(n) <=> n \notin DOMAIN dict
  BY AbsentIsNil
<1>2. ASSUME Present(i), i < j PROVE Double(i, j) \in SearchType /\ InOrder(Double(i, j))
  <2>1. CASE IsNil(j)
    <3>1. Double(i, j) = At("binary", i, j)
      BY <2>1 DEF Double
    <3> QED BY <1>1, <1>2, <2>1, <3>1 DEF At, InOrder, SearchType
  <2>2. CASE ~ IsNil(j) /\ 2 * j > MAX_INT
    <3>1. Double(i, j) = At("linear", 1, 2 * j)
      BY <2>2 DEF Double
    <3>2. Present(1 - 1) /\ 2 * j \in Nat
      BY DEF Present
    <3> QED BY <3>1, <3>2 DEF At, InOrder, SearchType
  <2>3. CASE ~ IsNil(j) /\ ~ (2 * j > MAX_INT)
    <3>1. Double(i, j) = At("double", j, 2 * j)
      BY <2>3 DEF Double
    <3>2. Present(j) /\ j < 2 * j /\ 2 * j \in Nat
      BY <1>1, <1>2, <2>3 DEF Present
    <3> QED BY <3>1, <3>2 DEF At, InOrder, SearchType
  <2> QED BY <2>1, <2>2, <2>3
<1>3. ASSUME i >= 1, Present(i - 1) PROVE Linear(i, j) \in SearchType /\ InOrder(Linear(i, j))
  <2>1. CASE IsNil(i)
    <3>1. Linear(i, j) = At("found", i - 1, j)
      BY <2>1 DEF Linear
    <3>2. i - 1 \in Nat /\ (i - 1) + 1 = i /\ i \notin DOMAIN dict
      BY <1>1, <1>3, <2>1
    <3> QED BY <1>3, <3>1, <3>2 DEF At, InOrder, SearchType
  <2>2. CASE ~ IsNil(i)
    <3>1. Linear(i, j) = At("linear", i + 1, j)
      BY <2>2 DEF Linear
    <3>2. i + 1 >= 1 /\ (i + 1) - 1 = i /\ Present(i) /\ i + 1 \in Nat
      BY <1>1, <2>2 DEF Present
    <3> QED BY <3>1, <3>2 DEF At, InOrder, SearchType
  <2> QED BY <2>1, <2>2
<1>4. ASSUME Present(i), i < j, j \notin DOMAIN dict
      PROVE  Binary(i, j) \in SearchType /\ InOrder(Binary(i, j))
  <2> DEFINE m == (i + j) \div 2
  <2>1. CASE j - i <= 1
    <3>1. Binary(i, j) = At("found", i, j)
      BY <2>1 DEF Binary
    <3>2. i + 1 = j
      BY <1>4, <2>1
    <3> QED BY <1>4, <3>1, <3>2 DEF At, InOrder, SearchType
  <2>2. m \in Nat /\ (~ (j - i <= 1) => i < m /\ m < j)
    BY <1>4
  <2>3. CASE ~ (j - i <= 1) /\ IsNil(m)
    <3>1. Binary(i, j) = At("binary", i, m)
      BY <2>3 DEF Binary
    <3> HIDE DEF m
    <3> QED BY <1>1, <1>4, <2>2, <2>3, <3>1 DEF At, InOrder, SearchType
  <2>4. CASE ~ (j - i <= 1) /\ ~ IsNil(m)
    <3>1. Binary(i, j) = At("binary", m, j)
      BY <2>4 DEF Binary
    <3> HIDE DEF m
    <3>2. Present(m)
      BY <1>1, <2>2, <2>4 DEF Present
    <3> QED BY <1>4, <2>2, <2>4, <3>1, <3>2 DEF At, InOrder, SearchType
  <2> QED BY <2>1, <2>3, <2>4
<1> QED BY <1>2, <1>3, <1>4

(* A step of luaH_getn.                                                    *)
LEMMA LengthKeeps ==
  ASSUME IInv, luaH_getn
  PROVE  IInv'
<1>0. /\ TypeOK /\ Shape(table) /\ Restoring /\ Visiting /\ InOrder(search) /\ ~ Moving
      /\ old' = old /\ pending' = pending /\ dict' = dict /\ visit' = visit
      /\ table' = table
      /\ search.pc \in {"none", "double", "linear", "binary", "found"}
      /\ search.i \in Nat /\ search.j \in Nat
  BY DEF IInv, Searching, luaH_getn, resizing, TypeOK, SearchType
<1>1. search' \in SearchType /\ InOrder(search')
  <2>1. CASE search.pc = "none"
    <3>1. search' = Length
      BY <2>1 DEF luaH_getn
    <3> QED BY <1>0, <3>1, LengthBegins, Zenon
  <2>2. CASE search.pc = "double"
    <3>1. search' = Double(search.i, search.j) /\ Present(search.i) /\ search.i < search.j
      BY <1>0, <2>2 DEF luaH_getn, InOrder
    <3> QED BY <1>0, <3>1, TurnsKeep
  <2>3. CASE search.pc = "linear"
    <3>1. search' = Linear(search.i, search.j) /\ search.i >= 1 /\ Present(search.i - 1)
      BY <1>0, <2>3 DEF luaH_getn, InOrder
    <3> QED BY <1>0, <3>1, TurnsKeep
  <2>4. CASE search.pc = "binary"
    <3>1. /\ search' = Binary(search.i, search.j)
          /\ Present(search.i) /\ search.i < search.j /\ search.j \notin DOMAIN dict
      BY <1>0, <2>4 DEF luaH_getn, InOrder
    <3> QED BY <1>0, <3>1, TurnsKeep
  <2>5. CASE search.pc = "found"
    <3>1. search' = NoSearch
      BY <2>5 DEF luaH_getn
    <3> QED BY <3>1 DEF NoSearch, At, InOrder, SearchType
  <2> QED BY <1>0, <2>1, <2>2, <2>3, <2>4, <2>5
<1>2. ~ Moving' /\ Waiting' = Waiting
  BY <1>0 DEF Moving, Waiting
<1>3. Searching'
  BY <1>0, <1>1, <1>2 DEF Searching, InOrder, Present
<1>4. TypeOK'
  BY <1>0, <1>1 DEF TypeOK
<1>5. Restoring'
  BY <1>0, <1>2 DEF Restoring
<1>6. Room'
  BY <1>2 DEF Room
<1>7. Visiting'
  BY <1>0 DEF Visiting
<1> QED BY <1>0, <1>3, <1>4, <1>5, <1>6, <1>7 DEF IInv

-----------------------------------------------------------------------------
(* A table begins empty.                                                   *)
LEMMA InitInvariant ==
  ASSUME Init
  PROVE  IInv
<1>0. /\ old = <<>> /\ pending = NoEntry /\ search = NoSearch /\ DOMAIN dict = {}
      /\ visit = NoVisit
  BY DEF Init
<1>1. PICK narray \in ArraySizes, nhash \in HashSizes :
        table = Empty([i \in 1 .. narray |-> Nil], nhash)
  BY DEF Init
<1> DEFINE array == [i \in 1 .. narray |-> Nil]
<1>2. narray \in Nat /\ nhash \in Nat /\ Fits(nhash)
  BY SizesAssumption
<1>3. array \in Seq(Vals) /\ Len(array) = narray /\ \A i \in 1 .. narray : array[i] = Nil
  BY <1>2 DEF Vals
<1> HIDE DEF array
<1>4. /\ Shape(table) /\ table.array = array
      /\ \A key \in Keys :
           luaH_get(table, key) = IF InArray(table, key) THEN array[key] ELSE Nil
  <2>1. \A i \in 1 .. Len(array) : array[i] # Nil => i \in Ints
    BY <1>3
  <2>2. table = Empty(array, nhash)
    BY <1>1 DEF array
  <2> QED BY <1>2, <1>3, <2>1, <2>2, EmptyIs, Zenon
<1>5. \A key \in Keys : luaH_get(table, key) = Content(dict, key)
  BY <1>0, <1>3, <1>4 DEF InArray, Content
<1>6. Waiting = {} /\ ~ Moving
  BY <1>0 DEF Waiting, Moving, EntryKeys
<1>7. IsFiniteSet({}) /\ Cardinality({}) = 0
  BY FS_EmptySet
<1>8. Restoring
  BY <1>0, <1>5, <1>6 DEF Restoring
<1>9. Room
  BY <1>6 DEF Room
<1>10. Searching /\ search \in SearchType
  BY <1>0 DEF Searching, InOrder, NoSearch, At, SearchType
<1>11. Visiting /\ visit \in VisitType /\ IsFiniteSet(visit.seen)
  <2>1. visit.seen = {} /\ visit.count = 0 /\ visit.stayed = {} /\ visit.on = FALSE
    BY <1>0 DEF NoVisit
  <2>2. visit \in VisitType
    BY <1>0 DEF NoVisit, VisitType
  <2> QED BY <1>7, <2>1, <2>2 DEF Visiting
<1>12. TypeOK
  <2>1. NoEntry \in EntryType
    BY DEF NoEntry, Entry, EntryType, Vals
  <2> QED BY <1>0, <1>10, <1>11, <2>1 DEF TypeOK
<1> QED BY <1>4, <1>8, <1>9, <1>10, <1>11, <1>12 DEF IInv

(* The invariant is inductive.                                             *)
LEMMA NextKeeps ==
  ASSUME IInv, [Next]_vars
  PROVE  IInv'
<1>1. ASSUME NEW key \in Keys, NEW val \in Vals, Assign(key, val) PROVE IInv'
  <2>1. CASE ~ Full(table, key)
    <3>1. /\ Ready /\ table' = luaH_set(table, key, val) /\ UNCHANGED resizing
          /\ dict' = Updated(key, val) /\ UNCHANGED search
          /\ visit' = IF key \in DOMAIN dict
                      THEN [visit EXCEPT !.stayed = @ \ (IF val = Nil THEN {key} ELSE {})]
                      ELSE NoVisit
      BY <1>1, <2>1, Zenon DEF Assign
    <3> QED BY <2>1, <3>1, AssignSets, Zenon
  <2>2. CASE Full(table, key)
    <3>1. /\ Ready /\ rehash(key) /\ pending' = Entry(key, val)
          /\ dict' = Updated(key, val) /\ UNCHANGED search
          /\ key \notin DOMAIN dict => visit' = NoVisit
      BY <1>1, <2>2, Zenon DEF Assign
    <3> QED BY <2>2, <3>1, AssignRehashes, Zenon
  <2> QED BY <2>1, <2>2
<1>2. ASSUME NEW key \in Keys, Assign(key, Value[key]) \/ Assign(key, Nil) PROVE IInv'
  <2>1. Value[key] \in Vals /\ Nil \in Vals
    BY DEF Vals
  <2> QED BY <1>1, <1>2, <2>1
<1>3. CASE \E nasize \in ArraySizes : ResizeArray(nasize)
  BY <1>3, ResizeArrayKeeps
<1>4. CASE PutBack
  BY <1>4, PutBackKeeps
<1>5. CASE PutPending
  BY <1>5, PutPendingKeeps
<1>6. CASE RemoveEntries
  BY <1>6, RemoveEntriesKeeps
<1>7. CASE Begin
  BY <1>7, BeginKeeps
<1>8. CASE Advance
  BY <1>8, AdvanceKeeps
<1>9. CASE End
  BY <1>9, EndKeeps
<1>10. CASE luaH_getn
  BY <1>10, LengthKeeps
<1>11. CASE UNCHANGED vars
  <2>1. /\ table' = table /\ old' = old /\ pending' = pending /\ search' = search
        /\ dict' = dict /\ visit' = visit
    BY <1>11 DEF vars, resizing
  <2>2. Waiting' = Waiting /\ Moving' = Moving
    BY <2>1 DEF Waiting, Moving
  <2>3. TypeOK'
    BY <2>1 DEF IInv, TypeOK
  <2>4. Shape(table') /\ Restoring' /\ Room' /\ Visiting'
    BY <2>1, <2>2 DEF IInv, Restoring, Room, Visiting
  <2>5. Searching'
    BY <2>1, <2>2 DEF IInv, Searching, InOrder, Present
  <2> QED BY <2>3, <2>4, <2>5 DEF IInv
<1> QED BY <1>2, <1>3, <1>4, <1>5, <1>6, <1>7, <1>8, <1>9, <1>10, <1>11, Zenon DEF Next

(* A table stays in good shape through whatever scripts and the collector  *)
(* do to it, and whatever resize, next and luaH_getn do in steps.          *)
THEOREM TablesInvariant == Spec => []IInv
<1>1. Init => IInv
  BY InitInvariant
<1>2. IInv /\ [Next]_vars => IInv'
  BY NextKeeps
<1> QED BY <1>1, <1>2, PTL DEF Spec

(* Whatever has been assigned, moved and rehashed, every key gives what    *)
(* was last assigned to it, and a resize has room for all it puts back.    *)
THEOREM KeysGiveWhatWasAssigned == Spec => []HoldsDict
<1>1. IInv => HoldsDict
  <2> SUFFICES ASSUME IInv PROVE HoldsDict
    OBVIOUS
  <2>0. Shape(table)
    BY DEF IInv
  <2>1. ASSUME ~ Moving
        PROVE  /\ \A key \in Keys :
                    luaH_get(table, key) = IF key \in DOMAIN dict THEN dict[key] ELSE Nil
               /\ \A n \in UsedNodes(table) :
                    LET key == table.node[n].key
                    IN  key \in DOMAIN dict /\ ~ InArray(table, key)
                          /\ LiveNodes(table, key) = {n}
    <3>1. \A key \in Keys : luaH_get(table, key) = Content(dict, key)
      BY <2>1, AtRest
    <3>2. ASSUME NEW n \in UsedNodes(table)
          PROVE  LET key == table.node[n].key
                 IN  key \in DOMAIN dict /\ ~ InArray(table, key)
                       /\ LiveNodes(table, key) = {n}
      <4> DEFINE key == table.node[n].key
      <4>1. /\ n \in Nodes(table) /\ table.node[n].val # Nil /\ key \in Keys
            /\ Holds(table, n, key) /\ ~ InArray(table, key)
        BY <2>0, UsedIsLive DEF UsedNodes
      <4>2. luaH_get(table, key) = table.node[n].val
        BY <2>0, <4>1, GetIs
      <4>3. key \in DOMAIN dict
        BY <3>1, <4>1, <4>2 DEF Content
      <4>4. n \in LiveNodes(table, key)
        BY <2>0, <4>1, LiveIs
      <4>5. LiveNodes(table, key) = {n}
        BY <2>0, <4>1, <4>4, LiveIs
      <4> QED BY <4>1, <4>3, <4>5
    <3> QED BY <3>1, <3>2 DEF Content
  <2>2. ASSUME old # <<>>, Head(old).val # Nil PROVE ~ Full(table, Head(old).key)
    <3>1. /\ old \in Seq(EntryType) /\ Head(old) = old[1] /\ 1 \in 1 .. Len(old)
      BY <2>2 DEF IInv, TypeOK
    <3>2. /\ old[1].key \in Keys /\ Content(dict, old[1].key) = old[1].val
          /\ old[1].val \in Vals /\ old[1].key \in Waiting
      <4>1. old[1].val \in Vals
        <5>1. old[1] \in EntryType
          BY <3>1
        <5> QED BY <5>1 DEF EntryType
      <4>2. old[1].key \in Keys /\ Content(dict, old[1].key) = old[1].val
        BY <2>2, <3>1 DEF IInv, Restoring
      <4>3. old[1].key \in EntryKeys(old)
        BY <2>2, <3>1 DEF EntryKeys
      <4> QED BY <4>1, <4>2, <4>3 DEF Waiting
    <3> QED BY <2>2, <3>1, <3>2, PutOne DEF Moving
  <2>3. ASSUME old = <<>>, pending # NoEntry PROVE ~ Full(table, pending.key)
    <3>1. /\ pending.key \in Keys /\ Content(dict, pending.key) = pending.val
          /\ pending.val \in Vals /\ pending.key \in Waiting
      BY <2>3 DEF IInv, TypeOK, Restoring, EntryType, Waiting
    <3> QED BY <2>3, <3>1, PutOne DEF Moving
  <2> QED BY <2>1, <2>2, <2>3 DEF HoldsDict
<1> QED BY <1>1, TablesInvariant, PTL

(* An element that is not in its main position collides with one that is.  *)
THEOREM CollidersAreAtHome == Spec => []BrentsVariation
<1>1. IInv => BrentsVariation
  <2> SUFFICES ASSUME IInv, NEW n \in UsedNodes(table)
               PROVE  LET mp == mainposition(table, table.node[n].key)
                      IN  mainposition(table, table.node[mp].key) = mp
    BY DEF BrentsVariation
  <2>1. n \in Nodes(table) /\ table.node[n].key # Nil
    BY UsedIsLive DEF IInv, UsedNodes
  <2> QED BY <2>1 DEF IInv, Shape, Hashed
<1> QED BY <1>1, TablesInvariant, PTL

(* luaH_getn returns a border.                                             *)
THEOREM LengthsAreBorders == Spec => []LengthIsBorder
<1>1. IInv => LengthIsBorder
  BY DEF IInv, Searching, InOrder, Present, LengthIsBorder
<1> QED BY <1>1, TablesInvariant, PTL

(* A traversal never loses its place, returns no key twice, and has        *)
(* returned every key that stayed when it ends.                            *)
THEOREM TraversalsAreExact == Spec => []TraversalExact
<1>1. IInv => TraversalExact
  BY DEF IInv, Visiting, TraversalExact, NULL
<1> QED BY <1>1, TablesInvariant, PTL
=============================================================================
