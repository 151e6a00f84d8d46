------------------------------ MODULE LuaTable ------------------------------
(***************************************************************************)
(* The tables of the Lua library the program is linked with (ltable.c):    *)
(* an array part, and a hash part that is a chained scatter table with     *)
(* Brent's variation.  A script assigns fields, traverses the table with   *)
(* next and takes its length; the collector comes by at any time and turns *)
(* the keys of empty nodes into dead ones (removeentry of lgc.c).  A       *)
(* resize puts the elements back one by one, and a length is searched for  *)
(* probe by probe; nothing else happens meanwhile.                         *)
(***************************************************************************)
EXTENDS Integers, Sequences, FiniteSetsExt

CONSTANTS
  Ints,       \* the numbers used as keys: integers from 0 on
  Strings,    \* keys hashed by the low bits of their hash
  Objects,    \* keys hashed by the remainder of their address
  Hash,       \* the hash of a key before it is cut down to a node
  Value,      \* what each key is given when it is assigned
  Nil,
  ArraySizes, \* the array parts a constructor asks for,
  HashSizes,  \*   and the hash parts
  MAXASIZE,   \* the largest array part; also 2^MAXBITS, the largest hash part
  MAX_INT     \* the largest int

NULL == -1
Keys == Ints \union Strings \union Objects
Collectable == Strings \union Objects

PowersOfTwo == {p \in 1 .. MAXASIZE : \A d \in 2 .. p : p % d = 0 => d % 2 = 0}

(* A hash part for so many is no "table overflow".                         *)
Fits(nhash) == \E p \in PowersOfTwo : p >= nhash

ASSUME KeysAssumption ==
  /\ Ints \subseteq Nat
  /\ \A k \in Collectable : k \notin Int
  /\ Nil \notin Keys \union Int
ASSUME HashAssumption == \A k \in Keys : Hash[k] \in Nat
ASSUME ValueAssumption == \A k \in Keys : Value[k] # Nil
ASSUME SizesAssumption ==
  /\ MAXASIZE \in Nat \ {0} /\ MAX_INT \in Nat
  /\ ArraySizes \subseteq 0 .. MAXASIZE
  /\ \A n \in HashSizes : n \in Nat /\ Fits(n)

VARIABLES
  table,     \* the Table: array, node, its size, whether it is the dummynode,
             \*   lastfree
  old,       \* a resize: the elements it has not yet put back,
  pending,   \*   and the field whose assignment made it necessary
  search,    \* luaH_getn: where it is, i and j
  dict,      \* history: what the script has assigned
  visit      \* a traversal: its last key, the keys it has returned and their
             \*   number, the keys there since it began, whether it goes on

resizing == <<old, pending>>
vars == <<table, resizing, search, dict, visit>>
-----------------------------------------------------------------------------
(* The hash part.                                                          *)
FreeNode == [key |-> Nil, dead |-> FALSE, val |-> Nil, next |-> NULL]

Nodes(t) == 0 .. t.sizenode - 1

(* setnodevector.                                                          *)
Empty(array, nhash) ==
  LET size == Min({p \in PowersOfTwo : p >= nhash})
  IN  [array |-> array,
       node |-> [n \in 0 .. size - 1 |-> FreeNode],
       sizenode |-> size,
       dummy |-> nhash = 0,
       lastfree |-> IF nhash = 0 THEN 0 ELSE size]

mainposition(t, key) ==
  LET odd == IF t.sizenode = 1 THEN 1 ELSE t.sizenode - 1
  IN  CASE key \in Strings -> Hash[key] % t.sizenode
        [] key = 0         -> 0
        [] OTHER           -> Hash[key] % odd

(* The nodes from n on: the least set with n and the next of its nodes.    *)
From(t, n) ==
  {m \in Nodes(t) : \A S \in SUBSET (Nodes(t) \ {m}) :
     n \in S => \E k \in S : t.node[k].next \notin S \union {NULL}}

Chain(t, key) == From(t, mainposition(t, key))

(* The first of some nodes of a chain: the others follow it.               *)
FirstOf(t, nodes) == CHOOSE n \in nodes : \A m \in nodes \ {n} : m \in From(t, n)

InArray(t, key) == key \in 1 .. Len(t.array)

LiveNodes(t, key) ==
  {n \in Nodes(t) : t.node[n].key = key /\ ~ t.node[n].dead /\ n \in Chain(t, key)}

(* luaH_get, luaH_getnum and luaH_getstr.                                  *)
luaH_get(t, key) ==
  LET found == LiveNodes(t, key)
  IN  IF InArray(t, key) THEN t.array[key]
      ELSE IF found = {} THEN Nil
      ELSE t.node[FirstOf(t, found)].val
-----------------------------------------------------------------------------
FreeBelow(t) == {n \in Nodes(t) : n < t.lastfree /\ t.node[n].key = Nil}

(* newkey has to look for a free node.                                     *)
Collides(t, key) == t.dummy \/ t.node[mainposition(t, key)].val # Nil

Node(key, val, next) == [key |-> key, dead |-> FALSE, val |-> val, next |-> next]

Placed(t, mp, key, val) ==
  [t EXCEPT !.node[mp] = Node(key, val, t.node[mp].next)]

Chained(t, mp, free, key, val) ==
  [t EXCEPT !.lastfree = free,
            !.node = [@ EXCEPT ![free] = Node(key, val, t.node[mp].next),
                               ![mp].next = free]]

(* The colliding node is in another's chain, behind prev: it moves.        *)
Moved(t, mp, prev, free, key, val) ==
  [t EXCEPT !.lastfree = free,
            !.node = [@ EXCEPT ![free] = t.node[mp],
                               ![prev].next = free,
                               ![mp] = Node(key, val, NULL)]]

newkeyNeverMoves(t, key, val) ==
  LET mp == mainposition(t, key)
  IN  IF Collides(t, key) THEN Chained(t, mp, Max(FreeBelow(t)), key, val)
                          ELSE Placed(t, mp, key, val)

(* newkey when there is a free node, or none is needed: a colliding node   *)
(* that is not in its main position moves, one that is there stays.        *)
newkey(t, key, val) ==
  LET mp   == mainposition(t, key)
      prev == CHOOSE n \in Nodes(t) : t.node[n].next = mp
      free == Max(FreeBelow(t))
  IN  IF ~ Collides(t, key) THEN Placed(t, mp, key, val)
      ELSE IF mainposition(t, t.node[mp].key) # mp THEN Moved(t, mp, prev, free, key, val)
      ELSE Chained(t, mp, free, key, val)

(* newkey finds no node for the key.                                       *)
Full(t, key) ==
  ~ InArray(t, key) /\ Collides(t, key) /\ FreeBelow(t) = {} /\ LiveNodes(t, key) = {}

(* luaH_set, where newkey finds a node, and the assignment to what it      *)
(* returns.                                                                *)
luaH_set(t, key, val) ==
  LET found == LiveNodes(t, key)
  IN  IF InArray(t, key) THEN [t EXCEPT !.array[key] = val]
      ELSE IF found = {} THEN newkey(t, key, val)
      ELSE [t EXCEPT !.node[FirstOf(t, found)].val = val]
-----------------------------------------------------------------------------
Entry(key, val) == [key |-> key, val |-> val]
NoEntry == Entry(Nil, Nil)

EntriesOfNodes(t, nasize) ==
  [i \in 1 .. t.sizenode |->
     LET n == t.node[t.sizenode - i] IN Entry(n.key, n.val)]

(* What resize puts back: the elements of the array that vanish, upwards,  *)
(* and those of the old nodes, downwards.                                  *)
Entries(t, nasize) ==
  LET lost == IF nasize < Len(t.array) THEN Len(t.array) - nasize ELSE 0
  IN  [i \in 1 .. lost + t.sizenode |->
         IF i <= lost THEN Entry(nasize + i, t.array[nasize + i])
         ELSE LET n == t.node[t.sizenode + lost - i] IN Entry(n.key, n.val)]

(* resize begins.                                                          *)
Resize(nasize, nhsize) ==
  /\ Fits(nhsize)
  /\ table' = Empty([i \in 1 .. nasize |-> IF i <= Len(table.array) THEN table.array[i] ELSE Nil],
                    nhsize)
  /\ old' = Entries(table, nasize)

UsedArray(t) == {i \in DOMAIN t.array : t.array[i] # Nil}
UsedNodes(t) == {n \in Nodes(t) : t.node[n].val # Nil}

(* numusearray, numusehash and the extra key: the candidates for the array.*)
ArrayCandidates(t, extra) ==
  UsedArray(t) \union
    {k \in Ints \intersect 1 .. MAXASIZE :
       k = extra \/ \E n \in UsedNodes(t) : t.node[n].key = k}

(* computesizes: the largest power of two of which more than half is used, *)
(* the upper half not being empty.                                         *)
computesizes(candidates) ==
  LET Below(p) == {k \in candidates : k <= p}
  IN  Max({0} \union {p \in PowersOfTwo :
                        /\ p \div 2 < Cardinality(candidates)
                        /\ Below(p) # Below(p \div 2)
                        /\ Cardinality(Below(p)) > p \div 2})

rehash(extra) ==
  LET candidates == ArrayCandidates(table, extra)
      nasize     == computesizes(candidates)
      totaluse   == Cardinality(UsedArray(table)) + Cardinality(UsedNodes(table)) + 1
      na         == Cardinality({k \in candidates : k <= nasize})
  IN  Resize(nasize, totaluse - na)
-----------------------------------------------------------------------------
(* Positions of a traversal: those of the array, then those of the nodes.  *)
Slots(t) == 1 .. Len(t.array) + t.sizenode
ValueAt(t, i) == IF i <= Len(t.array) THEN t.array[i] ELSE t.node[i - Len(t.array) - 1].val
KeyAt(t, i) == IF i <= Len(t.array) THEN i ELSE t.node[i - Len(t.array) - 1].key

findindexLive(t, key) ==
  IF key = Nil THEN 0
  ELSE IF InArray(t, key) THEN key
  ELSE IF LiveNodes(t, key) = {} THEN 0
  ELSE Len(t.array) + 1 + FirstOf(t, LiveNodes(t, key))

(* findindex: the key may be dead by now.  NULL is the error "invalid key  *)
(* to next".                                                               *)
findindex(t, key) ==
  LET found == {n \in Nodes(t) : t.node[n].key = key /\ n \in Chain(t, key)}
  IN  IF key = Nil THEN 0
      ELSE IF InArray(t, key) THEN key
      ELSE IF found = {} THEN NULL
      ELSE Len(t.array) + 1 + FirstOf(t, found)

(* luaH_next: the position of the next element, 0 if there is none.        *)
luaH_next(t, key) ==
  LET from  == findindex(t, key)
      later == {i \in Slots(t) : i > from /\ ValueAt(t, i) # Nil}
  IN  IF later = {} THEN 0 ELSE Min(later)
-----------------------------------------------------------------------------
NoVisit == [last |-> Nil, seen |-> {}, count |-> 0, stayed |-> {}, on |-> FALSE]
At(pc, i, j) == [pc |-> pc, i |-> i, j |-> j]
NoSearch == At("none", 0, 0)

(* luaH_new: the sizes a constructor asks for.                             *)
Init ==
  /\ \E narray \in ArraySizes, nhash \in HashSizes :
       table = Empty([i \in 1 .. narray |-> Nil], nhash)
  /\ old = <<>> /\ pending = NoEntry /\ search = NoSearch
  /\ dict = [k \in {} |-> Nil]
  /\ visit = NoVisit

(* Neither resize nor luaH_getn is under way.                              *)
Moving == old # <<>> \/ pending # NoEntry
Ready == ~ Moving /\ search = NoSearch

Updated(key, val) ==
  [k \in (DOMAIN dict \ {key}) \union (IF val = Nil THEN {} ELSE {key}) |->
     IF k = key THEN val ELSE dict[k]]

(* A field is assigned.  A traversal goes on while only fields that are    *)
(* there are assigned to.                                                  *)
Assign(key, val) ==
  /\ Ready
  /\ \/ /\ ~ Full(table, key)
        /\ table' = luaH_set(table, key, val)
        /\ UNCHANGED resizing
     \/ /\ Full(table, key)
        /\ rehash(key)
        /\ pending' = Entry(key, val)
  /\ dict' = Updated(key, val)
  /\ visit' = IF key \in DOMAIN dict
              THEN [visit EXCEPT !.stayed = @ \ (IF val = Nil THEN {key} ELSE {})]
              ELSE NoVisit
  /\ UNCHANGED search

(* OP_SETLIST makes room for the items of a constructor.                   *)
ResizeArray(nasize) ==
  /\ Ready
  /\ nasize > Len(table.array)
  /\ Resize(nasize, IF table.dummy THEN 0 ELSE table.sizenode)
  /\ visit' = NoVisit
  /\ UNCHANGED <<pending, search, dict>>

(* resize goes on with an element of the old table.                        *)
PutBack ==
  /\ old # <<>>
  /\ LET e == Head(old)
     IN  table' = IF e.val = Nil THEN table ELSE luaH_set(table, e.key, e.val)
  /\ old' = Tail(old)
  /\ UNCHANGED <<pending, search, dict, visit>>

(* newkey, after rehash, puts the new key into the table.                  *)
PutPending ==
  /\ old = <<>> /\ pending # NoEntry
  /\ table' = luaH_set(table, pending.key, pending.val)
  /\ pending' = NoEntry
  /\ UNCHANGED <<old, search, dict, visit>>

(* The collector has traversed the table.                                  *)
RemoveEntries ==
  /\ Ready
  /\ table' = [table EXCEPT !.node =
       [n \in Nodes(table) |->
          [table.node[n] EXCEPT
             !.dead = @ \/ (/\ table.node[n].val = Nil
                            /\ table.node[n].key \in Collectable)]]]
  /\ UNCHANGED <<resizing, search, dict, visit>>

Begin ==
  /\ Ready /\ ~ visit.on
  /\ visit' = [NoVisit EXCEPT !.stayed = DOMAIN dict, !.on = TRUE]
  /\ UNCHANGED <<table, resizing, search, dict>>

(* next (t, k), where k is what it returned last.                          *)
Advance ==
  /\ Ready /\ visit.on
  /\ LET next == luaH_next(table, visit.last)
         key  == KeyAt(table, next)
     IN  /\ next # 0
         /\ visit' = [visit EXCEPT !.last = key, !.seen = @ \union {key}, !.count = @ + 1]
  /\ UNCHANGED <<table, resizing, search, dict>>

End ==
  /\ Ready /\ visit.on /\ luaH_next(table, visit.last) = 0
  /\ visit' = [visit EXCEPT !.on = FALSE]
  /\ UNCHANGED <<table, resizing, search, dict>>
-----------------------------------------------------------------------------
IsNil(i) == luaH_get(table, i) = Nil

LengthTrustsSize ==
  LET j == Len(table.array)
  IN  IF table.dummy THEN At("found", j, j) ELSE At("double", j, j + 1)

(* luaH_getn begins.                                                       *)
Length ==
  LET j == Len(table.array)
  IN  IF j > 0 /\ table.array[j] = Nil THEN At("binary", 0, j)
      ELSE IF table.dummy THEN At("found", j, j)
      ELSE At("double", j, j + 1)

(* A turn of unbound_search's first loop, with the step to the linear      *)
(* search when the next index would be too large.                          *)
Double(i, j) ==
  IF IsNil(j) THEN At("binary", i, j)
  ELSE IF 2 * j > MAX_INT THEN At("linear", 1, 2 * j)
  ELSE At("double", j, 2 * j)

Linear(i, j) == IF IsNil(i) THEN At("found", i - 1, j) ELSE At("linear", i + 1, j)

(* A turn of either binary search: i is 0 or present, j is absent.         *)
Binary(i, j) ==
  LET m == (i + j) \div 2
  IN  IF j - i <= 1 THEN At("found", i, j)
      ELSE IF IsNil(m) THEN At("binary", i, m)
      ELSE At("binary", m, j)

luaH_getn ==
  /\ ~ Moving
  /\ search' = CASE search.pc = "none"   -> Length
                 [] search.pc = "double" -> Double(search.i, search.j)
                 [] search.pc = "linear" -> Linear(search.i, search.j)
                 [] search.pc = "binary" -> Binary(search.i, search.j)
                 [] search.pc = "found"  -> NoSearch
  /\ UNCHANGED <<table, resizing, dict, visit>>

Next ==
  \/ \E key \in Keys : Assign(key, Value[key]) \/ Assign(key, Nil)
  \/ \E nasize \in ArraySizes : ResizeArray(nasize)
  \/ PutBack \/ PutPending
  \/ RemoveEntries
  \/ Begin \/ Advance \/ End
  \/ luaH_getn

Spec == Init /\ [][Next]_vars
-----------------------------------------------------------------------------
(* Whatever has been assigned, moved and rehashed, every key gives what    *)
(* was last assigned to it, and no node holds anything else; a resize      *)
(* finds room for everything it puts back.                                 *)
HoldsDict ==
  /\ ~ Moving =>
       /\ \A key \in Keys :
            luaH_get(table, key) = IF key \in DOMAIN dict THEN dict[key] ELSE Nil
       /\ \A n \in UsedNodes(table) :
            LET key == table.node[n].key
            IN  key \in DOMAIN dict /\ ~ InArray(table, key) /\ LiveNodes(table, key) = {n}
  /\ old # <<>> /\ Head(old).val # Nil => ~ Full(table, Head(old).key)
  /\ old = <<>> /\ pending # NoEntry => ~ Full(table, pending.key)

(* The main invariant of ltable.c, line 15: an element that is not in its  *)
(* main position collides with one that is.                                *)
BrentsVariation ==
  \A n \in UsedNodes(table) :
    LET mp == mainposition(table, table.node[n].key)
    IN  n # mp =>
          LET other == table.node[mp]
          IN  other.val # Nil => mainposition(table, other.key) = mp

(* luaH_getn returns a border: a present index before an absent one.       *)
LengthIsBorder ==
  search.pc = "found" =>
    /\ search.i = 0 \/ search.i \in DOMAIN dict
    /\ search.i + 1 \notin DOMAIN dict

(* A traversal finds its place again although fields are cleared and their *)
(* keys have died; it returns no key twice, and when it ends it has        *)
(* returned every key that was there all along.                            *)
TraversalExact ==
  /\ visit.on => findindex(table, visit.last) # NULL
  /\ visit.count = Cardinality(visit.seen)
  /\ ~ visit.on => visit.stayed \subseteq visit.seen
=============================================================================
