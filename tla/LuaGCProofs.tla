---------------------------- MODULE LuaGCProofs ----------------------------
(***************************************************************************)
(* Proofs about LuaGC, for any number of objects, mixes of kinds and       *)
(* levels: nothing that can be reached is freed or condemned, the mark     *)
(* phase keeps its invariant under the barriers, weak tables give nothing  *)
(* that is to be freed, and finalizers run once.                           *)
(***************************************************************************)
EXTENDS LuaGC, FiniteSetTheorems, TLAPS

(* No value is an upvalue: only closures refer to them.                    *)
Values == {o \in Object : kind[o] # "upval"} \union {Nil, Number}

Collectors ==
  [state : {"pause", "propagate", "sweepstring", "sweep", "finalize"},
   full : BOOLEAN, closing : BOOLEAN,
   mark : [Object -> {"white", "dead", "gray", "black"}],
   gray : SUBSET Object, grayagain : SUBSET Object, weak : SUBSET Object,
   strings : SUBSET Object, unswept : SUBSET Object, finalized : SUBSET Object,
   tmudata : Seq(Object)]

HeapType ==
  /\ kind \in Mixes /\ exists \subseteq Object
  /\ node \in [Object -> [key : Values, val : Values]]
  /\ env \in [Object -> Object] /\ upval \in [Object -> Object \union {Nil}]
  /\ place \in [Object -> [thread : Object \union {Nil}, level : Nat]]
  /\ value \in [Object -> Values] /\ stack \in [Object -> [Level -> Values]]
  /\ running \in Object
  /\ called \in [done : SUBSET Object, late : SUBSET Object]

TypeOK == HeapType /\ gc \in Collectors

(* All an object refers to, weak references and all.                       *)
Holds(o) ==
  Strong(o) \union
    IF kind[o] \in Tables THEN Object \intersect {node[o].key, node[o].val} ELSE {}

Alive(g) == {o \in exists : ~ isdead(g, o)}
Marked(g) == {o \in Object : ~ iswhite(g, o)}
ListedOf(set) == {o \in set : Listed(o)}
ThreadsOf(set) == {o \in set : kind[o] = "thread"}
WeakOf(set) == {o \in set : kind[o] \in {"weakkeys", "weakvalues"}}

(* What neither marking nor traversing changes.                            *)
SameRest(g, g2) ==
  /\ g2.state = g.state /\ g2.full = g.full /\ g2.closing = g.closing
  /\ g2.strings = g.strings /\ g2.unswept = g.unswept
  /\ g2.finalized = g.finalized /\ g2.tmudata = g.tmudata

(* What is left to sweep: with a thread go its open upvalues.              *)
LeftToSweep(g) == g.strings \union g.unswept \union OpenIn(g.unswept)

(* Open upvalues are those of levels of threads that are there, and every  *)
(* closure has an upvalue.                                                 *)
Placed ==
  /\ \A o \in Object : IsOpen(o) =>
       /\ o \in exists /\ kind[o] = "upval"
       /\ place[o].thread \in exists /\ kind[place[o].thread] = "thread"
       /\ place[o].level \in Level
  /\ \A o \in Object : kind[env[o]] \in Tables
  /\ \A o \in Of("closure") : upval[o] \in Object /\ kind[upval[o]] = "upval"
  /\ kind[running] = "thread"

(* Nothing is known of an address without an object.                       *)
Blank(g) ==
  \A o \in Object \ exists :
    /\ node[o] = EmptyNode /\ env[o] = Globals /\ upval[o] = Nil
    /\ value[o] = Nil /\ stack[o] = NoStack /\ g.mark[o] = "white"
    /\ o \notin g.strings /\ o \notin g.unswept /\ o \notin g.finalized

(* What is there and not condemned refers to nothing else.                 *)
Safe(g) ==
  /\ {Main, Globals, running} \subseteq Alive(g)
  /\ Range(g.tmudata) \subseteq Alive(g)
  /\ \A o \in Alive(g) : Holds(o) \subseteq Alive(g)

(* A userdata with the FINALIZEDBIT waits for its finalizer or has had it. *)
Finalizing(g) ==
  /\ \A u \in Range(g.tmudata) :
       u \in exists /\ u \in g.finalized /\ u \notin called.done
  /\ \A m, n \in DOMAIN g.tmudata : g.tmudata[m] = g.tmudata[n] => m = n
  /\ \A u \in g.finalized : kind[u] = "udata" /\ u \in Range(g.tmudata) \union called.done
  /\ called.done \subseteq g.finalized
  /\ g.closing => \A u \in Of("udata") : u \in g.finalized \union called.late

(* Open upvalues are never black, userdata never gray.                     *)
Painted(g) ==
  \A o \in Object :
    /\ IsOpen(o) => g.mark[o] # "black"
    /\ kind[o] = "udata" => g.mark[o] # "gray"

(* The sweep: what is dead or has a colour is still to be swept.           *)
Sweeping(g) ==
  /\ g.state # "sweepstring" => g.strings = {}
  /\ g.state \notin {"sweepstring", "sweep"} => g.unswept = {}
  /\ \A o \in g.strings : o \in exists /\ kind[o] = "string"
  /\ \A o \in g.unswept : o \in exists /\ ~ IsOpen(o)
  /\ \A o \in Object : isdead(g, o) =>
       o \in LeftToSweep(g) /\ (kind[o] = "udata" => o \in called.done)
  /\ g.state # "propagate" => Marked(g) \subseteq LeftToSweep(g) \union Range(g.tmudata)

(* Objects that are looked at again before the mark phase ends.            *)
Lists(g) == g.gray \union g.grayagain \union g.weak
Pending(g) == Lists(g) \union Range(g.tmudata) \union {o \in Object : IsOpen(o)}

(* What is marked refers to what is marked, but for some.                  *)
BlackBut(g, pending) == \A o \in Marked(g) \ pending : Strong(o) \subseteq Marked(g)

(* The gray lists: each has its own objects, they are gray, and what else  *)
(* is gray can wait.  Threads and weak tables do not leave them.           *)
Listing(g) ==
  /\ \A o \in Lists(g) : g.mark[o] = "gray" /\ Listed(o)
  /\ g.gray \intersect g.grayagain = {} /\ g.gray \intersect g.weak = {}
  /\ g.grayagain \intersect g.weak = {}
  /\ \A o \in Object : g.mark[o] = "gray" =>
       o \in Lists(g) \/ IsOpen(o) \/ kind[o] \in {"string", "none"}
  /\ \A o \in Marked(g) :
       /\ kind[o] = "thread" => o \in g.gray \union g.grayagain
       /\ kind[o] \in {"weakkeys", "weakvalues"} => o \in g.gray \union g.weak

Marking(g) == Listing(g) /\ BlackBut(g, Pending(g)) /\ {Main, Globals} \subseteq Marked(g)

Running(g) == /\ Placed /\ Blank(g) /\ Safe(g) /\ Sweeping(g) /\ Painted(g)
              /\ g.state = "propagate" => Marking(g)

IInv == TypeOK /\ Finalizing(gc) /\ (~ gc.closing => Running(gc))
-----------------------------------------------------------------------------
(* The kinds are those of a mix.                                           *)
LEMMA KindsType ==
  ASSUME HeapType
  PROVE  /\ kind \in [Object -> Kinds] /\ kind[Main] = "thread" /\ kind[Globals] = "table"
         /\ Main \in Object /\ Globals \in Object
BY MixesAssumption, ObjectAssumption DEF HeapType

(* Levels are numbers from 1 on.                                           *)
LEMMA LevelNumbers == Level \subseteq Nat /\ \A i \in Level : i >= 1
<1>1. Cardinality(Level) \in Nat /\ Level = 1 .. Cardinality(Level)
  BY LevelAssumption, FS_CardinalityType
<1> QED BY <1>1

(* What is reached from a set is the least set that contains it and is     *)
(* closed under the references.                                            *)
LEMMA ReachedIsLeast ==
  ASSUME NEW from \in SUBSET Object, NEW refs \in [Object -> SUBSET Object]
  PROVE  /\ from \subseteq Reached(from, refs) /\ Reached(from, refs) \subseteq Object
         /\ \A p \in Reached(from, refs) : refs[p] \subseteq Reached(from, refs)
         /\ \A set \in SUBSET Object :
              from \subseteq set /\ (\A p \in set : refs[p] \subseteq set)
                => Reached(from, refs) \subseteq set
<1>1. \A p \in Reached(from, refs) : \A r \in refs[p] : r \in Reached(from, refs)
  BY DEF Reached
<1>2. from \subseteq Reached(from, refs) /\ Reached(from, refs) \subseteq Object
  BY DEF Reached
<1>3. ASSUME NEW set \in SUBSET Object, from \subseteq set, \A p \in set : refs[p] \subseteq set
      PROVE  Reached(from, refs) \subseteq set
  BY <1>3 DEF Reached
<1> QED BY <1>1, <1>2, <1>3

(* What each kind of objects refers to.                                    *)
LEMMA StrongCases ==
  ASSUME NEW o \in Object
  PROVE  /\ kind[o] = "table" => Strong(o) = Object \intersect {node[o].key, node[o].val}
         /\ kind[o] = "weakkeys" => Strong(o) = Object \intersect {node[o].val}
         /\ kind[o] = "weakvalues" => Strong(o) = Object \intersect {node[o].key}
         /\ kind[o] = "closure" => Strong(o) = Object \intersect {upval[o], Globals}
         /\ kind[o] = "upval" => Strong(o) = Object \intersect {Contents(o)}
         /\ kind[o] = "udata" => Strong(o) = Object \intersect {env[o]}
         /\ kind[o] = "thread" => Strong(o) = Object \intersect Range(stack[o])
         /\ kind[o] \notin {"table", "weakkeys", "weakvalues", "closure", "upval", "udata", "thread"}
              => Strong(o) = {}
<1>1. kind[o] = "table" => Strong(o) = Object \intersect {node[o].key, node[o].val}
  BY DEF Strong
<1>2. kind[o] = "weakkeys" => Strong(o) = Object \intersect {node[o].val}
  BY DEF Strong
<1>3. kind[o] = "weakvalues" => Strong(o) = Object \intersect {node[o].key}
  BY DEF Strong
<1>4. kind[o] = "closure" => Strong(o) = Object \intersect {upval[o], Globals}
  BY DEF Strong
<1>5. kind[o] = "upval" => Strong(o) = Object \intersect {Contents(o)}
  BY DEF Strong
<1>6. kind[o] = "udata" => Strong(o) = Object \intersect {env[o]}
  BY DEF Strong
<1>7. kind[o] = "thread" => Strong(o) = Object \intersect Range(stack[o])
  BY DEF Strong
<1>8. kind[o] \notin {"table", "weakkeys", "weakvalues", "closure", "upval", "udata", "thread"}
        => Strong(o) = {}
  BY DEF Strong
<1> QED BY <1>1, <1>2, <1>3, <1>4, <1>5, <1>6, <1>7, <1>8

(* References are to objects.                                              *)
LEMMA StrongType ==
  ASSUME NEW o \in Object
  PROVE  /\ Strong(o) \subseteq Object /\ PassesOn(o) \subseteq Object
         /\ Holds(o) \subseteq Object /\ Strong(o) \subseteq Holds(o)
<1>1. Strong(o) \subseteq Object
  BY Zenon DEF Strong
<1> QED BY <1>1 DEF PassesOn, Holds

(* Marking gives a colour to what was white among the values, and to what  *)
(* the mark is passed on to: all of it in any set that has the values and  *)
(* is closed.  No other field than mark and gray changes.                  *)
LEMMA MarkValues ==
  ASSUME NEW g \in Collectors, NEW values, NEW g2, g2 = markvalues(g, values)
  PROVE  \E new \in SUBSET Object :
           /\ g2 \in Collectors /\ SameRest(g, g2)
           /\ g2.gray = g.gray \union ListedOf(new)
           /\ g2.grayagain = g.grayagain /\ g2.weak = g.weak
           /\ \A o \in new : iswhite(g, o) /\ g2.mark[o] = IF Listed(o) THEN "gray" ELSE Finished(o)
           /\ \A o \in Object \ new : g2.mark[o] = g.mark[o]
           /\ Marked(g2) = Marked(g) \union new
           /\ values \intersect Object \subseteq Marked(g2)
           /\ \A o \in new : ~ Listed(o) => Strong(o) \subseteq Marked(g2)
           /\ \A set \in SUBSET Object :
                values \intersect Object \subseteq set /\ (\A o \in set : PassesOn(o) \subseteq set)
                  => new \subseteq set
<1> DEFINE new == Newly(g, values)
           refs == [o \in Object |-> IF iswhite(g, o) THEN PassesOn(o) ELSE {}]
           from == values \intersect Object
           all == Reached(from, refs)
<1>1. refs \in [Object -> SUBSET Object] /\ from \in SUBSET Object
  BY StrongType
<1>2. /\ from \subseteq all /\ all \subseteq Object
      /\ \A p \in all : refs[p] \subseteq all
      /\ \A set \in SUBSET Object :
           from \subseteq set /\ (\A p \in set : refs[p] \subseteq set) => all \subseteq set
  <2> HIDE DEF refs, from
  <2> QED BY <1>1, ReachedIsLeast
<1>3. new = {o \in all : iswhite(g, o)}
  BY Zenon DEF Newly
<1>4. \A o \in Object : (IF Listed(o) THEN "gray" ELSE Finished(o)) \in {"gray", "black"}
  BY DEF Finished
<1>5. /\ g2 = [g EXCEPT !.mark = [o \in Object |-> IF o \notin new THEN g.mark[o]
                                            ELSE IF Listed(o) THEN "gray" ELSE Finished(o)],
                !.gray = @ \union {o \in new : Listed(o)}]
  BY Zenon DEF markvalues
<1> HIDE DEF new, refs, all
<1>6. new \in SUBSET Object
  BY <1>2, <1>3
<1>7. /\ g2 \in Collectors
      /\ g2.mark = [o \in Object |-> IF o \notin new THEN g.mark[o]
                                     ELSE IF Listed(o) THEN "gray" ELSE Finished(o)]
      /\ g2.gray = g.gray \union ListedOf(new)
      /\ g2.grayagain = g.grayagain /\ g2.weak = g.weak /\ SameRest(g, g2)
  <2> DEFINE mark == [o \in Object |-> IF o \notin new THEN g.mark[o]
                                     ELSE IF Listed(o) THEN "gray" ELSE Finished(o)]
             gray == g.gray \union ListedOf(new)
  <2>1. g2 = [g EXCEPT !.mark = mark, !.gray = gray]
    BY <1>5, Zenon DEF ListedOf
  <2>2. mark \in [Object -> {"white", "dead", "gray", "black"}] /\ gray \in SUBSET Object
    BY <1>4, <1>6 DEF Collectors, ListedOf
  <2> HIDE DEF mark, gray
  <2>3. g2.mark = mark /\ g2.gray = gray /\ g2 \in Collectors
    BY <2>1, <2>2 DEF Collectors
  <2>4. g2.grayagain = g.grayagain /\ g2.weak = g.weak /\ SameRest(g, g2)
    BY <2>1 DEF Collectors, SameRest
  <2> QED BY <2>3, <2>4 DEF mark, gray
<1>8. /\ \A o \in new : iswhite(g, o) /\ g2.mark[o] = IF Listed(o) THEN "gray" ELSE Finished(o)
      /\ \A o \in Object \ new : g2.mark[o] = g.mark[o]
  BY <1>3, <1>6, <1>7
<1>9. Marked(g2) = Marked(g) \union new
  BY <1>4, <1>6, <1>8 DEF Marked, iswhite
<1>10. \A o \in all : o \in Marked(g2)
  BY <1>2, <1>3, <1>9 DEF Marked
<1>11. values \intersect Object \subseteq Marked(g2)
  BY <1>2, <1>10
<1>12. ASSUME NEW o \in new, ~ Listed(o)
       PROVE  Strong(o) \subseteq Marked(g2)
  <2>1. o \in all /\ iswhite(g, o) /\ o \in Object
    BY <1>3, <1>2
  <2>2. PassesOn(o) \subseteq all
    BY <1>2, <2>1 DEF refs
  <2>3. kind[o] \in {"udata", "upval"} \/ Strong(o) = {}
    BY <1>12 DEF Listed, Strong, Tables
  <2> QED BY <1>10, <2>2, <2>3 DEF PassesOn
<1>13. ASSUME NEW set \in SUBSET Object, from \subseteq set, \A o \in set : PassesOn(o) \subseteq set
       PROVE  new \subseteq set
  <2>1. \A p \in set : refs[p] \subseteq set
    BY <1>13 DEF refs
  <2> QED BY <1>2, <1>3, <1>13, <2>1
<1> QED BY <1>6, <1>7, <1>8, <1>9, <1>11, <1>12, <1>13

(* Traversing changes the lists as the kinds of the objects demand.        *)
LEMMA TraversedFields ==
  ASSUME NEW g \in Collectors, NEW set \in SUBSET Object, NEW g2, g2 = Traversed(g, set)
  PROVE  /\ g2 \in Collectors
         /\ g2.mark = [o \in Object |-> IF o \in set THEN Finished(o) ELSE g.mark[o]]
         /\ g2.gray = g.gray \ set
         /\ g2.grayagain = g.grayagain \union ThreadsOf(set)
         /\ g2.weak = g.weak \union WeakOf(set)
         /\ SameRest(g, g2)
<1> DEFINE mark == [o \in Object |-> IF o \in set THEN Finished(o) ELSE g.mark[o]]
           gray == g.gray \ set
           again == g.grayagain \union ThreadsOf(set)
           weak == g.weak \union WeakOf(set)
<1>1. g2 = [g EXCEPT !.mark = mark, !.gray = gray, !.grayagain = again, !.weak = weak]
  BY Zenon DEF Traversed, ThreadsOf, WeakOf
<1>2. \A o \in Object : Finished(o) \in {"gray", "black"}
  BY DEF Finished
<1>3. /\ mark \in [Object -> {"white", "dead", "gray", "black"}]
      /\ gray \in SUBSET Object /\ again \in SUBSET Object /\ weak \in SUBSET Object
  BY <1>2 DEF Collectors, ThreadsOf, WeakOf
<1> HIDE DEF mark, gray, again, weak
<1>4. /\ g2.mark = mark /\ g2.gray = gray /\ g2.grayagain = again /\ g2.weak = weak
      /\ g2 \in Collectors
  BY <1>1, <1>3, ZenonT(30) DEF Collectors
<1>5. SameRest(g, g2)
  BY <1>1 DEF Collectors, SameRest
<1> QED BY <1>4, <1>5 DEF mark, gray, again, weak

(* The gray objects and all that is found white from them are traversed:   *)
(* each refers to marked objects only.                                     *)
LEMMA PropagateAll ==
  ASSUME NEW g \in Collectors, NEW g2, g2 = propagateall(g)
  PROVE  \E found \in SUBSET Object :
           /\ g2 \in Collectors /\ SameRest(g, g2)
           /\ g.gray \subseteq found
           /\ \A o \in found : (o \in g.gray \/ iswhite(g, o)) /\ g2.mark[o] = Finished(o)
           /\ \A o \in Object \ found : g2.mark[o] = g.mark[o]
           /\ Marked(g2) = Marked(g) \union found
           /\ g2.gray = {}
           /\ g2.grayagain = g.grayagain \union ThreadsOf(found)
           /\ g2.weak = g.weak \union WeakOf(found)
           /\ \A o \in found : Strong(o) \subseteq Marked(g2)
           /\ \A set \in SUBSET Object :
                g.gray \subseteq set /\ (\A o \in set : Strong(o) \subseteq set)
                  => found \subseteq set
<1> DEFINE refs == [o \in Object |-> IF o \in g.gray \/ iswhite(g, o) THEN Strong(o) ELSE {}]
           all == Reached(g.gray, refs)
           found == {o \in all : o \in g.gray \/ iswhite(g, o)}
<1>1. refs \in [Object -> SUBSET Object] /\ g.gray \in SUBSET Object
  BY StrongType DEF Collectors
<1>2. /\ g.gray \subseteq all /\ all \subseteq Object
      /\ \A p \in all : refs[p] \subseteq all
      /\ \A set \in SUBSET Object :
           g.gray \subseteq set /\ (\A p \in set : refs[p] \subseteq set) => all \subseteq set
  <2> HIDE DEF refs
  <2> QED BY <1>1, ReachedIsLeast
<1>3. g2 = Traversed(g, found)
  BY Zenon DEF propagateall
<1>4. found \in SUBSET Object /\ g.gray \subseteq found
  BY <1>2
<1>5. \A o \in found : (o \in g.gray \/ iswhite(g, o)) /\ o \in all
  OBVIOUS
<1>6. \A o \in all : o \in found \/ ~ iswhite(g, o)
  OBVIOUS
<1> HIDE DEF found, all
<1>7. /\ g2 \in Collectors
      /\ g2.mark = [o \in Object |-> IF o \in found THEN Finished(o) ELSE g.mark[o]]
      /\ g2.gray = g.gray \ found
      /\ g2.grayagain = g.grayagain \union ThreadsOf(found)
      /\ g2.weak = g.weak \union WeakOf(found)
      /\ SameRest(g, g2)
  BY <1>3, <1>4, TraversedFields
<1>8. \A o \in Object : Finished(o) \in {"gray", "black"}
  BY DEF Finished
<1>9. /\ \A o \in found : g2.mark[o] = Finished(o)
      /\ \A o \in Object \ found : g2.mark[o] = g.mark[o]
  BY <1>4, <1>7
<1>10. Marked(g2) = Marked(g) \union found
  BY <1>4, <1>8, <1>9 DEF Marked, iswhite
<1>11. ASSUME NEW o \in found PROVE Strong(o) \subseteq Marked(g2)
  <2>1. o \in Object /\ o \in all
    BY <1>4, <1>5
  <2>2. Strong(o) \subseteq all
    BY <1>2, <1>5, <2>1 DEF refs
  <2> QED BY <1>2, <1>6, <1>10, <2>2 DEF Marked
<1>12. ASSUME NEW set \in SUBSET Object, g.gray \subseteq set, \A o \in set : Strong(o) \subseteq set
       PROVE  found \subseteq set
  <2>1. \A p \in set : refs[p] \subseteq set
    BY <1>12 DEF refs
  <2> QED BY <1>2, <1>5, <1>12, <2>1
<1>13. g2.gray = {}
  BY <1>4, <1>7
<1> QED BY <1>4, <1>5, <1>7, <1>9, <1>10, <1>11, <1>12, <1>13

(* How marking a set of values keeps the lists and the colours.            *)
LEMMA MarkValuesListing ==
  ASSUME NEW g \in Collectors, NEW values, NEW g2, g2 = markvalues(g, values),
         Listing(g), Placed, HeapType
  PROVE  Listing(g2) /\ (Painted(g) => Painted(g2))
<1>1. PICK new \in SUBSET Object :
           /\ g2 \in Collectors
           /\ g2.gray = g.gray \union ListedOf(new)
           /\ g2.grayagain = g.grayagain /\ g2.weak = g.weak
           /\ \A o \in new : iswhite(g, o) /\ g2.mark[o] = IF Listed(o) THEN "gray" ELSE Finished(o)
           /\ \A o \in Object \ new : g2.mark[o] = g.mark[o]
           /\ Marked(g2) = Marked(g) \union new
  BY MarkValues
<1>2. \A o \in Lists(g) : o \in Object /\ o \notin new
  BY <1>1 DEF Listing, iswhite, Lists, Collectors
<1>3. \A o \in Lists(g2) : g2.mark[o] = "gray" /\ Listed(o)
  BY <1>1, <1>2 DEF Listing, Lists, ListedOf
<1>4. /\ g2.gray \intersect g2.grayagain = {} /\ g2.gray \intersect g2.weak = {}
      /\ g2.grayagain \intersect g2.weak = {}
  BY <1>1, <1>2 DEF Listing, Lists, ListedOf
<1>5. ASSUME NEW o \in Object, g2.mark[o] = "gray"
      PROVE  o \in Lists(g2) \/ IsOpen(o) \/ kind[o] \in {"string", "none"}
  <2>1. CASE o \in new /\ ~ Listed(o)
    <3>1. Finished(o) = "gray"
      BY <1>1, <1>5, <2>1
    <3> QED BY <3>1, <2>1, KindsType DEF Finished, Listed, Kinds, Tables, IsOpen
  <2>2. CASE o \in new /\ Listed(o)
    BY <1>1, <2>2 DEF Lists, ListedOf
  <2>3. CASE o \notin new
    BY <1>1, <1>5, <2>3 DEF Lists, Listing
  <2> QED BY <2>1, <2>2, <2>3
<1>6. ASSUME NEW o \in Marked(g2)
      PROVE  /\ kind[o] = "thread" => o \in g2.gray \union g2.grayagain
             /\ kind[o] \in {"weakkeys", "weakvalues"} => o \in g2.gray \union g2.weak
  BY <1>1 DEF Listing, Listed, ListedOf, Tables
<1>7. \A o \in new : /\ IsOpen(o) => g2.mark[o] = "gray"
                     /\ kind[o] = "udata" => g2.mark[o] = "black"
  BY <1>1 DEF Placed, Finished, Listed, Tables
<1>8. Painted(g) => Painted(g2)
  BY <1>1, <1>7 DEF Painted
<1> QED BY <1>3, <1>4, <1>5, <1>6, <1>8 DEF Listing

(* What is marked then refers to marked objects, but for the gray list.    *)
LEMMA MarkValuesBlack ==
  ASSUME NEW g \in Collectors, NEW values, NEW g2, g2 = markvalues(g, values),
         NEW pending, BlackBut(g, pending)
  PROVE  BlackBut(g2, pending \union g2.gray)
<1>1. PICK new \in SUBSET Object :
           /\ g2.gray = g.gray \union ListedOf(new)
           /\ Marked(g2) = Marked(g) \union new
           /\ \A o \in new : ~ Listed(o) => Strong(o) \subseteq Marked(g2)
  BY MarkValues
<1> QED BY <1>1 DEF BlackBut, ListedOf

(* Marking from what is there marks nothing else, and no object loses its  *)
(* colour.                                                                 *)
LEMMA MarkValuesInside ==
  ASSUME NEW g \in Collectors, NEW values, NEW g2, g2 = markvalues(g, values)
  PROVE  /\ \A set \in SUBSET Object :
              values \intersect Object \subseteq set /\ (\A o \in set : Strong(o) \subseteq set) =>
                Marked(g2) \subseteq Marked(g) \union set
         /\ Marked(g) \subseteq Marked(g2) /\ values \intersect Object \subseteq Marked(g2)
         /\ \A o \in Object : iswhite(g2, o) \/ o \in Marked(g) => g2.mark[o] = g.mark[o]
<1>1. PICK new \in SUBSET Object :
           /\ Marked(g2) = Marked(g) \union new
           /\ \A o \in new : iswhite(g, o) /\ g2.mark[o] = IF Listed(o) THEN "gray" ELSE Finished(o)
           /\ values \intersect Object \subseteq Marked(g2)
           /\ \A o \in Object \ new : g2.mark[o] = g.mark[o]
           /\ \A s \in SUBSET Object :
                values \intersect Object \subseteq s /\ (\A o \in s : PassesOn(o) \subseteq s)
                  => new \subseteq s
  BY MarkValues
<1>2. \A set \in SUBSET Object :
        values \intersect Object \subseteq set /\ (\A o \in set : Strong(o) \subseteq set) =>
          new \subseteq set
  BY <1>1 DEF PassesOn
<1> QED BY <1>1, <1>2 DEF Marked

(* How traversing all gray objects keeps the lists and the colours.        *)
LEMMA PropagateAllListing ==
  ASSUME NEW g \in Collectors, NEW g2, g2 = propagateall(g),
         Listing(g), Painted(g), Placed, HeapType
  PROVE  Listing(g2) /\ Painted(g2)
<1>1. PICK found \in SUBSET Object :
           /\ g2 \in Collectors
           /\ g.gray \subseteq found
           /\ \A o \in found : (o \in g.gray \/ iswhite(g, o)) /\ g2.mark[o] = Finished(o)
           /\ \A o \in Object \ found : g2.mark[o] = g.mark[o]
           /\ Marked(g2) = Marked(g) \union found
           /\ g2.gray = {}
           /\ g2.grayagain = g.grayagain \union ThreadsOf(found)
           /\ g2.weak = g.weak \union WeakOf(found)
  BY PropagateAll
<1>2. \A o \in g.grayagain \union g.weak : o \in Object /\ o \notin found
  BY <1>1 DEF Listing, iswhite, Lists, Collectors
<1>3. \A o \in ThreadsOf(found) \union WeakOf(found) : g2.mark[o] = "gray" /\ Listed(o)
  <2>1. \A o \in ThreadsOf(found) \union WeakOf(found) : Finished(o) = "gray" /\ o \in found
    BY DEF ThreadsOf, WeakOf, Finished
  <2> QED BY <1>1, <2>1 DEF ThreadsOf, WeakOf, Listed, Tables
<1>4. \A o \in Lists(g2) : g2.mark[o] = "gray" /\ Listed(o)
  BY <1>1, <1>2, <1>3 DEF Listing, Lists
<1>5. g2.grayagain \intersect g2.weak = {}
  BY <1>1, <1>2 DEF Listing, Lists, ThreadsOf, WeakOf
<1>6. ASSUME NEW o \in Object, g2.mark[o] = "gray"
      PROVE  o \in Lists(g2) \/ IsOpen(o) \/ kind[o] \in {"string", "none"}
  <2>1. CASE o \in found
    <3>1. Finished(o) = "gray"
      BY <1>1, <1>6, <2>1
    <3>2. o \in ThreadsOf(found) \union WeakOf(found) \/ IsOpen(o) \/ kind[o] \in {"string", "none"}
      BY <3>1, <2>1, KindsType DEF Finished, ThreadsOf, WeakOf, Kinds, Tables, IsOpen
    <3> QED BY <3>2, <1>1 DEF Lists
  <2>2. CASE o \notin found
    BY <1>1, <1>6, <2>2 DEF Lists, Listing
  <2> QED BY <2>1, <2>2
<1>7. ASSUME NEW o \in Marked(g2)
      PROVE  /\ kind[o] = "thread" => o \in g2.gray \union g2.grayagain
             /\ kind[o] \in {"weakkeys", "weakvalues"} => o \in g2.gray \union g2.weak
  BY <1>1 DEF Listing, ThreadsOf, WeakOf
<1>8. \A o \in found : /\ IsOpen(o) => Finished(o) = "gray"
                       /\ kind[o] = "udata" => Finished(o) = "black"
  BY <1>1 DEF Placed, Finished
<1>9. Painted(g2)
  BY <1>1, <1>8 DEF Painted
<1> QED BY <1>1, <1>4, <1>5, <1>6, <1>7, <1>9 DEF Listing

(* What is marked then refers to marked objects: nothing is left to do for *)
(* the gray list.                                                          *)
LEMMA PropagateAllBlack ==
  ASSUME NEW g \in Collectors, NEW g2, g2 = propagateall(g),
         NEW pending, BlackBut(g, pending)
  PROVE  BlackBut(g2, pending \ g.gray)
<1>1. PICK found \in SUBSET Object :
           /\ g.gray \subseteq found
           /\ Marked(g2) = Marked(g) \union found
           /\ \A o \in found : Strong(o) \subseteq Marked(g2)
  BY PropagateAll
<1> QED BY <1>1 DEF BlackBut

(* Traversing from what is there marks nothing else, and no object turns   *)
(* white.                                                                  *)
LEMMA PropagateAllInside ==
  ASSUME NEW g \in Collectors, NEW g2, g2 = propagateall(g)
  PROVE  /\ \A set \in SUBSET Object :
              g.gray \subseteq set /\ (\A o \in set : Strong(o) \subseteq set) =>
                Marked(g2) \subseteq Marked(g) \union set
         /\ Marked(g) \subseteq Marked(g2)
         /\ \A o \in Object : iswhite(g2, o) => g2.mark[o] = g.mark[o]
<1>1. PICK found \in SUBSET Object :
           /\ \A o \in Object \ found : g2.mark[o] = g.mark[o]
           /\ Marked(g2) = Marked(g) \union found
           /\ \A s \in SUBSET Object :
                g.gray \subseteq s /\ (\A o \in s : Strong(o) \subseteq s) => found \subseteq s
  BY PropagateAll
<1> QED BY <1>1 DEF Marked

-----------------------------------------------------------------------------
(* The initial states.                                                     *)
LEMMA InitInvariant == Init => IInv
<1> SUFFICES ASSUME Init PROVE IInv
  OBVIOUS
<1>1. HeapType
  BY ObjectAssumption, LevelAssumption, MixesAssumption
  DEF Init, HeapType, Values, EmptyNode, Closed, NoStack
<1>2. gc \in Collectors
  BY DEF Init, GCInit, Collectors
<1>3. Finalizing(gc)
  BY DEF Init, GCInit, Finalizing, Range
<1>4. Placed
  BY <1>1, KindsType DEF Init, Placed, IsOpen, Closed, Tables, Of
<1>5. Blank(gc)
  BY DEF Init, GCInit, Blank
<1>6. \A o \in Object : Strong(o) \subseteq {Globals}
  <2>1. \A i \in Level, o \in Object : stack[o][i] \notin Object
    BY ObjectAssumption DEF Init, NoStack
  <2>2. \A o \in Object : Range(stack[o]) \intersect Object = {}
    BY <2>1 DEF Range, Init, NoStack
  <2>3. \A o \in Object : Contents(o) \notin Object
    BY ObjectAssumption DEF Init, Contents, IsOpen
  <2>4. \A o \in Object : node[o].key \notin Object /\ node[o].val \notin Object
                          /\ env[o] = Globals /\ upval[o] \notin Object
    BY ObjectAssumption DEF Init, EmptyNode
  <2> QED BY <2>2, <2>3, <2>4, StrongCases
<1>7. \A o \in Object : Holds(o) \subseteq {Globals}
  BY <1>6, ObjectAssumption DEF Holds, Init, EmptyNode
<1>8. Alive(gc) = {Main, Globals} /\ running = Main
  BY ObjectAssumption DEF Init, GCInit, Alive, isdead
<1>9. Safe(gc)
  <2>1. Range(gc.tmudata) = {}
    BY DEF Init, GCInit, Range
  <2> QED BY <2>1, <1>7, <1>8, ObjectAssumption DEF Safe
<1>10. Marked(gc) = {} /\ Painted(gc)
  BY DEF Marked, iswhite, Painted, Init, GCInit
<1>11. Sweeping(gc)
  BY <1>10 DEF Sweeping, Init, GCInit, isdead
<1>12. gc.state = "pause"
  BY DEF Init, GCInit
<1> QED BY <1>1, <1>2, <1>3, <1>4, <1>5, <1>9, <1>10, <1>11, <1>12 DEF IInv, TypeOK, Running

(* The references of an object, field by field.                            *)
HoldsIn(o, set) ==
  /\ kind[o] \in Tables =>
       /\ node[o].key \in Object => node[o].key \in set
       /\ node[o].val \in Object => node[o].val \in set
  /\ kind[o] = "closure" => Globals \in set /\ (upval[o] \in Object => upval[o] \in set)
  /\ kind[o] = "upval" => (Contents(o) \in Object => Contents(o) \in set)
  /\ kind[o] = "udata" => env[o] \in set
  /\ kind[o] = "thread" => \A i \in Level : stack[o][i] \in Object => stack[o][i] \in set

(* The two ways to say what an object refers to are the same.              *)
LEMMA HoldsOne ==
  ASSUME NEW o \in Object, NEW set, HeapType
  PROVE  Holds(o) \subseteq set <=> HoldsIn(o, set)
<1>1. Globals \in Object /\ env[o] \in Object
  BY KindsType DEF HeapType
<1>2. DOMAIN stack[o] = Level
  BY DEF HeapType
<1>3. CASE kind[o] \in Tables
  <2>1. Holds(o) = Object \intersect {node[o].key, node[o].val}
    BY <1>3, StrongCases DEF Holds, Tables
  <2> QED BY <2>1, <1>3 DEF HoldsIn, Tables
<1>4. CASE kind[o] \notin Tables
  <2>1. Holds(o) = Strong(o)
    BY <1>4 DEF Holds
  <2>2. CASE kind[o] = "thread"
    BY <2>1, <2>2, <1>2, <1>4, StrongCases DEF HoldsIn, Range
  <2>3. CASE kind[o] # "thread"
    BY <2>1, <2>3, <1>1, <1>4, StrongCases DEF HoldsIn, Tables
  <2> QED BY <2>2, <2>3
<1> QED BY <1>3, <1>4

(* The same for all objects and sets, in this state and the next.          *)
LEMMA HoldsFields ==
  HeapType =>
    \A o \in Object : \A set \in SUBSET Object : Holds(o) \subseteq set <=> HoldsIn(o, set)
BY HoldsOne

(* What an object refers to, field by field, in the next state.            *)
LEMMA HoldsFieldsNext ==
  HeapType' =>
    (\A o \in Object : \A set \in SUBSET Object : Holds(o) \subseteq set <=> HoldsIn(o, set))'
BY HoldsFields, PTL

(* The references of an object stay the same with its fields.              *)
LEMMA StrongStays ==
  ASSUME NEW o \in Object, kind' = kind,
         kind[o] \in Tables => node'[o] = node[o],
         kind[o] = "closure" => upval'[o] = upval[o],
         kind[o] = "upval" => Contents(o)' = Contents(o),
         kind[o] = "udata" => env'[o] = env[o],
         kind[o] = "thread" => stack'[o] = stack[o]
  PROVE  Strong(o)' = Strong(o)
<1>1. CASE kind[o] = "table"
  BY <1>1 DEF Strong, Tables
<1>2. CASE kind[o] = "weakkeys"
  BY <1>2 DEF Strong, Tables
<1>3. CASE kind[o] = "weakvalues"
  BY <1>3 DEF Strong, Tables
<1>4. CASE kind[o] = "closure"
  BY <1>4 DEF Strong, Tables
<1>5. CASE kind[o] = "upval"
  BY <1>5 DEF Strong, Tables
<1>6. CASE kind[o] = "udata"
  BY <1>6 DEF Strong, Tables
<1>7. CASE kind[o] = "thread"
  BY <1>7 DEF Strong, Tables, Range
<1>8. CASE kind[o] \notin Tables \union {"closure", "upval", "udata", "thread"}
  BY <1>8 DEF Strong, Tables
<1> QED BY <1>1, <1>2, <1>3, <1>4, <1>5, <1>6, <1>7, <1>8 DEF Tables
-----------------------------------------------------------------------------
(* What the scripts do without a barrier.  They make objects, they may     *)
(* bring back what is condemned if all it holds is alive, they put what is *)
(* alive in the stacks of threads.                                         *)
Made == exists' \ exists

(* The steps without a barrier keep the invariant.                         *)
LEMMA Steps ==
  ASSUME IInv, TypeOK', ~ gc.closing, SameRest(gc, gc'),
         gc'.gray = gc.gray, gc'.grayagain = gc.grayagain, gc'.weak = gc.weak,
         kind' = kind, node' = node, env' = env, value' = value, called' = called,
         exists \subseteq exists',
         \A o \in Object :
           \/ gc'.mark[o] = gc.mark[o]
           \/ isdead(gc, o) /\ gc'.mark[o] = "white" /\ HoldsIn(o, Alive(gc)),
         \A o \in Object : \A i \in Level :
           \/ stack'[o][i] = stack[o][i]
           \/ /\ o \in exists' /\ kind[o] = "thread"
              /\ stack'[o][i] \in Object => stack'[o][i] \in Alive(gc)',
         \A o \in Made : kind[o] = "closure" =>
           upval'[o] \in Alive(gc)' /\ kind[upval'[o]] = "upval",
         \A o \in Object : o \notin Made \/ kind[o] # "closure" => upval'[o] = upval[o],
         \A o \in Object :
           \/ place'[o] = place[o]
           \/ /\ o \in Made /\ kind[o] = "upval"
              /\ \E j \in Level : place'[o] = At(running, j),
         running' \in Alive(gc)', kind[running'] = "thread"
  PROVE  IInv'
<1> DEFINE new == Made
<1>1. new \in SUBSET Object /\ new \intersect exists = {} /\ exists' = exists \union new
  BY DEF Made, TypeOK, HeapType
<1> USE <1>1
<1>2. /\ TypeOK /\ Finalizing(gc) /\ Placed /\ Blank(gc) /\ Safe(gc)
      /\ Sweeping(gc) /\ Painted(gc) /\ (gc.state = "propagate" => Marking(gc))
  BY DEF IInv, Running
<1>3. /\ HeapType /\ HeapType' /\ gc \in Collectors /\ gc' \in Collectors
      /\ exists \subseteq Object /\ running \in exists
  BY <1>2 DEF TypeOK, HeapType, Safe, Alive
<1>4. \A o \in new : /\ node[o] = EmptyNode /\ env[o] = Globals /\ place[o] = Closed
                     /\ value[o] = Nil /\ stack[o] = NoStack /\ gc'.mark[o] = "white"
  BY <1>2 DEF Blank, Placed, IsOpen, isdead
<1>5. /\ Alive(gc) \subseteq Alive(gc)' /\ new \subseteq Alive(gc)'
      /\ Marked(gc') = Marked(gc) /\ \A o \in Object : isdead(gc', o) => isdead(gc, o)
      /\ Alive(gc)' \in SUBSET Object
  <2>1. \A o \in Object : isdead(gc', o) => isdead(gc, o)
    BY DEF isdead
  <2>2. \A o \in Object : iswhite(gc', o) <=> iswhite(gc, o)
    BY DEF isdead, iswhite
  <2>3. Marked(gc') = Marked(gc)
    BY <2>2 DEF Marked
  <2>4. Alive(gc)' = {o \in exists' : ~ isdead(gc', o)}
    BY DEF Alive, isdead
  <2>5. new \subseteq Alive(gc)'
    BY <2>4, <1>4 DEF isdead
  <2>6. Alive(gc) \subseteq Alive(gc)' /\ Alive(gc)' \in SUBSET Object
    BY <2>1, <2>4, <1>3 DEF Alive, HeapType
  <2> QED BY <2>1, <2>3, <2>5, <2>6
<1>6. \A o \in Object : IsOpen(o) => IsOpen(o)' /\ place'[o] = place[o] /\ o \in exists
  BY <1>2 DEF Placed, IsOpen
<1>7. \A o \in Object : o \in new \/ place'[o] = place[o]
  OBVIOUS
<1>8. Placed'
  <2>1. ASSUME NEW o \in Object, IsOpen(o)'
        PROVE  /\ o \in exists' /\ kind'[o] = "upval"
               /\ place'[o].thread \in exists' /\ kind'[place'[o].thread] = "thread"
               /\ place'[o].level \in Level
    <3>1. CASE place'[o] = place[o]
      BY <3>1, <2>1, <1>2 DEF Placed, IsOpen
    <3>2. CASE \E j \in Level : place'[o] = At(running, j)
      <4>1. (o \in new /\ kind[o] = "upval") \/ place'[o] = place[o]
        OBVIOUS
      <4> QED BY <3>1, <3>2, <4>1, <1>2, <1>3 DEF Placed, At
    <3> QED BY <3>1, <3>2
  <2>2. \A o \in Object : kind'[env'[o]] \in Tables
    BY <1>2 DEF Placed
  <2>3. \A o \in Of("closure")' : upval'[o] \in Object /\ kind'[upval'[o]] = "upval"
    BY <1>2, <1>3, <1>5 DEF Placed, Of
  <2> QED BY <2>1, <2>2, <2>3 DEF Placed
<1>9. Blank(gc)'
  <2> SUFFICES ASSUME NEW o \in Object \ exists'
               PROVE  /\ node'[o] = EmptyNode /\ env'[o] = Globals /\ upval'[o] = Nil
                      /\ value'[o] = Nil /\ stack'[o] = NoStack /\ gc'.mark[o] = "white"
                      /\ o \notin gc'.strings /\ o \notin gc'.unswept /\ o \notin gc'.finalized
    BY DEF Blank
  <2>1. o \notin new /\ o \notin exists
    OBVIOUS
  <2>2. \A i \in Level : stack'[o][i] = stack[o][i]
    OBVIOUS
  <2>3. stack'[o] = stack[o]
    BY <2>2, <1>3 DEF HeapType
  <2> QED BY <2>1, <2>3, <1>2 DEF Blank, SameRest, isdead
<1>10. \A o \in Alive(gc)' : HoldsIn(o, Alive(gc))
  <2>1. \A o \in Alive(gc) : HoldsIn(o, Alive(gc))
    <3>1. Alive(gc) \in SUBSET Object
      BY <1>3 DEF Alive
    <3> QED BY <3>1, <1>2, <1>3, HoldsFields DEF Safe
  <2>2. ASSUME NEW o \in new PROVE HoldsIn(o, Alive(gc))
    <3>1. \A i \in Level : stack[o][i] = Nil
      BY <1>4 DEF NoStack
    <3>2. Contents(o) = Nil
      BY <1>4 DEF Contents, IsOpen
    <3>3. upval[o] = Nil
      BY <1>2 DEF Blank
    <3>4. Globals \in Alive(gc)
      BY <1>2 DEF Safe
    <3> QED BY <1>4, <3>1, <3>2, <3>3, <3>4, ObjectAssumption DEF HoldsIn, EmptyNode
  <2>3. \A o \in Alive(gc)' : o \in Alive(gc) \/ o \in new \/ gc'.mark[o] # gc.mark[o]
    BY DEF Alive, isdead
  <2> QED BY <2>1, <2>2, <2>3, <1>5
<1>11. \A o \in Alive(gc)' : HoldsIn(o, Alive(gc))'
  <2> SUFFICES ASSUME NEW o \in Alive(gc)' PROVE HoldsIn(o, Alive(gc))'
    OBVIOUS
  <2>1. o \in Object /\ HoldsIn(o, Alive(gc))
    BY <1>5, <1>10
  <2>2. \A i \in Level : stack'[o][i] \in Object /\ kind[o] = "thread" =>
                           stack'[o][i] \in Alive(gc)'
    BY <2>1, <1>5 DEF HoldsIn
  <2>3. kind[o] = "closure" /\ upval'[o] \in Object => upval'[o] \in Alive(gc)'
    BY <2>1, <1>5 DEF HoldsIn
  <2>4. ASSUME kind[o] = "upval", Contents(o)' \in Object PROVE Contents(o)' \in Alive(gc)'
    <3>1. CASE ~ IsOpen(o)'
      <4>1. Contents(o)' = value'[o] /\ ~ IsOpen(o)
        BY <3>1, <2>1, <1>6 DEF Contents
      <4> QED BY <4>1, <2>1, <2>4, <1>5 DEF Contents, HoldsIn
    <3>2. CASE IsOpen(o)'
      <4> DEFINE t == place'[o].thread
                 i == place'[o].level
      <4>1. t \in Object /\ i \in Level /\ Contents(o)' = stack'[t][i]
        BY <3>2, <2>1, <1>3, <1>8 DEF Placed, HeapType, Contents
      <4>2. CASE stack'[t][i] # stack[t][i]
        BY <4>1, <4>2, <2>4
      <4>3. CASE stack'[t][i] = stack[t][i] /\ place'[o] = place[o]
        <5>1. Contents(o) = stack[t][i]
          BY <4>3, <3>2 DEF Contents, IsOpen
        <5> QED BY <5>1, <4>1, <4>3, <2>1, <2>4, <1>5 DEF HoldsIn
      <4>4. CASE stack'[t][i] = stack[t][i] /\ \E j \in Level : place'[o] = At(running, j)
        <5>1. t = running /\ kind[running] = "thread"
          BY <4>4, <1>2 DEF At, Placed
        <5>2. HoldsIn(running, Alive(gc))
          BY <1>5, <1>10, <1>2 DEF Safe
        <5> QED BY <5>1, <5>2, <4>1, <4>4, <2>4, <1>5 DEF HoldsIn
      <4> QED BY <4>2, <4>3, <4>4, <2>1
    <3> QED BY <3>1, <3>2
  <2> QED BY <2>1, <2>2, <2>3, <2>4, <1>5 DEF HoldsIn
<1>12. Safe(gc)'
  <2>1. \A o \in Alive(gc)' : Holds(o)' \subseteq Alive(gc)'
    BY <1>3, <1>5, <1>11, HoldsFieldsNext
  <2>2. {Main, Globals, running'} \subseteq Alive(gc)' /\ Range(gc'.tmudata) \subseteq Alive(gc)'
    BY <1>2, <1>5 DEF Safe, SameRest
  <2> QED BY <2>1, <2>2 DEF Safe
<1>13. \A set \in SUBSET Object : OpenIn(set) \subseteq OpenIn(set)'
  <2>1. \A th, uv \in Object : uv \in OpenFrom(th, 1) => uv \in OpenFrom(th, 1)'
    BY <1>7, <1>3 DEF OpenFrom, Of
  <2>2. \A th \in Object : OpenFrom(th, 1) \subseteq Object
    BY <1>3 DEF OpenFrom, Of
  <2> QED BY <2>1, <2>2 DEF OpenIn
<1>14. LeftToSweep(gc) \subseteq LeftToSweep(gc)'
  BY <1>13, <1>3 DEF LeftToSweep, SameRest, Collectors
<1>15. Sweeping(gc)'
  <2>1. \A o \in Object : isdead(gc', o) =>
          o \in LeftToSweep(gc)' /\ (kind'[o] = "udata" => o \in called'.done)
    BY <1>2, <1>5, <1>14 DEF Sweeping
  <2>2. gc'.state # "propagate" => Marked(gc') \subseteq LeftToSweep(gc)' \union Range(gc'.tmudata)
    BY <1>2, <1>5, <1>14 DEF Sweeping, SameRest
  <2>3. \A o \in gc'.unswept : o \in exists' /\ ~ IsOpen(o)'
    BY <1>2, <1>7, <1>3 DEF Sweeping, SameRest, IsOpen, Collectors
  <2>4. Marked(gc)' = Marked(gc')
    BY DEF Marked, iswhite
  <2>5. \A o \in Object : isdead(gc, o)' = isdead(gc', o)
    BY DEF isdead
  <2> QED BY <1>2, <2>1, <2>2, <2>3, <2>4, <2>5 DEF Sweeping, SameRest
<1>16. Painted(gc)'
  <2>1. ASSUME NEW o \in Object, IsOpen(o)' PROVE gc'.mark[o] # "black"
    BY <2>1, <1>2, <1>4, <1>7 DEF Painted, IsOpen
  <2> QED BY <2>1, <1>2 DEF Painted
<1>17. Finalizing(gc)'
  BY <1>2 DEF Finalizing, SameRest
<1>18. ASSUME gc'.state = "propagate" PROVE Marking(gc)'
  <2>1. Marking(gc) /\ Lists(gc') = Lists(gc) /\ gc'.tmudata = gc.tmudata
    BY <1>18, <1>2 DEF SameRest, Lists
  <2>2. \A o \in Object : gc'.mark[o] = "gray" <=> gc.mark[o] = "gray"
    BY DEF isdead
  <2>3. \A o \in Object : Listed(o)' <=> Listed(o)
    BY DEF Listed, Tables
  <2>4. \A o \in Lists(gc') : gc'.mark[o] = "gray" /\ Listed(o)'
    BY <2>1, <2>2, <2>3, <1>3 DEF Marking, Listing, Lists, Collectors
  <2>5. \A o \in Object : gc'.mark[o] = "gray" =>
          o \in Lists(gc') \/ IsOpen(o)' \/ kind'[o] \in {"string", "none"}
    BY <2>1, <2>2, <1>6 DEF Marking, Listing
  <2>6. ASSUME NEW o \in Marked(gc') \ Pending(gc)' PROVE Strong(o)' \subseteq Marked(gc')
    <3>1. o \in Marked(gc) \ Pending(gc) /\ o \in Object
      BY <2>6, <2>1, <1>5, <1>6 DEF Pending, Marked, SameRest, Lists
    <3>2. o \notin new
      BY <3>1, <1>4, <1>5 DEF Marked, iswhite
    <3>3. kind[o] # "thread"
      BY <3>1, <2>1 DEF Marking, Listing, Pending, Lists
    <3>4. ~ IsOpen(o) /\ ~ IsOpen(o)'
      BY <3>1, <3>2, <1>7 DEF Pending, IsOpen
    <3>5. Contents(o)' = Contents(o)
      BY <3>4 DEF Contents
    <3>6. Strong(o)' = Strong(o)
      BY <3>1, <3>2, <3>3, <3>5, StrongStays
    <3> QED BY <3>1, <3>6, <2>1, <1>5 DEF Marking, BlackBut
  <2>7. Marked(gc)' = Marked(gc') /\ Lists(gc)' = Lists(gc')
    BY DEF Marked, iswhite, Lists
  <2>8. Listing(gc)'
    BY <2>1, <2>4, <2>5, <2>7, <1>5 DEF Listing, Marking
  <2>9. BlackBut(gc, Pending(gc))'
    BY <2>6, <2>7 DEF BlackBut
  <2> QED BY <2>1, <2>7, <2>8, <2>9, <1>5 DEF Marking
<1> QED BY <1>8, <1>9, <1>12, <1>15, <1>16, <1>17, <1>18 DEF IInv, Running

(* What the running script has at hand is alive.                           *)
LEMMA AtHand ==
  ASSUME IInv, ~ gc.closing
  PROVE  /\ HeapType /\ gc \in Collectors /\ Alive(gc) \in SUBSET Object
         /\ running \in Alive(gc) /\ Globals \in Alive(gc) /\ kind[running] = "thread"
         /\ \A o \in Alive(gc) : HoldsIn(o, Alive(gc))
         /\ \A i \in Level : Here[i] \in Values /\ (Here[i] \in Object => Here[i] \in Alive(gc))
         /\ \A v \in Range(Here) : v \in Object => v \in Alive(gc)
<1>1. HeapType /\ gc \in Collectors /\ Safe(gc) /\ Placed
  BY DEF IInv, Running, TypeOK
<1>2. Alive(gc) \in SUBSET Object
  BY <1>1 DEF HeapType, Alive
<1>3. \A o \in Alive(gc) : HoldsIn(o, Alive(gc))
  BY <1>1, <1>2, HoldsFields DEF Safe
<1>4. running \in Alive(gc) /\ Globals \in Alive(gc) /\ kind[running] = "thread"
  BY <1>1 DEF Safe, Placed
<1>5. \A i \in Level : Here[i] \in Values
  BY <1>1 DEF HeapType, Here
<1>6. \A i \in Level : Here[i] \in Object => Here[i] \in Alive(gc)
  BY <1>3, <1>4 DEF HoldsIn, Here
<1>7. \A v \in Range(Here) : \E i \in Level : v = Here[i]
  BY <1>1 DEF Range, HeapType, Here
<1> QED BY <1>1, <1>2, <1>3, <1>4, <1>5, <1>6, <1>7

(* What a closure that is alive reads from its upvalue is alive.           *)
LEMMA UpvalueAtHand ==
  ASSUME IInv, ~ gc.closing, NEW c \in Alive(gc), kind[c] = "closure"
  PROVE  /\ upval[c] \in Alive(gc) /\ kind[upval[c]] = "upval"
         /\ Contents(upval[c]) \in Values
         /\ Contents(upval[c]) \in Object => Contents(upval[c]) \in Alive(gc)
<1>1. HeapType /\ Placed
  BY DEF IInv, Running, TypeOK
<1>2. upval[c] \in Object /\ kind[upval[c]] = "upval"
  BY <1>1 DEF Placed, Of, Alive
<1>3. upval[c] \in Alive(gc)
  BY <1>2, AtHand DEF HoldsIn
<1>4. Contents(upval[c]) \in Values
  BY <1>1, <1>2 DEF Contents, Placed, HeapType
<1> QED BY <1>2, <1>3, <1>4, AtHand DEF HoldsIn

(* One level of one stack is written.                                      *)
LEMMA PutFields ==
  ASSUME HeapType, NEW th \in Object, NEW i \in Level, NEW v \in Values,
         stack' = [stack EXCEPT ![th][i] = v]
  PROVE  /\ stack' \in [Object -> [Level -> Values]]
         /\ stack'[th][i] = v
         /\ \A o \in Object : \A k \in Level :
              stack'[o][k] = stack[o][k] \/ (o = th /\ k = i)
BY DEF HeapType

(* A value is put into the stack of a thread, nothing else happens.        *)
LEMMA StackStep ==
  ASSUME IInv, ~ gc.closing, UNCHANGED <<kind, exists, node, env, upval, place, value, gc, called>>,
         NEW th \in exists, kind[th] = "thread", NEW i \in Level,
         NEW v \in Values, v \in Object => v \in Alive(gc),
         stack' = [stack EXCEPT ![th][i] = v],
         running' \in Alive(gc), kind[running'] = "thread"
  PROVE  IInv'
<1>1. HeapType /\ gc \in Collectors /\ Alive(gc) \in SUBSET Object
  BY AtHand
<1>2. /\ stack' \in [Object -> [Level -> Values]]
      /\ stack'[th][i] = v
      /\ \A o \in Object : \A k \in Level : stack'[o][k] = stack[o][k] \/ (o = th /\ k = i)
  BY <1>1, PutFields DEF HeapType
<1>3. TypeOK'
  BY <1>1, <1>2 DEF TypeOK, HeapType, Values, Collectors
<1>4. Alive(gc)' = Alive(gc) /\ SameRest(gc, gc')
  BY DEF Alive, isdead, SameRest
<1>5. \A o \in Object : \A k \in Level :
           \/ stack'[o][k] = stack[o][k]
           \/ /\ o \in exists' /\ kind[o] = "thread"
              /\ stack'[o][k] \in Object => stack'[o][k] \in Alive(gc)'
  BY <1>2, <1>4
<1>6. Made = {} /\ running' \in Alive(gc)'
  BY <1>4 DEF Made
<1> QED BY <1>3, <1>4, <1>5, <1>6, Steps

(* A level of the stack is cleared.                                        *)
LEMMA DropStep ==
  ASSUME IInv, NEW i \in Level, Drop(i) PROVE IInv'
<1>1. ~ gc.closing /\ Nil \in Values /\ Nil \notin Object
  BY ObjectAssumption DEF Drop, Runs, Values
<1>2. stack' = [stack EXCEPT ![running][i] = Nil] /\ running' = running
      /\ UNCHANGED <<kind, exists, node, env, upval, place, value, gc, called>>
  BY DEF Drop
<1> QED BY <1>1, <1>2, AtHand, StackStep DEF Alive

(* What a table holds can be reached, and is put in a stack.               *)
LEMMA GetTableStep ==
  ASSUME IInv, NEW t \in TableObjects, NEW i \in Level, GetTable(t, i) PROVE IInv'
<1>1. ~ gc.closing
  BY DEF GetTable, Runs
<1>2. PICK v \in {node[t].key, node[t].val} \intersect Object :
        stack' = [stack EXCEPT ![running][i] = v]
  BY DEF GetTable, Put
<1>3. t \in Alive(gc) /\ kind[t] \in Tables
  BY <1>1, AtHand DEF GetTable, TableObjects, HeapType
<1>4. v \in Values /\ v \in Alive(gc)
  BY <1>1, <1>2, <1>3, AtHand DEF HoldsIn, HeapType
<1>5. running' = running
      /\ UNCHANGED <<kind, exists, node, env, upval, place, value, gc, called>>
  BY DEF GetTable
<1> QED BY <1>1, <1>2, <1>4, <1>5, AtHand, StackStep DEF Alive

(* So is the value of an upvalue of a closure that can be reached.         *)
LEMMA GetUpvalStep ==
  ASSUME IInv, NEW c \in Of("closure"), NEW i \in Level, GetUpval(c, i) PROVE IInv'
<1>1. ~ gc.closing
  BY DEF GetUpval, Runs
<1>2. stack' = [stack EXCEPT ![running][i] = Contents(upval[c])] /\ running' = running
      /\ UNCHANGED <<kind, exists, node, env, upval, place, value, gc, called>>
  BY DEF GetUpval, Put
<1>3. c \in Alive(gc) /\ kind[c] = "closure"
  BY <1>1, AtHand DEF GetUpval, Of, HeapType
<1>4. /\ Contents(upval[c]) \in Values
      /\ Contents(upval[c]) \in Object => Contents(upval[c]) \in Alive(gc)
  BY <1>1, <1>3, UpvalueAtHand
<1> QED BY <1>1, <1>2, <1>4, AtHand, StackStep DEF Alive

(* A coroutine that can be reached runs with a value of the main thread.   *)
LEMMA ResumeStep ==
  ASSUME IInv, NEW co \in Of("thread"), NEW i \in Level, Resume(co, i) PROVE IInv'
<1>1. ~ gc.closing
  BY DEF Resume, Runs
<1>2. stack' = [stack EXCEPT ![co][1] = Here[i]] /\ running' = co
      /\ UNCHANGED <<kind, exists, node, env, upval, place, value, gc, called>>
  BY DEF Resume
<1>3. co \in Alive(gc) /\ kind[co] = "thread"
  BY <1>1, AtHand DEF Resume, Of, HeapType
<1>4. running' \in Alive(gc) /\ kind[running'] = "thread" /\ 1 \in Level
  BY <1>2, <1>3, LevelAssumption
<1>5. Here[i] \in Values /\ (Here[i] \in Object => Here[i] \in Alive(gc))
  BY <1>1, AtHand
<1> QED BY <1>1, <1>2, <1>3, <1>4, <1>5, StackStep DEF Alive

(* The main thread runs again with a value of the coroutine.               *)
LEMMA YieldStep ==
  ASSUME IInv, NEW i \in Level, NEW j \in Level, Yield(i, j) PROVE IInv'
<1>1. ~ gc.closing
  BY DEF Yield, Runs
<1>2. stack' = [stack EXCEPT ![Main][j] = Here[i]] /\ running' = Main
      /\ UNCHANGED <<kind, exists, node, env, upval, place, value, gc, called>>
  BY DEF Yield
<1>3. Main \in Alive(gc) /\ kind[Main] = "thread"
  BY <1>1, KindsType DEF IInv, Running, Safe, TypeOK
<1>4. running' \in Alive(gc) /\ kind[running'] = "thread"
  BY <1>2, <1>3
<1>5. Here[i] \in Values /\ (Here[i] \in Object => Here[i] \in Alive(gc))
  BY <1>1, AtHand
<1> QED BY <1>1, <1>2, <1>3, <1>4, <1>5, StackStep DEF Alive

(* New objects, put into the stack of the running thread.                  *)
LEMMA NewStep ==
  ASSUME IInv, NEW o \in Object, NEW i \in Level, New(o, i) PROVE IInv'
<1>1. /\ ~ gc.closing /\ o \notin exists /\ exists' = exists \union {o}
      /\ kind[o] \in Tables \union {"thread", "udata"}
      /\ stack' = [stack EXCEPT ![running][i] = o]
      /\ UNCHANGED <<kind, node, env, upval, place, value, running, gc, called>>
  BY DEF New, Runs, Born, Put
<1>2. Made = {o} /\ o \in Values
  BY <1>1 DEF Made, Values, Tables
<1>3. HeapType /\ gc \in Collectors /\ running \in Alive(gc) /\ kind[running] = "thread"
  BY <1>1, AtHand
<1>4. /\ stack' \in [Object -> [Level -> Values]]
      /\ stack'[running][i] = o
      /\ \A p \in Object : \A k \in Level : stack'[p][k] = stack[p][k] \/ (p = running /\ k = i)
  BY <1>1, <1>2, <1>3, PutFields DEF HeapType
<1>5. TypeOK'
  BY <1>1, <1>3, <1>4 DEF TypeOK, HeapType, Values, Collectors
<1>6. gc.mark[o] = "white"
  BY <1>1 DEF IInv, Running, Blank
<1>7. Alive(gc)' = Alive(gc) \union {o} /\ SameRest(gc, gc')
  BY <1>1, <1>6 DEF Alive, isdead, SameRest
<1>8. \A p \in Object : \A k \in Level :
           \/ stack'[p][k] = stack[p][k]
           \/ /\ p \in exists' /\ kind[p] = "thread"
              /\ stack'[p][k] \in Object => stack'[p][k] \in Alive(gc)'
  BY <1>1, <1>3, <1>4, <1>7 DEF Alive
<1>9. \A p \in Made : kind[p] # "closure"
  BY <1>1, <1>2 DEF Tables
<1> QED BY <1>1, <1>3, <1>5, <1>7, <1>8, <1>9, Steps

(* A string: a dead one is brought back.                                   *)
LEMMA InternStep ==
  ASSUME IInv, NEW s \in Object, NEW i \in Level, Intern(s, i) PROVE IInv'
<1>1. /\ ~ gc.closing /\ kind[s] = "string"
      /\ stack' = [stack EXCEPT ![running][i] = s]
      /\ UNCHANGED <<kind, node, env, upval, place, value, running, called>>
      /\ \/ s \in exists /\ gc' = Resurrect(gc, s) /\ exists' = exists
         \/ s \notin exists /\ exists' = exists \union {s} /\ gc' = gc
  BY DEF Intern, Runs, Born, Put
<1>2. s \in Values /\ exists \subseteq exists' /\ Made \subseteq {s} /\ s \in exists'
  BY <1>1 DEF Made, Values
<1>3. HeapType /\ gc \in Collectors /\ running \in Alive(gc) /\ kind[running] = "thread"
  BY <1>1, AtHand
<1>4. /\ stack' \in [Object -> [Level -> Values]]
      /\ stack'[running][i] = s
      /\ \A p \in Object : \A k \in Level : stack'[p][k] = stack[p][k] \/ (p = running /\ k = i)
  BY <1>1, <1>2, <1>3, PutFields DEF HeapType
<1>5. gc' = gc \/ (isdead(gc, s) /\ gc' = [gc EXCEPT !.mark[s] = "white"])
  BY <1>1 DEF Resurrect, makewhite, Paint
<1>6. /\ gc' \in Collectors /\ SameRest(gc, gc')
      /\ gc'.gray = gc.gray /\ gc'.grayagain = gc.grayagain /\ gc'.weak = gc.weak
      /\ \A o \in Object : \/ gc'.mark[o] = gc.mark[o]
                           \/ o = s /\ isdead(gc, o) /\ gc'.mark[o] = "white"
  BY <1>3, <1>5 DEF Collectors, SameRest
<1>7. HoldsIn(s, Alive(gc))
  BY <1>1 DEF HoldsIn, Tables
<1>8. TypeOK'
  BY <1>1, <1>3, <1>4, <1>6 DEF TypeOK, HeapType, Values, Collectors
<1>9. gc'.mark[s] # "dead"
  BY <1>1, <1>3 DEF Resurrect, makewhite, Paint, IInv, Running, Blank, isdead, Collectors
<1>10. Alive(gc)' = {o \in exists' : gc'.mark[o] # "dead"}
  BY DEF Alive, isdead
<1>11. s \in Alive(gc)' /\ running \in Alive(gc)'
  BY <1>2, <1>3, <1>6, <1>9, <1>10 DEF Alive, isdead, HeapType
<1>12. \A p \in Object : \A k \in Level :
           \/ stack'[p][k] = stack[p][k]
           \/ /\ p \in exists' /\ kind[p] = "thread"
              /\ stack'[p][k] \in Object => stack'[p][k] \in Alive(gc)'
  BY <1>1, <1>3, <1>4, <1>11, <1>10
<1>13. \A p \in Made : kind[p] # "closure"
  BY <1>1, <1>2
<1> QED BY <1>1, <1>2, <1>3, <1>6, <1>7, <1>8, <1>11, <1>12, <1>13, Steps

(* A closure, with the open upvalue there is or a new one.                 *)
LEMMA ClosureStep ==
  ASSUME IInv, NEW c \in Object, NEW i \in Level, NEW j \in Level, Closure(c, i, j) PROVE IInv'
<1>1. /\ ~ gc.closing /\ kind[c] = "closure"
      /\ stack' = [stack EXCEPT ![running][i] = c]
      /\ UNCHANGED <<kind, node, env, value, running, called>>
  BY DEF Closure, Runs, Put
<1>2. PICK uv \in Object :
        /\ kind[uv] = "upval"
        /\ upval' = [upval EXCEPT ![c] = uv] /\ place' = [place EXCEPT ![uv] = At(running, j)]
        /\ c \notin exists
        /\ \/ uv \notin exists /\ exists' = exists \union {c, uv} /\ gc' = gc
           \/ /\ exists' = exists \union {c} /\ gc' = Resurrect(gc, uv)
              /\ uv \in OpenFrom(running, j) /\ place[uv].level = j
  BY DEF Closure, Born
<1>3. /\ HeapType /\ gc \in Collectors /\ running \in Alive(gc) /\ kind[running] = "thread"
      /\ exists \subseteq Object
  BY <1>1, AtHand DEF HeapType
<1>4. c \in Values /\ c \in Made /\ exists \subseteq exists' /\ Made \subseteq {c, uv}
  BY <1>1, <1>2 DEF Made, Values
<1>5. /\ stack' \in [Object -> [Level -> Values]]
      /\ stack'[running][i] = c
      /\ \A p \in Object : \A k \in Level : stack'[p][k] = stack[p][k] \/ (p = running /\ k = i)
  BY <1>1, <1>3, <1>4, PutFields DEF HeapType
<1>6. gc' = gc \/ (isdead(gc, uv) /\ gc' = [gc EXCEPT !.mark[uv] = "white"])
  BY <1>2 DEF Resurrect, makewhite, Paint
<1>7. /\ gc' \in Collectors /\ SameRest(gc, gc')
      /\ gc'.gray = gc.gray /\ gc'.grayagain = gc.grayagain /\ gc'.weak = gc.weak
      /\ \A o \in Object : \/ gc'.mark[o] = gc.mark[o]
                           \/ o = uv /\ isdead(gc, o) /\ gc'.mark[o] = "white"
  BY <1>3, <1>6 DEF Collectors, SameRest
<1>8. uv \in Made \/ place[uv] = At(running, j)
  <2>1. CASE uv \in exists
    <3>1. place[uv].thread = running /\ place[uv].level = j
      BY <1>2, <2>1 DEF OpenFrom
    <3> QED BY <3>1, <1>3 DEF HeapType, At
  <2>2. CASE uv \notin exists
    BY <1>2, <2>2 DEF OpenFrom, Of, Made
  <2> QED BY <2>1, <2>2
<1>9. uv \in exists => HoldsIn(uv, Alive(gc))
  <2>1. HoldsIn(running, Alive(gc))
    BY <1>1, AtHand
  <2>2. ASSUME uv \in exists
        PROVE  Contents(uv) = stack[running][j]
    BY <2>2, <1>8, ObjectAssumption, <1>3 DEF Made, Contents, IsOpen, Closed, At, HeapType
  <2> QED BY <1>2, <1>3, <2>1, <2>2 DEF HoldsIn, Tables
<1>10. TypeOK'
  <2>1. place' \in [Object -> [thread : Object \union {Nil}, level : Nat]]
    BY <1>2, <1>3, LevelNumbers DEF HeapType, At
  <2>2. upval' \in [Object -> Object \union {Nil}] /\ exists' \subseteq Object
    BY <1>2, <1>3 DEF HeapType
  <2> QED BY <2>1, <2>2, <1>1, <1>3, <1>5, <1>7 DEF TypeOK, HeapType, Values, Collectors
<1>11. gc'.mark[c] # "dead" /\ gc'.mark[uv] # "dead" /\ uv \in exists'
  BY <1>1, <1>2, <1>3
  DEF Resurrect, makewhite, Paint, IInv, Running, Blank, isdead, Collectors, OpenFrom, Of
<1>12. Alive(gc)' = {o \in exists' : gc'.mark[o] # "dead"}
  BY DEF Alive, isdead
<1>13. c \in Alive(gc)' /\ uv \in Alive(gc)' /\ running \in Alive(gc)'
  BY <1>3, <1>4, <1>7, <1>11, <1>12 DEF Alive, isdead, HeapType, Made
<1>14. \A p \in Object : \A k \in Level :
           \/ stack'[p][k] = stack[p][k]
           \/ /\ p \in exists' /\ kind[p] = "thread"
              /\ stack'[p][k] \in Object => stack'[p][k] \in Alive(gc)'
  BY <1>1, <1>3, <1>5, <1>12, <1>13
<1>15. \A p \in Made : kind[p] = "closure" =>
           upval'[p] \in Alive(gc)' /\ kind[upval'[p]] = "upval"
  BY <1>1, <1>2, <1>3, <1>4, <1>13 DEF HeapType
<1>16. \A p \in Object : p \notin Made \/ kind[p] # "closure" => upval'[p] = upval[p]
  BY <1>1, <1>2, <1>3, <1>4 DEF HeapType
<1>17. \A p \in Object : \/ place'[p] = place[p]
                         \/ /\ p \in Made /\ kind[p] = "upval"
                            /\ \E k \in Level : place'[p] = At(running, k)
  BY <1>2, <1>3, <1>8 DEF HeapType
<1>18. \A o \in Object : \/ gc'.mark[o] = gc.mark[o]
                         \/ isdead(gc, o) /\ gc'.mark[o] = "white" /\ HoldsIn(o, Alive(gc))
  <2>1. isdead(gc, uv) => uv \in exists
    BY <1>1 DEF IInv, Running, Blank, isdead
  <2> QED BY <2>1, <1>7, <1>9
<1> QED BY <1>1, <1>3, <1>4, <1>7, <1>10, <1>13, <1>14, <1>15, <1>16, <1>17, <1>18, Steps

-----------------------------------------------------------------------------
(* What the scripts do behind a barrier: the fields of one object change.  *)
LEMMA WriteStep ==
  ASSUME IInv, TypeOK', ~ gc.closing, SameRest(gc, gc'),
         UNCHANGED <<kind, exists, upval, place, stack, running, called>>,
         NEW x \in exists, HoldsIn(x, Alive(gc))',
         \A o \in Object : kind[env'[o]] \in Tables,
         \A o \in Object : o # x => /\ node'[o] = node[o] /\ env'[o] = env[o]
                                    /\ value'[o] = value[o],
         Painted(gc'),
         \A o \in Object : \/ gc'.mark[o] = gc.mark[o]
                           \/ o \in exists /\ ~ isdead(gc, o) /\ ~ isdead(gc', o),
         gc.state # "propagate" => Marked(gc') \subseteq Marked(gc),
         gc.state = "propagate" => /\ Listing(gc') /\ Marked(gc) \subseteq Marked(gc')
                                   /\ \A o \in Marked(gc') \ Pending(gc') :
                                        o # x => Strong(o) \subseteq Marked(gc')
                                   /\ x \in Marked(gc') \ Pending(gc') =>
                                        Strong(x)' \subseteq Marked(gc')
  PROVE  IInv'
<1>1. /\ TypeOK /\ Finalizing(gc) /\ Placed /\ Blank(gc) /\ Safe(gc)
      /\ Sweeping(gc) /\ Painted(gc) /\ (gc.state = "propagate" => Marking(gc))
  BY DEF IInv, Running
<1>2. HeapType /\ HeapType' /\ gc \in Collectors /\ exists \subseteq Object
  BY <1>1 DEF TypeOK, HeapType
<1>3. /\ \A o \in Object : isdead(gc', o) <=> isdead(gc, o)
      /\ \A o \in Object : isdead(gc, o)' <=> isdead(gc, o)
  BY DEF isdead
<1>4. Alive(gc)' = Alive(gc) /\ Alive(gc) \in SUBSET Object
  BY <1>2, <1>3 DEF Alive
<1>5. Placed'
  BY <1>1 DEF Placed, IsOpen, Of
<1>6. Blank(gc)'
  BY <1>1 DEF Blank, SameRest
<1>7. \A o \in Object : o # x /\ HoldsIn(o, Alive(gc)) => HoldsIn(o, Alive(gc))'
  BY <1>4 DEF HoldsIn, Contents, IsOpen, Closed
<1>8. \A o \in Alive(gc) : Holds(o)' \subseteq Alive(gc)'
  <2>1. \A o \in Alive(gc) : HoldsIn(o, Alive(gc))
    BY <1>1, <1>2, <1>4, HoldsFields DEF Safe
  <2> QED BY <2>1, <1>2, <1>4, <1>7, HoldsFieldsNext
<1>9. Safe(gc)'
  BY <1>1, <1>4, <1>8 DEF Safe, SameRest
<1>10. LeftToSweep(gc)' = LeftToSweep(gc)
  BY DEF LeftToSweep, SameRest, OpenIn, OpenFrom, Of
<1>11. Sweeping(gc)'
  <2>1. Marked(gc)' = Marked(gc')
    BY DEF Marked, iswhite
  <2>2. gc'.state # "propagate" => Marked(gc') \subseteq LeftToSweep(gc) \union Range(gc'.tmudata)
    BY <1>1 DEF Sweeping, SameRest
  <2>3. \A o \in Object : isdead(gc, o)' =>
          o \in LeftToSweep(gc)' /\ (kind'[o] = "udata" => o \in called'.done)
    BY <1>1, <1>3, <1>10 DEF Sweeping
  <2>4. \A o \in gc'.unswept : o \in exists' /\ ~ IsOpen(o)'
    BY <1>1 DEF Sweeping, SameRest, IsOpen, Closed
  <2> QED BY <2>1, <2>2, <2>3, <2>4, <1>1, <1>10 DEF Sweeping, SameRest
<1>12. Painted(gc)'
  BY DEF Painted, IsOpen, Closed
<1>13. Finalizing(gc)'
  BY <1>1 DEF Finalizing, SameRest
<1>14. ASSUME gc'.state = "propagate" PROVE Marking(gc)'
  <2>1. Marking(gc) /\ gc.state = "propagate"
    BY <1>14, <1>1 DEF SameRest
  <2>2. Marked(gc)' = Marked(gc') /\ Pending(gc)' = Pending(gc') /\ Lists(gc)' = Lists(gc')
    BY DEF Marked, iswhite, Pending, Lists, IsOpen, Closed
  <2>3. Listing(gc)'
    <3>1. \A o \in Object : /\ (Listed(o)' <=> Listed(o))
                            /\ (IsOpen(o)' <=> IsOpen(o))
      BY DEF Listed, Tables, IsOpen, Closed
    <3>2. \A o \in Lists(gc') : gc'.mark[o] = "gray" /\ Listed(o)'
      BY <3>1, <2>1 DEF Listing, Listed, Tables
    <3> QED BY <2>1, <2>2, <3>1, <3>2 DEF Listing
  <2>4. ASSUME NEW o \in Marked(gc') \ Pending(gc') PROVE Strong(o)' \subseteq Marked(gc')
    <3>1. CASE o = x
      BY <2>4, <2>1, <3>1
    <3>2. CASE o # x
      <4>1. o \in Object
        BY <2>4 DEF Marked
      <4>2. Contents(o)' = Contents(o)
        BY <3>2, <4>1 DEF Contents, IsOpen, Closed
      <4>3. Strong(o)' = Strong(o)
        BY <3>2, <4>1, <4>2, StrongStays
      <4> QED BY <4>3, <2>1, <2>4, <3>2
    <3> QED BY <3>1, <3>2
  <2> QED BY <2>1, <2>2, <2>3, <2>4 DEF Marking, BlackBut
<1> QED BY <1>5, <1>6, <1>9, <1>11, <1>12, <1>13, <1>14 DEF IInv, Running

(* What is there is closed under references in the mark phase, in which    *)
(* nothing is condemned.                                                   *)
LEMMA NothingCondemned ==
  ASSUME IInv, ~ gc.closing, gc.state \notin {"sweepstring", "sweep"}
  PROVE  /\ \A o \in Object : ~ isdead(gc, o)
         /\ Alive(gc) = exists /\ Marked(gc) \subseteq exists /\ exists \in SUBSET Object
         /\ \A o \in exists : Strong(o) \subseteq exists
<1>1. HeapType /\ gc \in Collectors /\ Safe(gc) /\ Blank(gc) /\ Sweeping(gc)
  BY DEF IInv, Running, TypeOK
<1>2. LeftToSweep(gc) = {}
  BY <1>1 DEF Sweeping, LeftToSweep, OpenIn
<1>3. \A o \in Object : ~ isdead(gc, o)
  BY <1>1, <1>2 DEF Sweeping
<1>4. Alive(gc) = exists /\ exists \in SUBSET Object
  BY <1>1, <1>3 DEF Alive, HeapType
<1>5. Marked(gc) \subseteq exists
  BY <1>1 DEF Blank, Marked, iswhite
<1>6. \A o \in exists : Strong(o) \subseteq exists
  BY <1>1, <1>4, StrongType DEF Safe
<1> QED BY <1>3, <1>4, <1>5, <1>6

(* The barrier of a field of x that is given the value v.                  *)
LEMMA Barrier ==
  ASSUME IInv, ~ gc.closing, NEW x \in exists, NEW v, v \in Object => v \in Alive(gc),
         NEW g2, g2 = luaC_barrier(gc, x, v)
  PROVE  /\ g2 \in Collectors /\ SameRest(gc, g2) /\ Painted(g2)
         /\ \A o \in Object : \/ g2.mark[o] = gc.mark[o]
                              \/ o \in exists /\ ~ isdead(gc, o) /\ ~ isdead(g2, o)
         /\ gc.state # "propagate" => Marked(g2) \subseteq Marked(gc)
         /\ gc.state = "propagate" => /\ Listing(g2) /\ Marked(gc) \subseteq Marked(g2)
                                      /\ BlackBut(g2, Pending(g2))
                                      /\ isblack(gc, x) /\ v \in Object => v \in Marked(g2)
                                      /\ x \in Marked(gc) => g2.mark[x] = gc.mark[x]
<1>1. /\ HeapType /\ gc \in Collectors /\ Safe(gc) /\ Blank(gc) /\ Placed /\ Painted(gc)
      /\ (gc.state = "propagate" => Marking(gc))
  BY DEF IInv, Running, TypeOK
<1>2. x \in Object
  BY <1>1 DEF HeapType
<1>3. CASE ~ (valiswhite(gc, v) /\ isblack(gc, x))
  <2>1. g2 = gc
    BY <1>3 DEF luaC_barrier
  <2>2. isblack(gc, x) /\ v \in Object => v \in Marked(gc)
    BY <1>3 DEF valiswhite, Marked
  <2> QED BY <2>1, <2>2, <1>1 DEF SameRest, Marking
<1>4. CASE valiswhite(gc, v) /\ isblack(gc, x) /\ gc.state # "propagate"
  <2>1. g2 = [gc EXCEPT !.mark[x] = "white"]
    BY <1>4 DEF luaC_barrier, makewhite, Paint
  <2>2. g2 \in Collectors /\ SameRest(gc, g2)
    BY <2>1, <1>1, <1>2, SMTT(30) DEF Collectors, SameRest
  <2>3. g2.mark[x] = "white" /\ \A o \in Object : o # x => g2.mark[o] = gc.mark[o]
    BY <2>1, <1>1, <1>2 DEF Collectors
  <2>4. Painted(g2) /\ Marked(g2) \subseteq Marked(gc)
    BY <2>3, <1>1 DEF Painted, Marked, iswhite
  <2>5. ~ isdead(gc, x) /\ ~ isdead(g2, x)
    BY <2>3, <1>4 DEF isdead, isblack
  <2> QED BY <2>2, <2>3, <2>4, <2>5, <1>4
<1>5. CASE valiswhite(gc, v) /\ isblack(gc, x) /\ gc.state = "propagate"
  <2>1. g2 = markvalues(gc, {v})
    BY <1>5 DEF luaC_barrier
  <2>2. /\ v \in Object /\ v \in exists /\ \A o \in Object : ~ isdead(gc, o)
        /\ exists \in SUBSET Object /\ \A o \in exists : Strong(o) \subseteq exists
    BY <1>5, NothingCondemned DEF valiswhite
  <2>3. PICK new \in SUBSET Object : g2 \in Collectors /\ SameRest(gc, g2)
                                     /\ g2.grayagain = gc.grayagain /\ g2.weak = gc.weak
                                     /\ g2.gray = gc.gray \union ListedOf(new)
    BY <2>1, <1>1, MarkValues
  <2>4. Listing(g2) /\ Painted(g2)
    BY <2>1, <1>1, <1>5, MarkValuesListing DEF Marking
  <2>5. BlackBut(g2, Pending(gc) \union g2.gray)
    BY <2>1, <1>1, <1>5, MarkValuesBlack DEF Marking
  <2>6. Pending(gc) \union g2.gray = Pending(g2)
    BY <2>3 DEF Pending, Lists, SameRest
  <2>7. /\ Marked(g2) \subseteq Marked(gc) \union exists
        /\ Marked(gc) \subseteq Marked(g2) /\ v \in Marked(g2)
        /\ \A o \in Object : iswhite(g2, o) \/ o \in Marked(gc) => g2.mark[o] = gc.mark[o]
    <3> DEFINE values == {v}
    <3>1. values \intersect Object \subseteq exists /\ v \in values \intersect Object
      BY <2>2
    <3>2. g2 = markvalues(gc, values)
      BY <2>1
    <3> HIDE DEF values
    <3> QED BY <3>1, <3>2, <2>2, <1>1, MarkValuesInside
  <2>8. \A o \in Object : \/ g2.mark[o] = gc.mark[o]
                          \/ o \in exists /\ ~ isdead(gc, o) /\ ~ isdead(g2, o)
    BY <2>2, <2>7 DEF Marked, iswhite, isdead
  <2> QED BY <2>3, <2>4, <2>5, <2>6, <2>7, <2>8, <1>2, <1>5
<1> QED BY <1>3, <1>4, <1>5

(* The environment of a userdata is set.                                   *)
LEMMA SetEnvStep ==
  ASSUME IInv, NEW u \in Of("udata"), NEW t \in TableObjects, SetEnv(u, t) PROVE IInv'
<1>1. /\ ~ gc.closing /\ kind[u] = "udata" /\ kind[t] \in Tables /\ t \in Range(Here)
      /\ env' = [env EXCEPT ![u] = t] /\ gc' = luaC_barrier(gc, u, t)
      /\ UNCHANGED <<kind, exists, node, upval, place, value, stack, running, called>>
  BY DEF SetEnv, Runs
<1>2. /\ HeapType /\ gc \in Collectors /\ u \in exists /\ u \in Object /\ t \in Object
      /\ t \in Alive(gc) /\ Alive(gc) \in SUBSET Object /\ Placed
      /\ Painted(gc) /\ (gc.state = "propagate" => Marking(gc))
  BY <1>1, AtHand DEF Of, TableObjects, HeapType, IInv, Running
<1>3. /\ gc' \in Collectors /\ SameRest(gc, gc') /\ Painted(gc')
      /\ \A o \in Object : \/ gc'.mark[o] = gc.mark[o]
                           \/ o \in exists /\ ~ isdead(gc, o) /\ ~ isdead(gc', o)
      /\ gc.state # "propagate" => Marked(gc') \subseteq Marked(gc)
      /\ gc.state = "propagate" => /\ Listing(gc') /\ Marked(gc) \subseteq Marked(gc')
                                   /\ BlackBut(gc', Pending(gc'))
                                   /\ isblack(gc, u) /\ t \in Object => t \in Marked(gc')
                                   /\ u \in Marked(gc) => gc'.mark[u] = gc.mark[u]
  BY <1>1, <1>2, Barrier
<1>4. TypeOK'
  BY <1>1, <1>2, <1>3 DEF TypeOK, HeapType, Values, Collectors
<1>5. env'[u] = t /\ \A o \in Object : o # u => env'[o] = env[o]
  BY <1>1, <1>2 DEF HeapType
<1>6. Strong(u)' = Object \intersect {t}
  BY <1>1, <1>5 DEF Strong
<1>7. Alive(gc)' = Alive(gc)
  BY <1>1, <1>3 DEF Alive, isdead, HeapType, IInv, TypeOK
<1>8. HoldsIn(u, Alive(gc))'
  BY <1>1, <1>2, <1>5, <1>7 DEF HoldsIn, Tables
<1>9. \A o \in Object : kind[env'[o]] \in Tables
  BY <1>1, <1>2, <1>5 DEF Placed
<1>10. ASSUME gc.state = "propagate", u \in Marked(gc') \ Pending(gc')
       PROVE  Strong(u)' \subseteq Marked(gc')
  <2>1. CASE u \in Marked(gc)
    <3>1. isblack(gc, u)
      BY <2>1, <1>1, <1>2 DEF Painted, Marked, iswhite, isblack, Collectors
    <3> QED BY <3>1, <1>3, <1>6, <1>10
  <2>2. CASE u \notin Marked(gc)
    <3>1. ~ isblack(gc, u)
      BY <2>2, <1>2 DEF Marked, iswhite, isblack
    <3>2. gc' = gc
      BY <3>1, <1>1 DEF luaC_barrier
    <3> QED BY <3>2, <2>2, <1>10
  <2> QED BY <2>1, <2>2
<1>11. gc.state = "propagate" => \A o \in Marked(gc') \ Pending(gc') :
                                   o # u => Strong(o) \subseteq Marked(gc')
  BY <1>3 DEF BlackBut
<1> QED BY <1>1, <1>2, <1>3, <1>4, <1>5, <1>8, <1>9, <1>10, <1>11, WriteStep

(* The value of an upvalue is set: in a stack if it is open.               *)
LEMMA SetUpvalStep ==
  ASSUME IInv, NEW c \in Of("closure"), NEW i \in Level, SetUpval(c, i) PROVE IInv'
<1>1. PICK uv, v : uv = upval[c] /\ v = Here[i]
  OBVIOUS
<1>2. /\ ~ gc.closing /\ kind[c] = "closure" /\ c \in Range(Here) /\ gc' = luaC_barrier(gc, uv, v)
      /\ UNCHANGED <<kind, exists, node, env, upval, place, running, called>>
  BY <1>1 DEF SetUpval, Runs
<1>3. IF IsOpen(uv)
      THEN /\ stack' = [stack EXCEPT ![place[uv].thread][place[uv].level] = v]
           /\ value' = value
      ELSE value' = [value EXCEPT ![uv] = v] /\ stack' = stack
  BY <1>1 DEF SetUpval
<1>4. /\ HeapType /\ gc \in Collectors /\ c \in Alive(gc) /\ Alive(gc) \in SUBSET Object /\ Placed
      /\ v \in Values /\ (v \in Object => v \in Alive(gc))
      /\ running \in Alive(gc) /\ kind[running] = "thread"
      /\ Painted(gc) /\ (gc.state = "propagate" => Marking(gc))
  BY <1>1, <1>2, AtHand DEF Of, HeapType, IInv, Running
<1>5. uv \in Alive(gc) /\ kind[uv] = "upval" /\ uv \in Object /\ uv \in exists
  BY <1>1, <1>2, <1>4, UpvalueAtHand DEF Alive, HeapType
<1>6. CASE IsOpen(uv)
  <2>1. ~ isblack(gc, uv)
    BY <1>4, <1>5, <1>6 DEF Painted, isblack
  <2>2. gc' = gc
    BY <1>2, <2>1 DEF luaC_barrier
  <2>3. /\ place[uv].thread \in exists /\ kind[place[uv].thread] = "thread"
        /\ place[uv].level \in Level
    BY <1>4, <1>5, <1>6 DEF Placed
  <2>4. stack' = [stack EXCEPT ![place[uv].thread][place[uv].level] = v] /\ value' = value
    BY <1>3, <1>6
  <2> QED BY <1>2, <1>4, <2>2, <2>3, <2>4, StackStep
<1>7. CASE ~ IsOpen(uv)
  <2>1. value' = [value EXCEPT ![uv] = v] /\ stack' = stack
    BY <1>3, <1>7
  <2>2. /\ gc' \in Collectors /\ SameRest(gc, gc') /\ Painted(gc')
        /\ \A o \in Object : \/ gc'.mark[o] = gc.mark[o]
                             \/ o \in exists /\ ~ isdead(gc, o) /\ ~ isdead(gc', o)
        /\ gc.state # "propagate" => Marked(gc') \subseteq Marked(gc)
        /\ gc.state = "propagate" => /\ Listing(gc') /\ Marked(gc) \subseteq Marked(gc')
                                     /\ BlackBut(gc', Pending(gc'))
                                     /\ isblack(gc, uv) /\ v \in Object => v \in Marked(gc')
                                     /\ uv \in Marked(gc) => gc'.mark[uv] = gc.mark[uv]
    BY <1>2, <1>4, <1>5, Barrier
  <2>3. value'[uv] = v /\ \A o \in Object : o # uv => value'[o] = value[o]
    BY <2>1, <1>4, <1>5 DEF HeapType
  <2>4. value' \in [Object -> Values]
    BY <2>1, <1>4, <1>5 DEF HeapType
  <2>5. TypeOK'
    BY <1>2, <1>4, <2>1, <2>2, <2>4 DEF TypeOK, HeapType, Values, Collectors
  <2>6. Contents(uv)' = v
    BY <1>2, <1>7, <2>3 DEF Contents, IsOpen, Closed
  <2>7. Strong(uv)' = Object \intersect {v}
    BY <1>2, <1>5, <2>6 DEF Strong
  <2>8. Alive(gc)' = Alive(gc)
    BY <1>2, <2>2, <1>4 DEF Alive, isdead, HeapType
  <2>9. HoldsIn(uv, Alive(gc))'
    BY <1>2, <1>4, <1>5, <2>6, <2>8 DEF HoldsIn, Tables
  <2>10. \A o \in Object : kind[env'[o]] \in Tables
    BY <1>2, <1>4 DEF Placed
  <2>11. ASSUME gc.state = "propagate", uv \in Marked(gc') \ Pending(gc')
         PROVE  Strong(uv)' \subseteq Marked(gc')
    <3>1. CASE uv \in Marked(gc)
      <4>1. gc.mark[uv] # "gray"
        <5>1. gc.mark[uv] = "gray" => uv \in Lists(gc)
          BY <1>4, <1>5, <1>7, <2>11 DEF Marking, Listing
        <5>2. uv \notin Lists(gc)
          BY <1>4, <1>5, <2>11 DEF Marking, Listing, Listed, Tables
        <5> QED BY <5>1, <5>2
      <4>2. isblack(gc, uv)
        BY <3>1, <4>1, <1>4, <1>5 DEF Marked, iswhite, isblack, Collectors
      <4> QED BY <4>2, <2>2, <2>7, <2>11
    <3>2. CASE uv \notin Marked(gc)
      <4>1. ~ isblack(gc, uv)
        BY <3>2, <1>5 DEF Marked, iswhite, isblack
      <4>2. gc' = gc
        BY <4>1, <1>2 DEF luaC_barrier
      <4> QED BY <4>2, <3>2, <2>11
    <3> QED BY <3>1, <3>2
  <2>12. gc.state = "propagate" => \A o \in Marked(gc') \ Pending(gc') :
                                     o # uv => Strong(o) \subseteq Marked(gc')
    BY <2>2 DEF BlackBut
  <2> QED BY <1>2, <1>4, <1>5, <2>1, <2>2, <2>3, <2>5, <2>9, <2>10, <2>11, <2>12, WriteStep
<1> QED BY <1>6, <1>7

(* The barrier of a table: it is gray again, and traversed again.          *)
LEMMA BarrierBack ==
  ASSUME NEW g \in Collectors, NEW t \in Object, NEW v, NEW g2, g2 = luaC_barriert(g, t, v)
  PROVE  /\ g2 \in Collectors /\ SameRest(g, g2) /\ g2.gray = g.gray /\ g2.weak = g.weak
         /\ \/ g2 = g /\ ~ (valiswhite(g, v) /\ isblack(g, t))
            \/ /\ isblack(g, t) /\ g2.mark[t] = "gray" /\ g2.grayagain = g.grayagain \union {t}
               /\ \A o \in Object : o # t => g2.mark[o] = g.mark[o]
<1>1. CASE ~ (valiswhite(g, v) /\ isblack(g, t))
  BY <1>1 DEF luaC_barriert, SameRest
<1>2. CASE valiswhite(g, v) /\ isblack(g, t)
  <2> DEFINE mark == [g.mark EXCEPT ![t] = "gray"]
             again == g.grayagain \union {t}
  <2>1. g2 = [[g EXCEPT !.mark = mark] EXCEPT !.grayagain = again]
    BY <1>2 DEF luaC_barriert, Paint, Collectors
  <2>2. mark \in [Object -> {"white", "dead", "gray", "black"}] /\ again \in SUBSET Object
    BY DEF Collectors
  <2>3. mark[t] = "gray" /\ \A o \in Object : o # t => mark[o] = g.mark[o]
    BY DEF Collectors
  <2> HIDE DEF mark
  <2>4. g2 \in Collectors /\ g2.mark = mark /\ g2.grayagain = again
    BY <2>1, <2>2 DEF Collectors
  <2>5. SameRest(g, g2) /\ g2.gray = g.gray /\ g2.weak = g.weak
    BY <2>1 DEF Collectors, SameRest
  <2> QED BY <2>3, <2>4, <2>5, <1>2
<1> QED BY <1>1, <1>2

(* The entry of a table is set.                                            *)
LEMMA SetTableStep ==
  ASSUME IInv, NEW t \in TableObjects, NEW k \in Operand, NEW v \in Operand, SetTable(t, k, v)
  PROVE  IInv'
<1>1. /\ ~ gc.closing /\ kind[t] \in Tables /\ t \in Range(Here) \union {Globals}
      /\ node' = [node EXCEPT ![t] = IF v = Nil THEN EmptyNode ELSE [key |-> k, val |-> v]]
      /\ gc' = luaC_barriert(luaC_barriert(gc, t, k), t, v)
      /\ UNCHANGED <<kind, exists, env, upval, place, value, stack, running, called>>
  BY DEF SetTable, Runs, TableObjects
<1>2. /\ HeapType /\ gc \in Collectors /\ t \in Alive(gc) /\ t \in exists /\ t \in Object
      /\ Alive(gc) \in SUBSET Object /\ Placed
      /\ Painted(gc) /\ (gc.state = "propagate" => Marking(gc))
  BY <1>1, AtHand DEF TableObjects, HeapType, IInv, Running
<1>3. /\ k \in Values /\ (k \in Object => k \in Alive(gc))
      /\ v \in Values /\ (v \in Object => v \in Alive(gc))
  BY <1>1, AtHand, ObjectAssumption DEF Operand, Values
<1>4. /\ gc' \in Collectors /\ SameRest(gc, gc') /\ gc'.gray = gc.gray /\ gc'.weak = gc.weak
      /\ \/ /\ gc' = gc
            /\ isblack(gc, t) => ~ valiswhite(gc, k) /\ ~ valiswhite(gc, v)
         \/ /\ isblack(gc, t) /\ gc'.mark[t] = "gray" /\ gc'.grayagain = gc.grayagain \union {t}
            /\ \A o \in Object : o # t => gc'.mark[o] = gc.mark[o]
  <2>1. PICK g1 : g1 = luaC_barriert(gc, t, k)
    OBVIOUS
  <2>2. gc' = luaC_barriert(g1, t, v)
    BY <2>1, <1>1
  <2>3. /\ g1 \in Collectors /\ SameRest(gc, g1) /\ g1.gray = gc.gray /\ g1.weak = gc.weak
        /\ \/ g1 = gc /\ ~ (valiswhite(gc, k) /\ isblack(gc, t))
           \/ /\ isblack(gc, t) /\ g1.mark[t] = "gray" /\ g1.grayagain = gc.grayagain \union {t}
              /\ \A o \in Object : o # t => g1.mark[o] = gc.mark[o]
    BY <2>1, <1>2, BarrierBack
  <2>4. /\ gc' \in Collectors /\ SameRest(g1, gc') /\ gc'.gray = g1.gray /\ gc'.weak = g1.weak
        /\ \/ gc' = g1 /\ ~ (valiswhite(g1, v) /\ isblack(g1, t))
           \/ /\ isblack(g1, t) /\ gc'.mark[t] = "gray" /\ gc'.grayagain = g1.grayagain \union {t}
              /\ \A o \in Object : o # t => gc'.mark[o] = g1.mark[o]
    BY <2>2, <2>3, <1>2, BarrierBack
  <2> QED BY <2>3, <2>4 DEF SameRest, isblack
<1>5. /\ \A o \in Object : \/ gc'.mark[o] = gc.mark[o]
                           \/ o = t /\ gc.mark[o] = "black" /\ gc'.mark[o] = "gray"
      /\ gc'.grayagain = gc.grayagain \/ gc'.grayagain = gc.grayagain \union {t}
  BY <1>4 DEF isblack
<1>6. Marked(gc') = Marked(gc) /\ Pending(gc) \subseteq Pending(gc')
  BY <1>4, <1>5 DEF Marked, iswhite, Pending, Lists, SameRest
<1>7. Painted(gc')
  BY <1>2, <1>5, <1>1 DEF Painted, Tables
<1>8. /\ \A o \in Object : o # t => node'[o] = node[o]
      /\ node'[t] = EmptyNode \/ node'[t] = [key |-> k, val |-> v]
      /\ node' \in [Object -> [key : Values, val : Values]]
  BY <1>1, <1>2, <1>3, ObjectAssumption DEF HeapType, EmptyNode, Values
<1>9. TypeOK'
  BY <1>1, <1>2, <1>4, <1>8 DEF TypeOK, HeapType, Values, Collectors
<1>10. Alive(gc)' = Alive(gc)
  BY <1>1, <1>2, <1>5 DEF Alive, isdead, HeapType
<1>11. HoldsIn(t, Alive(gc))'
  BY <1>1, <1>3, <1>8, <1>10, ObjectAssumption DEF HoldsIn, Tables, EmptyNode
<1>12. \A o \in Object : \/ gc'.mark[o] = gc.mark[o]
                         \/ o \in exists /\ ~ isdead(gc, o) /\ ~ isdead(gc', o)
  BY <1>2, <1>5 DEF isdead
<1>13. Strong(t)' \subseteq Object \intersect {k, v}
  <2>1. Strong(t)' \subseteq Object \intersect {node'[t].key, node'[t].val}
    BY <1>1 DEF Strong, Tables
  <2> QED BY <2>1, <1>8, ObjectAssumption DEF EmptyNode
<1>14. ASSUME gc.state = "propagate"
       PROVE  /\ Listing(gc')
              /\ \A o \in Marked(gc') \ Pending(gc') : o # t => Strong(o) \subseteq Marked(gc')
              /\ t \in Marked(gc') \ Pending(gc') => Strong(t)' \subseteq Marked(gc')
  <2>1. Listing(gc) /\ BlackBut(gc, Pending(gc))
    BY <1>2, <1>14 DEF Marking
  <2>2. CASE gc' = gc
    <3>1. ASSUME t \in Marked(gc') \ Pending(gc') PROVE isblack(gc, t)
      <4>1. gc.mark[t] # "gray"
        BY <2>1, <2>2, <3>1, <1>1, <1>2 DEF Listing, Pending, Tables
      <4> QED BY <4>1, <2>2, <3>1, <1>2 DEF Marked, iswhite, isblack, Collectors
    <3>2. isblack(gc, t) => ~ valiswhite(gc, k) /\ ~ valiswhite(gc, v)
      BY <1>4, <2>2, <1>2 DEF isblack
    <3>3. isblack(gc, t) => Object \intersect {k, v} \subseteq Marked(gc)
      BY <3>2 DEF valiswhite, Marked
    <3> QED BY <2>1, <2>2, <3>1, <3>3, <1>13 DEF BlackBut
  <2>3. CASE gc' # gc
    <3>1. /\ isblack(gc, t) /\ gc'.mark[t] = "gray" /\ gc'.grayagain = gc.grayagain \union {t}
          /\ \A o \in Object : o # t => gc'.mark[o] = gc.mark[o]
      BY <1>4, <2>3
    <3>2. t \notin Lists(gc) /\ Listed(t) /\ kind[t] \notin {"thread"}
      BY <3>1, <2>1, <1>1 DEF Listing, isblack, Listed, Tables
    <3>3. Lists(gc') = Lists(gc) \union {t}
      BY <3>1, <1>4 DEF Lists
    <3>4. \A o \in Lists(gc) : o \in Object
      BY <1>2 DEF Lists, Collectors
    <3>5. Listing(gc')
      <4>1. \A o \in Lists(gc') : gc'.mark[o] = "gray" /\ Listed(o)
        BY <3>1, <3>2, <3>3, <3>4, <2>1 DEF Listing
      <4>2. /\ gc'.gray \intersect gc'.grayagain = {} /\ gc'.gray \intersect gc'.weak = {}
            /\ gc'.grayagain \intersect gc'.weak = {}
        BY <3>1, <3>2, <2>1, <1>4 DEF Listing, Lists
      <4>3. \A o \in Object : gc'.mark[o] = "gray" =>
              o \in Lists(gc') \/ IsOpen(o) \/ kind[o] \in {"string", "none"}
        BY <3>1, <3>3, <2>1 DEF Listing
      <4>4. \A o \in Marked(gc') :
              /\ kind[o] = "thread" => o \in gc'.gray \union gc'.grayagain
              /\ kind[o] \in {"weakkeys", "weakvalues"} => o \in gc'.gray \union gc'.weak
        BY <3>1, <2>1, <1>4, <1>6 DEF Listing
      <4> QED BY <4>1, <4>2, <4>3, <4>4 DEF Listing
    <3>6. t \in Pending(gc')
      BY <3>3 DEF Pending
    <3> QED BY <3>5, <3>6, <2>1, <1>6 DEF BlackBut
  <2> QED BY <2>2, <2>3
<1> QED BY <1>1, <1>2, <1>4, <1>6, <1>7, <1>8, <1>9, <1>11, <1>12, <1>14, WriteStep DEF Placed

-----------------------------------------------------------------------------
(* The heap when objects have been freed and upvalues closed: what is left *)
(* keeps its references, and open upvalues are as they were.               *)
Kept(gone, closed) ==
  /\ HeapType' /\ Placed' /\ exists' = exists \ gone
  /\ called' = [done |-> called.done \ gone, late |-> called.late \ gone]
  /\ \A o \in Object : IsOpen(o)' <=> IsOpen(o) /\ o \notin gone /\ o \notin closed
  /\ \A o \in Object : IsOpen(o)' => place'[o] = place[o]
  /\ \A o \in Object \ gone : \A set : HoldsIn(o, set) => HoldsIn(o, set)'
  /\ \A o \in Object \ gone : Strong(o)' = Strong(o)
  /\ \A o \in Object \ gone : /\ node'[o] = node[o] /\ env'[o] = env[o]
                              /\ upval'[o] = upval[o] /\ stack'[o] = stack[o]
                              /\ ~ IsOpen(o) => value'[o] = value[o]
  /\ \A o \in gone : /\ node'[o] = EmptyNode /\ env'[o] = Globals /\ upval'[o] = Nil
                     /\ value'[o] = Nil /\ stack'[o] = NoStack

(* Freeing objects and closing upvalues leaves such a heap.                *)
LEMMA FreeHeap ==
  ASSUME HeapType, Placed, NEW gone \in SUBSET Object, NEW closed \in SUBSET Object,
         Free(gone, closed), kind' = kind, running' = running, running \notin gone,
         \A o \in closed : IsOpen(o),
         \A o \in Object : IsOpen(o) /\ o \notin gone /\ o \notin closed =>
           place[o].thread \notin gone
  PROVE  Kept(gone, closed)
<1>1. /\ exists' = exists \ gone
      /\ node' = [o \in Object |-> IF o \in gone THEN EmptyNode ELSE node[o]]
      /\ env' = [o \in Object |-> IF o \in gone THEN Globals ELSE env[o]]
      /\ upval' = [o \in Object |-> IF o \in gone THEN Nil ELSE upval[o]]
      /\ place' = [o \in Object |-> IF o \in gone \union closed THEN Closed ELSE place[o]]
      /\ value' = [o \in Object |-> IF o \in gone THEN Nil
                                    ELSE IF o \in closed THEN Contents(o) ELSE value[o]]
      /\ stack' = [o \in Object |-> IF o \in gone THEN NoStack ELSE stack[o]]
      /\ called' = [called EXCEPT !.done = @ \ gone, !.late = @ \ gone]
  BY Zenon DEF Free, Keep
<1>2. called' = [done |-> called.done \ gone, late |-> called.late \ gone]
  BY <1>1 DEF HeapType
<1>3. \A o \in closed : Contents(o) \in Values
  BY DEF Contents, Placed, HeapType
<1>4. HeapType'
  <2>1. EmptyNode \in [key : Values, val : Values] /\ Closed \in [thread : Object \union {Nil}, level : Nat]
        /\ NoStack \in [Level -> Values] /\ Nil \in Values /\ Globals \in Object
    BY ObjectAssumption DEF EmptyNode, Closed, NoStack, Values
  <2>2. Values' = Values
    BY DEF Values
  <2>3. node' \in [Object -> [key : Values, val : Values]] /\ env' \in [Object -> Object]
    BY <1>1, <2>1 DEF HeapType
  <2>4. upval' \in [Object -> Object \union {Nil}]
        /\ place' \in [Object -> [thread : Object \union {Nil}, level : Nat]]
    BY <1>1, <2>1 DEF HeapType
  <2>5. value' \in [Object -> Values] /\ stack' \in [Object -> [Level -> Values]]
    BY <1>1, <1>3, <2>1 DEF HeapType
  <2>6. exists' \subseteq Object /\ called' \in [done : SUBSET Object, late : SUBSET Object]
    BY <1>1, <1>2 DEF HeapType
  <2> QED BY <2>2, <2>3, <2>4, <2>5, <2>6 DEF HeapType
<1>5. \A o \in Object : /\ o \in gone \/ o \in closed => place'[o] = Closed
                        /\ o \notin gone /\ o \notin closed => place'[o] = place[o]
  BY <1>1
<1>6. /\ \A o \in Object : IsOpen(o)' <=> IsOpen(o) /\ o \notin gone /\ o \notin closed
      /\ \A o \in Object : IsOpen(o)' => place'[o] = place[o]
  BY <1>5 DEF IsOpen, Closed
<1>7. /\ \A o \in Object \ gone : /\ node'[o] = node[o] /\ env'[o] = env[o]
                                  /\ upval'[o] = upval[o] /\ stack'[o] = stack[o]
                                  /\ ~ IsOpen(o) => value'[o] = value[o]
      /\ \A o \in gone : /\ node'[o] = EmptyNode /\ env'[o] = Globals /\ upval'[o] = Nil
                         /\ value'[o] = Nil /\ stack'[o] = NoStack
  BY <1>1
<1>8. Placed'
  <2>1. ASSUME NEW o \in Object, IsOpen(o)'
        PROVE  /\ o \in exists' /\ kind'[o] = "upval"
               /\ place'[o].thread \in exists' /\ kind'[place'[o].thread] = "thread"
               /\ place'[o].level \in Level
    <3>1. IsOpen(o) /\ o \notin gone /\ o \notin closed /\ place'[o] = place[o]
      BY <2>1, <1>6
    <3> QED BY <3>1, <1>1 DEF Placed
  <2>2. \A o \in Object : kind'[env'[o]] \in Tables
    BY <1>7, KindsType DEF Placed, Tables
  <2>3. \A o \in Of("closure")' : upval'[o] \in Object /\ kind'[upval'[o]] = "upval"
    BY <1>1, <1>7 DEF Placed, Of, HeapType
  <2> QED BY <2>1, <2>2, <2>3 DEF Placed
<1>9. \A o \in Object \ gone : Contents(o)' = Contents(o)
  <2> SUFFICES ASSUME NEW o \in Object \ gone PROVE Contents(o)' = Contents(o)
    OBVIOUS
  <2>1. CASE o \in closed
    <3>1. ~ IsOpen(o)' /\ value'[o] = Contents(o)
      BY <2>1, <1>1, <1>6
    <3> QED BY <3>1 DEF Contents
  <2>2. CASE o \notin closed /\ IsOpen(o)
    <3>1. IsOpen(o)' /\ place'[o] = place[o] /\ place[o].thread \in Object \ gone
      BY <2>2, <1>6 DEF Placed, HeapType
    <3>2. stack'[place[o].thread] = stack[place[o].thread]
      BY <3>1, <1>7
    <3> QED BY <3>1, <3>2, <2>2 DEF Contents
  <2>3. CASE o \notin closed /\ ~ IsOpen(o)
    <3>1. ~ IsOpen(o)' /\ value'[o] = value[o]
      BY <2>3, <1>6, <1>7
    <3> QED BY <3>1, <2>3 DEF Contents
  <2> QED BY <2>1, <2>2, <2>3
<1>10. \A o \in Object \ gone : Strong(o)' = Strong(o)
  BY <1>7, <1>9, StrongStays
<1>11. \A o \in Object \ gone : \A set : HoldsIn(o, set) => HoldsIn(o, set)'
  BY <1>7, <1>9 DEF HoldsIn
<1> QED BY <1>1, <1>2, <1>4, <1>6, <1>7, <1>8, <1>10, <1>11 DEF Kept

(* The sweep of some objects, those that are condemned are freed.          *)
LEMMA SweptFields ==
  ASSUME HeapType, NEW g \in Collectors, NEW set \in SUBSET Object, NEW g2, g2 = Swept(g, set)
  PROVE  /\ g2 \in Collectors
         /\ \A o \in Object : g2.mark[o] = IF o \in set \union OpenIn(set) THEN "white" ELSE g.mark[o]
         /\ g2.strings = g.strings \ set /\ g2.unswept = g.unswept \ set
         /\ g2.finalized = g.finalized \ Gone(set) /\ g2.tmudata = g.tmudata
         /\ g2.state = g.state /\ g2.full = g.full /\ g2.closing = g.closing
<1> DEFINE mark == [o \in Object |-> IF o \in set \union OpenIn(set) THEN "white" ELSE g.mark[o]]
           strings == g.strings \ set
           unswept == g.unswept \ set
           finalized == g.finalized \ Gone(set)
<1>1. g2 = [g EXCEPT !.mark = mark, !.strings = strings, !.unswept = unswept,
                     !.finalized = finalized]
  BY Zenon DEF Swept
<1>2. /\ mark \in [Object -> {"white", "dead", "gray", "black"}]
      /\ strings \in SUBSET Object /\ unswept \in SUBSET Object /\ finalized \in SUBSET Object
  BY DEF Collectors
<1>3. \A o \in Object : mark[o] = IF o \in set \union OpenIn(set) THEN "white" ELSE g.mark[o]
  OBVIOUS
<1> HIDE DEF mark, strings, unswept, finalized
<1>4. /\ g2 \in Collectors /\ g2.mark = mark /\ g2.strings = strings /\ g2.unswept = unswept
      /\ g2.finalized = finalized
  BY <1>1, <1>2, ZenonT(30) DEF Collectors
<1>5. /\ g2.tmudata = g.tmudata
      /\ g2.state = g.state /\ g2.full = g.full /\ g2.closing = g.closing
  BY <1>1 DEF Collectors
<1> QED BY <1>3, <1>4, <1>5 DEF strings, unswept, finalized

(* The open upvalues of some threads.                                      *)
LEMMA OpenInMembers ==
  HeapType /\ Placed =>
    \A set \in SUBSET Object : \A o \in Object :
      o \in OpenIn(set) <=> IsOpen(o) /\ place[o].thread \in set
<1> SUFFICES ASSUME HeapType, Placed, NEW set \in SUBSET Object, NEW o \in Object
             PROVE  o \in OpenIn(set) <=> IsOpen(o) /\ place[o].thread \in set
  OBVIOUS
<1>1. o \in OpenIn(set) <=> \E th \in set : o \in OpenFrom(th, 1)
  BY DEF OpenIn
<1>2. ASSUME NEW th \in set, o \in OpenFrom(th, 1)
      PROVE  IsOpen(o) /\ place[o].thread \in set
  <2>1. place[o].thread = th /\ th # Nil
    BY <1>2, ObjectAssumption DEF OpenFrom
  <2> QED BY <2>1 DEF IsOpen, Closed
<1>3. ASSUME IsOpen(o), place[o].thread \in set
      PROVE  o \in OpenFrom(place[o].thread, 1)
  BY <1>3, LevelNumbers DEF Placed, OpenFrom, Of
<1> QED BY <1>1, <1>2, <1>3

(* The same of the next state.                                             *)
LEMMA OpenInMembersNext ==
  HeapType' /\ Placed' =>
    (\A set \in SUBSET Object : \A o \in Object :
       o \in OpenIn(set) <=> IsOpen(o) /\ place[o].thread \in set)'
BY OpenInMembers, PTL

(* The sweep of some objects: what is not condemned stays as it is.        *)
LEMMA SweepSet ==
  ASSUME HeapType, Placed, NEW g \in Collectors, g.mark = gc.mark, g.state # "propagate",
         Blank(g), Safe(g), Sweeping(g), Painted(g), Finalizing(g),
         NEW set \in SUBSET Object, set \subseteq g.strings \union g.unswept,
         NEW g2, g2 = Swept(g, set), FreeDead(set), kind' = kind, running' = running
  PROVE  /\ HeapType' /\ Placed' /\ g2 \in Collectors
         /\ Blank(g2)' /\ Safe(g2)' /\ Sweeping(g2)' /\ Painted(g2)' /\ Finalizing(g2)'
<1> DEFINE swept == set \union OpenIn(set)
<1>1. PICK gone : gone = Gone(set)
  OBVIOUS
<1>2. PICK closed : closed = OpenIn(set \intersect gone)
  OBVIOUS
<1>3. Free(gone, closed)
  BY <1>1, <1>2 DEF FreeDead
<1>4. \A s \in SUBSET Object : \A o \in Object :
        o \in OpenIn(s) <=> IsOpen(o) /\ place[o].thread \in s
  BY OpenInMembers
<1>5. \A s \in SUBSET Object : OpenIn(s) \in SUBSET Object
  BY DEF OpenIn, OpenFrom, Of, HeapType
<1>6. /\ gone \in SUBSET Object /\ closed \in SUBSET Object /\ swept \in SUBSET Object
      /\ \A o \in Object : o \in gone <=> o \in swept /\ isdead(g, o)
  BY <1>1, <1>2, <1>5 DEF Gone, isdead
<1>7. \A o \in closed : IsOpen(o)
  BY <1>2, <1>4, <1>6
<1>8. ASSUME NEW o \in Object, IsOpen(o), o \notin gone, o \notin closed
      PROVE  place[o].thread \notin gone
  <2>1. place[o].thread \in Object /\ kind[place[o].thread] = "thread" /\ kind[o] = "upval"
    BY <1>8 DEF Placed, HeapType
  <2>2. place[o].thread \notin set \intersect gone
    BY <1>2, <1>4, <1>6, <1>8
  <2>3. place[o].thread \notin OpenIn(set)
    BY <1>4, <2>1 DEF Placed
  <2> QED BY <1>6, <2>1, <2>2, <2>3
<1>9. running \notin gone
  BY <1>6 DEF Safe, Alive
<1>10. /\ HeapType' /\ Placed' /\ exists' = exists \ gone
       /\ called' = [done |-> called.done \ gone, late |-> called.late \ gone]
       /\ \A o \in Object : IsOpen(o)' <=> IsOpen(o) /\ o \notin gone /\ o \notin closed
       /\ \A o \in Object : IsOpen(o)' => place'[o] = place[o]
       /\ \A o \in Object \ gone : \A s : HoldsIn(o, s) => HoldsIn(o, s)'
       /\ \A o \in Object \ gone : /\ node'[o] = node[o] /\ env'[o] = env[o]
                                   /\ upval'[o] = upval[o] /\ stack'[o] = stack[o]
                                   /\ ~ IsOpen(o) => value'[o] = value[o]
       /\ \A o \in gone : /\ node'[o] = EmptyNode /\ env'[o] = Globals /\ upval'[o] = Nil
                          /\ value'[o] = Nil /\ stack'[o] = NoStack
  <2>1. Kept(gone, closed)
    BY <1>3, <1>6, <1>7, <1>8, <1>9, FreeHeap
  <2> QED BY <2>1 DEF Kept
<1>11. /\ g2 \in Collectors
       /\ \A o \in Object : g2.mark[o] = IF o \in swept THEN "white" ELSE g.mark[o]
       /\ g2.strings = g.strings \ set /\ g2.unswept = g.unswept \ set
       /\ g2.finalized = g.finalized \ gone /\ g2.tmudata = g.tmudata
       /\ g2.state = g.state /\ g2.full = g.full /\ g2.closing = g.closing
  BY <1>1, SweptFields
<1>12. \A o \in gone : o \notin g2.strings /\ o \notin g2.unswept /\ o \notin g2.finalized
  <2>1. \A o \in OpenIn(set) : kind[o] = "upval" /\ IsOpen(o)
    BY <1>4, <1>5 DEF Placed
  <2> QED BY <2>1, <1>6, <1>11 DEF Sweeping
<1>13. Blank(g2)'
  <2> SUFFICES ASSUME NEW o \in Object \ exists'
               PROVE  /\ node'[o] = EmptyNode /\ env'[o] = Globals /\ upval'[o] = Nil
                      /\ value'[o] = Nil /\ stack'[o] = NoStack /\ g2.mark[o] = "white"
                      /\ o \notin g2.strings /\ o \notin g2.unswept /\ o \notin g2.finalized
    BY DEF Blank
  <2>1. CASE o \in gone
    BY <2>1, <1>6, <1>10, <1>11, <1>12
  <2>2. CASE o \notin gone
    <3>1. o \notin exists /\ ~ IsOpen(o)
      BY <2>2, <1>10 DEF Placed
    <3> QED BY <3>1, <2>2, <1>10, <1>11 DEF Blank
  <2> QED BY <2>1, <2>2
<1>14. Alive(g2)' = Alive(g) /\ Alive(g) \in SUBSET Object
  <2>1. Alive(g2)' = {o \in exists' : ~ isdead(g2, o)}
    BY DEF Alive, isdead
  <2>2. \A o \in exists \ gone : isdead(g2, o) <=> isdead(g, o)
    BY <1>6, <1>11 DEF isdead, HeapType
  <2>3. \A o \in gone : isdead(g, o)
    BY <1>6
  <2> QED BY <2>1, <2>2, <2>3, <1>10 DEF Alive, HeapType
<1>15. \A o \in Alive(g) : o \in Object \ gone /\ HoldsIn(o, Alive(g))
  BY <1>6, <1>14, HoldsFields DEF Safe, Alive
<1>16. \A o \in Alive(g) : Holds(o)' \subseteq Alive(g)
  BY <1>10, <1>14, <1>15, HoldsFieldsNext
<1>17. Safe(g2)'
  BY <1>11, <1>14, <1>16 DEF Safe
<1>18. LeftToSweep(g2)' = g2.strings \union g2.unswept \union OpenIn(g2.unswept)'
  BY DEF LeftToSweep
<1>19. \A s \in SUBSET Object : \A o \in Object :
         o \in OpenIn(s)' <=> IsOpen(o)' /\ place'[o].thread \in s
  BY <1>10, OpenInMembersNext
<1>20. g.strings \in SUBSET Object /\ g.unswept \in SUBSET Object /\ g2.unswept \in SUBSET Object
  BY <1>11 DEF Collectors
<1>21. ASSUME NEW o \in LeftToSweep(g), o \in Object, o \notin swept
       PROVE  o \in LeftToSweep(g2)'
  <2>1. CASE o \in g.strings \union g.unswept
    BY <2>1, <1>11, <1>18, <1>21
  <2>2. CASE o \in OpenIn(g.unswept)
    <3>1. IsOpen(o) /\ place[o].thread \in g.unswept
      BY <2>2, <1>4, <1>20, <1>21
    <3>2. place[o].thread \notin set
      BY <3>1, <1>4, <1>21
    <3>3. o \notin gone /\ o \notin closed
      BY <3>1, <3>2, <1>2, <1>4, <1>6, <1>21
    <3>4. IsOpen(o)' /\ place'[o].thread \in g2.unswept
      BY <3>1, <3>2, <3>3, <1>10, <1>11, <1>21
    <3> QED BY <3>4, <1>18, <1>19, <1>20, <1>21
  <2> QED BY <2>1, <2>2, <1>21 DEF LeftToSweep
<1>22. Sweeping(g2)'
  <2>1. ASSUME NEW o \in Object, isdead(g2, o)
        PROVE  o \in LeftToSweep(g2)' /\ (kind'[o] = "udata" => o \in called'.done)
    <3>1. o \notin swept /\ isdead(g, o) /\ o \notin gone
      BY <2>1, <1>6, <1>11 DEF isdead
    <3>2. o \in LeftToSweep(g) /\ (kind[o] = "udata" => o \in called.done)
      BY <3>1 DEF Sweeping
    <3> QED BY <3>1, <3>2, <1>10, <1>21
  <2>2. ASSUME NEW o \in Object, ~ iswhite(g2, o)
        PROVE  o \in LeftToSweep(g2)' \union Range(g2.tmudata)
    <3>1. o \notin swept /\ o \in Marked(g)
      BY <2>2, <1>11 DEF iswhite, Marked
    <3>2. o \in LeftToSweep(g) \union Range(g.tmudata)
      BY <3>1 DEF Sweeping
    <3> QED BY <3>1, <3>2, <1>11, <1>21
  <2>3. \A o \in g2.strings : o \in exists' /\ kind'[o] = "string"
    BY <1>10, <1>11, <1>12 DEF Sweeping
  <2>4. \A o \in g2.unswept : o \in exists' /\ ~ IsOpen(o)'
    BY <1>10, <1>11, <1>12, <1>20 DEF Sweeping
  <2>5. /\ Marked(g2)' = {o \in Object : ~ iswhite(g2, o)}
        /\ \A o \in Object : isdead(g2, o)' <=> isdead(g2, o)
    BY DEF Marked, iswhite, isdead
  <2>6. /\ g2.state # "sweepstring" => g2.strings = {}
        /\ g2.state \notin {"sweepstring", "sweep"} => g2.unswept = {}
    BY <1>11 DEF Sweeping
  <2> QED BY <2>1, <2>2, <2>3, <2>4, <2>5, <2>6 DEF Sweeping
<1>23. Painted(g2)'
  <2>1. \A o \in Object : g2.mark[o] = "white" \/ g2.mark[o] = g.mark[o]
    BY <1>11
  <2> QED BY <2>1, <1>10 DEF Painted
<1>24. Finalizing(g2)'
  <2>1. \A u \in Range(g.tmudata) : u \notin gone
    BY <1>15 DEF Safe
  <2>2. \A u \in Range(g2.tmudata) :
          u \in exists' /\ u \in g2.finalized /\ u \notin called'.done
    BY <2>1, <1>10, <1>11 DEF Finalizing
  <2>3. \A u \in g2.finalized : kind'[u] = "udata" /\ u \in Range(g2.tmudata) \union called'.done
    BY <1>10, <1>11 DEF Finalizing
  <2>4. called'.done \subseteq g2.finalized
    BY <1>10, <1>11 DEF Finalizing
  <2>5. g2.closing => \A u \in Of("udata")' : u \in g2.finalized \union called'.late
    BY <1>10, <1>11 DEF Finalizing, Of
  <2> QED BY <2>2, <2>3, <2>4, <2>5, <1>11 DEF Finalizing
<1> QED BY <1>10, <1>11, <1>13, <1>17, <1>22, <1>23, <1>24

(* One step of the sweep.                                                  *)
LEMMA SweepStep ==
  ASSUME IInv, Sweep PROVE IInv'
<1>1. /\ gc.state \in {"sweepstring", "sweep"} /\ ~ gc.closing
      /\ kind' = kind /\ running' = running
  BY DEF Sweep
<1>2. /\ HeapType /\ gc \in Collectors /\ Finalizing(gc) /\ Placed /\ Blank(gc) /\ Safe(gc)
      /\ Sweeping(gc) /\ Painted(gc)
  BY <1>1 DEF IInv, Running, TypeOK
<1> DEFINE left == IF gc.state = "sweepstring" THEN gc.strings ELSE gc.unswept
           next == IF gc.state = "sweepstring" THEN "sweep" ELSE "finalize"
<1>3. CASE /\ left = {} /\ gc' = [gc EXCEPT !.state = next]
           /\ UNCHANGED <<exists, heap, called>>
  <2>1. /\ gc' \in Collectors /\ gc'.state = next /\ gc'.mark = gc.mark
        /\ gc'.strings = gc.strings /\ gc'.unswept = gc.unswept /\ gc'.closing = gc.closing
        /\ gc'.finalized = gc.finalized /\ gc'.tmudata = gc.tmudata
    BY <1>2, <1>3 DEF Collectors
  <2>2. /\ UNCHANGED <<kind, exists, node, env, upval, place, value, stack, running, called>>
    BY <1>1, <1>3 DEF heap
  <2>3. HeapType' /\ Placed'
    BY <1>2, <2>2 DEF HeapType, Values, Placed, IsOpen, Closed, Of
  <2>4. Finalizing(gc)'
    BY <1>2, <2>1, <2>2 DEF Finalizing, Of
  <2>5. Blank(gc)' /\ Painted(gc)'
    BY <1>2, <2>1, <2>2 DEF Blank, Painted, IsOpen, Closed
  <2>6. Alive(gc)' = Alive(gc)
    BY <2>1, <2>2 DEF Alive, isdead
  <2>7. \A o \in Object : Holds(o)' = Holds(o)
    <3>1. \A o \in Object : Contents(o)' = Contents(o)
      BY <2>2 DEF Contents, IsOpen, Closed
    <3>2. \A o \in Object : Strong(o)' = Strong(o)
      BY <2>2, <3>1, StrongStays
    <3> QED BY <2>2, <3>2 DEF Holds, Tables
  <2>8. Safe(gc)'
    BY <1>2, <2>1, <2>2, <2>6, <2>7 DEF Safe, Alive, HeapType
  <2>9. LeftToSweep(gc)' = LeftToSweep(gc) /\ Marked(gc)' = Marked(gc)
    BY <2>1, <2>2 DEF LeftToSweep, OpenIn, OpenFrom, Of, Marked, iswhite
  <2>10. /\ next # "sweepstring" => gc.strings = {}
         /\ next \notin {"sweepstring", "sweep"} => gc.unswept = {}
    BY <1>1, <1>2, <1>3 DEF Sweeping
  <2>11. Sweeping(gc)'
    BY <1>1, <1>2, <2>1, <2>2, <2>9, <2>10 DEF Sweeping, isdead, IsOpen, Closed
  <2> QED BY <2>1, <2>3, <2>4, <2>5, <2>8, <2>11 DEF IInv, TypeOK, Running
<1>4. CASE \E set \in SUBSET left : FreeDead(set) /\ gc' = Swept(gc, set)
  <2>1. PICK set \in SUBSET left : FreeDead(set) /\ gc' = Swept(gc, set)
    BY <1>4
  <2>2. PICK g2 : g2 = gc'
    OBVIOUS
  <2>3. set \in SUBSET Object /\ set \subseteq gc.strings \union gc.unswept
    BY <1>2 DEF Collectors
  <2>4. /\ HeapType' /\ Placed' /\ g2 \in Collectors
        /\ Blank(g2)' /\ Safe(g2)' /\ Sweeping(g2)' /\ Painted(g2)' /\ Finalizing(g2)'
    BY <1>1, <1>2, <2>1, <2>2, <2>3, SweepSet
  <2>5. Blank(gc)' /\ Safe(gc)' /\ Sweeping(gc)' /\ Painted(gc)' /\ Finalizing(gc)'
    BY <2>2, <2>4
  <2>6. g2.state = gc.state
    BY <1>2, <2>1, <2>2, <2>3, SweptFields
  <2> QED BY <1>1, <2>2, <2>4, <2>5, <2>6 DEF IInv, TypeOK, Running
<1>5. \/ /\ left = {} /\ gc' = [gc EXCEPT !.state = next]
         /\ UNCHANGED <<exists, heap, called>>
      \/ \E set \in SUBSET left : FreeDead(set) /\ gc' = Swept(gc, set)
  BY Zenon DEF Sweep, FirstOf
<1> QED BY <1>3, <1>4, <1>5

-----------------------------------------------------------------------------
(* What markroot makes of the collector: the roots that are white are      *)
(* gray.                                                                   *)
RootsMarked(g, g2) ==
  /\ g2.state = "propagate" /\ g2.closing = g.closing
  /\ g2.strings = g.strings /\ g2.unswept = g.unswept
  /\ g2.finalized = g.finalized /\ g2.tmudata = g.tmudata
  /\ g2.grayagain = {} /\ g2.weak = {}
  /\ g2.gray = {o \in {Main, Globals} : iswhite(g, o)}
  /\ \A o \in Object : g2.mark[o] = IF o \in g2.gray THEN "gray" ELSE g.mark[o]

(* The marking of the roots: they are tables and threads, and pass nothing *)
(* on.                                                                     *)
LEMMA MarkRoot ==
  ASSUME HeapType, NEW g \in Collectors
  PROVE  markroot(g) \in Collectors /\ RootsMarked(g, markroot(g))
<1> DEFINE g1 == [g EXCEPT !.state = "propagate", !.gray = {}, !.grayagain = {}, !.weak = {}]
           roots == {Main, Globals}
<1>1. /\ g1 \in Collectors /\ g1.state = "propagate" /\ g1.gray = {} /\ g1.grayagain = {}
      /\ g1.weak = {} /\ g1.mark = g.mark /\ g1.full = g.full /\ g1.closing = g.closing
      /\ g1.strings = g.strings /\ g1.unswept = g.unswept
      /\ g1.finalized = g.finalized /\ g1.tmudata = g.tmudata
  BY DEF Collectors
<1>2. PICK g2 : g2 = markroot(g)
  OBVIOUS
<1>3. g2 = markvalues(g1, roots)
  BY <1>2, Zenon DEF markroot
<1> HIDE DEF g1, roots
<1>4. PICK new \in SUBSET Object :
        /\ g2 \in Collectors /\ SameRest(g1, g2)
        /\ g2.gray = g1.gray \union ListedOf(new)
        /\ g2.grayagain = g1.grayagain /\ g2.weak = g1.weak
        /\ \A o \in new : /\ iswhite(g1, o)
                          /\ g2.mark[o] = IF Listed(o) THEN "gray" ELSE Finished(o)
        /\ \A o \in Object \ new : g2.mark[o] = g1.mark[o]
        /\ Marked(g2) = Marked(g1) \union new
        /\ roots \intersect Object \subseteq Marked(g2)
        /\ \A set \in SUBSET Object :
             roots \intersect Object \subseteq set /\ (\A o \in set : PassesOn(o) \subseteq set)
               => new \subseteq set
  <2>1. g1 \in Collectors
    BY <1>1
  <2> QED BY <2>1, <1>3, MarkValues
<1>5. /\ roots \in SUBSET Object /\ roots \intersect Object = roots
      /\ \A o \in roots : Listed(o) /\ PassesOn(o) = {}
  BY KindsType DEF Listed, PassesOn, Tables, roots
<1>6. new \subseteq roots
  BY <1>4, <1>5
<1>7. \A o \in Object : iswhite(g1, o) <=> iswhite(g, o)
  BY <1>1 DEF iswhite
<1>8. new = {o \in roots : iswhite(g, o)} /\ ListedOf(new) = new
  BY <1>4, <1>5, <1>6, <1>7 DEF Marked, ListedOf, roots
<1>9. \A o \in Object : g2.mark[o] = IF o \in new THEN "gray" ELSE g.mark[o]
  BY <1>1, <1>4, <1>8 DEF ListedOf, roots
<1> QED BY <1>1, <1>2, <1>4, <1>8, <1>9 DEF RootsMarked, SameRest, roots

(* A mark phase begins.                                                    *)
LEMMA MarkPhaseBegins ==
  \A g, g2 \in Collectors :
    /\ HeapType /\ Placed /\ Blank(g) /\ Safe(g) /\ Sweeping(g) /\ Painted(g) /\ Finalizing(g)
    /\ g.strings = {} /\ g.unswept = {} /\ g.state # "propagate" /\ RootsMarked(g, g2)
    => Running(g2) /\ Finalizing(g2)
<1> SUFFICES ASSUME NEW g \in Collectors, NEW g2 \in Collectors,
                    HeapType, Placed, Blank(g), Safe(g), Sweeping(g), Painted(g), Finalizing(g),
                    g.strings = {}, g.unswept = {}, g.state # "propagate", RootsMarked(g, g2)
             PROVE  Running(g2) /\ Finalizing(g2)
  OBVIOUS
<1>1. LeftToSweep(g) = {} /\ LeftToSweep(g2) = {}
  BY DEF LeftToSweep, OpenIn, RootsMarked
<1>2. /\ Marked(g) \subseteq Range(g.tmudata) /\ \A o \in Object : ~ isdead(g, o)
      /\ \A o \in Range(g.tmudata) : kind[o] = "udata" /\ o \in exists
  BY <1>1 DEF Sweeping, Finalizing
<1>3. /\ Main \in exists /\ Globals \in exists /\ Main \in Object /\ Globals \in Object
      /\ kind[Main] = "thread" /\ kind[Globals] = "table"
  BY KindsType DEF Safe, Alive
<1>4. /\ g2.gray = {Main, Globals} /\ g2.grayagain = {} /\ g2.weak = {}
      /\ g2.mark[Main] = "gray" /\ g2.mark[Globals] = "gray"
      /\ \A o \in Object : o # Main /\ o # Globals => g2.mark[o] = g.mark[o]
  BY <1>2, <1>3 DEF RootsMarked, Marked
<1>5. /\ g2.state = "propagate" /\ g2.closing = g.closing
      /\ g2.strings = {} /\ g2.unswept = {}
      /\ g2.finalized = g.finalized /\ g2.tmudata = g.tmudata
  BY DEF RootsMarked
<1>6. /\ Marked(g2) = Marked(g) \union {Main, Globals} /\ \A o \in Object : ~ isdead(g2, o)
  BY <1>2, <1>3, <1>4 DEF Marked, iswhite, isdead
<1>7. Finalizing(g2)
  BY <1>5 DEF Finalizing
<1>8. Blank(g2)
  BY <1>3, <1>4, <1>5 DEF Blank
<1>9. Alive(g2) = Alive(g)
  BY <1>2, <1>6 DEF Alive, HeapType
<1>10. Safe(g2)
  BY <1>5, <1>9 DEF Safe
<1>11. Sweeping(g2)
  BY <1>5, <1>6 DEF Sweeping
<1>12. Painted(g2)
  BY <1>3, <1>4 DEF Painted, Placed
<1>13. Lists(g2) = {Main, Globals} /\ \A o \in Lists(g2) : Listed(o)
  BY <1>3, <1>4 DEF Lists, Listed, Tables
<1>14. Listing(g2)
  <2>1. \A o \in Lists(g2) : g2.mark[o] = "gray" /\ Listed(o)
    BY <1>4, <1>13
  <2>2. ASSUME NEW o \in Object, g2.mark[o] = "gray" PROVE o \in Lists(g2)
    <3>1. o # Main /\ o # Globals => o \in Marked(g)
      BY <2>2, <1>4 DEF Marked, iswhite
    <3>2. o # Main /\ o # Globals => FALSE
      BY <3>1, <2>2, <1>2, <1>4 DEF Painted
    <3> QED BY <3>2, <1>13
  <2>3. \A o \in Marked(g2) :
          /\ kind[o] = "thread" => o \in g2.gray \union g2.grayagain
          /\ kind[o] \in {"weakkeys", "weakvalues"} => o \in g2.gray \union g2.weak
    BY <1>2, <1>4, <1>6
  <2> QED BY <2>1, <2>2, <2>3, <1>4 DEF Listing
<1>15. BlackBut(g2, Pending(g2))
  BY <1>2, <1>5, <1>6, <1>13 DEF BlackBut, Pending
<1> QED BY <1>5, <1>6, <1>7, <1>8, <1>10, <1>11, <1>12, <1>14, <1>15 DEF Running, Marking

(* The same of the heap of the next state.                                 *)
LEMMA MarkPhaseBeginsNext ==
  (\A g, g2 \in Collectors :
     /\ HeapType /\ Placed /\ Blank(g) /\ Safe(g) /\ Sweeping(g) /\ Painted(g) /\ Finalizing(g)
     /\ g.strings = {} /\ g.unswept = {} /\ g.state # "propagate" /\ RootsMarked(g, g2)
     => Running(g2) /\ Finalizing(g2))'
BY MarkPhaseBegins, PTL

(* Steps of the mark phase: the heap stays as it is.                       *)
LEMMA MarkStep ==
  ASSUME HeapType, gc' \in Collectors, Running(gc'), Finalizing(gc'), ~ gc'.closing,
         UNCHANGED <<kind, exists, heap, running, called>>
  PROVE  IInv'
<1>1. UNCHANGED <<kind, exists, node, env, upval, place, value, stack, running, called>>
  BY DEF heap
<1>2. HeapType'
  BY <1>1 DEF HeapType, Values
<1>3. /\ \A o \in Object : (IsOpen(o)' <=> IsOpen(o)) /\ Contents(o)' = Contents(o)
      /\ \A o \in Object : Listed(o)' <=> Listed(o)
  BY <1>1 DEF IsOpen, Closed, Contents, Listed, Tables
<1>4. \A o \in Object : Strong(o)' = Strong(o) /\ Holds(o)' = Holds(o)
  <2>1. \A o \in Object : Strong(o)' = Strong(o)
    BY <1>1, <1>3, StrongStays
  <2> QED BY <1>1, <2>1 DEF Holds, Tables
<1>5. /\ Alive(gc)' = Alive(gc') /\ Marked(gc)' = Marked(gc') /\ Lists(gc)' = Lists(gc')
      /\ LeftToSweep(gc)' = LeftToSweep(gc') /\ Alive(gc') \subseteq Object
      /\ \A o \in Object : isdead(gc, o)' <=> isdead(gc', o)
  BY <1>1 DEF Alive, isdead, Marked, iswhite, Lists, LeftToSweep, OpenIn, OpenFrom, Of, HeapType
<1>6. Pending(gc)' = Pending(gc')
  BY <1>3, <1>5 DEF Pending
<1>7. Placed'
  BY <1>1, <1>3 DEF Running, Placed, Of
<1>8. Finalizing(gc)'
  BY <1>1 DEF Finalizing, Of
<1>9. Blank(gc)'
  BY <1>1 DEF Running, Blank
<1>10. Safe(gc)'
  BY <1>1, <1>4, <1>5 DEF Running, Safe
<1>11. Sweeping(gc)'
  BY <1>1, <1>3, <1>5 DEF Running, Sweeping, Collectors
<1>12. Painted(gc)'
  BY <1>1, <1>3 DEF Running, Painted
<1>13. gc'.state = "propagate" => Marking(gc)'
  <2>1. Listing(gc') /\ Lists(gc') \subseteq Object => Listing(gc)'
    BY <1>1, <1>3, <1>5 DEF Listing
  <2>2. BlackBut(gc', Pending(gc')) => BlackBut(gc, Pending(gc))'
    BY <1>4, <1>5, <1>6 DEF BlackBut, Marked
  <2>3. Lists(gc') \subseteq Object
    BY DEF Lists, Collectors
  <2> QED BY <2>1, <2>2, <2>3, <1>5 DEF Running, Marking
<1> QED BY <1>2, <1>7, <1>8, <1>9, <1>10, <1>11, <1>12, <1>13 DEF IInv, TypeOK, Running

(* markroot begins the mark phase with the main thread and the globals.    *)
LEMMA StartStep ==
  ASSUME IInv, Start PROVE IInv'
<1>1. /\ gc.state = "pause" /\ ~ gc.closing /\ gc' = markroot(gc)
      /\ UNCHANGED <<kind, exists, heap, running, called>>
  BY DEF Start
<1>2. /\ HeapType /\ gc \in Collectors /\ Finalizing(gc) /\ Placed /\ Blank(gc) /\ Safe(gc)
      /\ Sweeping(gc) /\ Painted(gc) /\ gc.strings = {} /\ gc.unswept = {}
  BY <1>1 DEF IInv, Running, TypeOK, Sweeping
<1>3. gc' \in Collectors /\ RootsMarked(gc, gc')
  BY <1>1, <1>2, MarkRoot
<1>4. Running(gc') /\ Finalizing(gc') /\ ~ gc'.closing
  BY <1>1, <1>2, <1>3, MarkPhaseBegins DEF RootsMarked
<1> QED BY <1>1, <1>2, <1>3, <1>4, MarkStep

(* A sweep begins: all there is is left to sweep, but for the userdata     *)
(* that wait for their finalizers.                                         *)
LEMMA AllIsLeft ==
  ASSUME HeapType, Placed, NEW g \in Collectors,
         \A u \in Range(g.tmudata) : kind[u] = "udata",
         NEW g2 \in Collectors, g2.strings = Of("string"), g2.tmudata = g.tmudata,
         g2.unswept = {o \in exists : /\ kind[o] # "string"
                                      /\ ~ (kind[o] = "upval" /\ IsOpen(o))
                                      /\ o \notin Range(g.tmudata)}
  PROVE  exists \subseteq LeftToSweep(g2) \union Range(g2.tmudata)
<1> SUFFICES ASSUME NEW o \in exists, o \notin Range(g.tmudata) PROVE o \in LeftToSweep(g2)
  OBVIOUS
<1>1. o \in Object
  BY DEF HeapType
<1>2. CASE kind[o] = "string"
  BY <1>2 DEF LeftToSweep, Of
<1>3. CASE kind[o] # "string" /\ ~ IsOpen(o)
  BY <1>3 DEF LeftToSweep
<1>4. CASE IsOpen(o)
  <2>1. place[o].thread \in exists /\ kind[place[o].thread] = "thread"
    BY <1>1, <1>4 DEF Placed
  <2>2. ~ IsOpen(place[o].thread)
    BY <2>1 DEF Placed, HeapType
  <2>3. place[o].thread \in g2.unswept
    BY <2>1, <2>2
  <2>4. g2.unswept \in SUBSET Object
    BY DEF Collectors
  <2> QED BY <1>1, <1>4, <2>3, <2>4, OpenInMembers DEF LeftToSweep
<1> QED BY <1>2, <1>3, <1>4

(* The sweep starts with all there is but the open upvalues and what waits *)
(* for its finalizer.                                                      *)
LEMMA StartSweepFields ==
  ASSUME HeapType, NEW g \in Collectors
  PROVE  /\ StartSweep(g) \in Collectors
         /\ StartSweep(g).state = "sweepstring" /\ StartSweep(g).strings = Of("string")
         /\ StartSweep(g).unswept = {o \in exists : /\ kind[o] # "string"
                                                    /\ ~ (kind[o] = "upval" /\ IsOpen(o))
                                                    /\ o \notin Range(g.tmudata)}
         /\ StartSweep(g).mark = g.mark /\ StartSweep(g).closing = g.closing
         /\ StartSweep(g).finalized = g.finalized /\ StartSweep(g).tmudata = g.tmudata
         /\ StartSweep(g).full = g.full
<1> DEFINE strings == Of("string")
           unswept == {o \in exists : /\ kind[o] # "string"
                                      /\ ~ (kind[o] = "upval" /\ IsOpen(o))
                                      /\ o \notin Range(g.tmudata)}
<1>1. StartSweep(g) = [g EXCEPT !.state = "sweepstring", !.strings = strings, !.unswept = unswept]
  BY Zenon DEF StartSweep
<1>2. strings \in SUBSET Object /\ unswept \in SUBSET Object
  BY DEF Of, HeapType
<1> HIDE DEF strings, unswept
<1>3. /\ StartSweep(g) \in Collectors
      /\ StartSweep(g).state = "sweepstring" /\ StartSweep(g).strings = strings
      /\ StartSweep(g).unswept = unswept
      /\ StartSweep(g).mark = g.mark /\ StartSweep(g).closing = g.closing
      /\ StartSweep(g).finalized = g.finalized /\ StartSweep(g).tmudata = g.tmudata
      /\ StartSweep(g).full = g.full
  BY <1>1, <1>2 DEF Collectors
<1> QED BY <1>3 DEF strings, unswept

(* A full collection: the marks are given up, what was condemned goes.     *)
LEMMA FullGCSwept ==
  ASSUME IInv, FullGC
  PROVE  \E g2 : /\ HeapType' /\ Placed' /\ g2 \in Collectors
                 /\ Blank(g2)' /\ Safe(g2)' /\ Sweeping(g2)' /\ Painted(g2)' /\ Finalizing(g2)'
                 /\ g2.strings = {} /\ g2.unswept = {}
                 /\ g2.state # "propagate" /\ ~ g2.closing
                 /\ gc' \in Collectors /\ RootsMarked(g2, gc')
<1>1. PICK g : g = GiveUpMarks(gc)
  OBVIOUS
<1>2. PICK left : left = g.strings \union g.unswept
  OBVIOUS
<1>3. /\ ~ gc.closing /\ kind' = kind /\ running' = running
      /\ FreeDead(left) /\ gc' = [markroot(Swept(g, left)) EXCEPT !.full = TRUE]
  BY <1>1, <1>2, Zenon DEF FullGC, Runs
<1>4. /\ HeapType /\ gc \in Collectors /\ Finalizing(gc) /\ Placed /\ Blank(gc) /\ Safe(gc)
      /\ Sweeping(gc) /\ Painted(gc)
  BY <1>3 DEF IInv, Running, TypeOK
<1>5. /\ g \in Collectors /\ g.mark = gc.mark /\ g.state # "propagate" /\ ~ g.closing
      /\ Blank(g) /\ Safe(g) /\ Sweeping(g) /\ Painted(g) /\ Finalizing(g)
  <2>1. CASE gc.state \notin {"pause", "propagate"}
    BY <2>1, <1>1, <1>3, <1>4 DEF GiveUpMarks
  <2>2. CASE gc.state \in {"pause", "propagate"}
    <3>1. g = StartSweep(gc)
      BY <2>2, <1>1 DEF GiveUpMarks
    <3>2. /\ g \in Collectors
          /\ g.state = "sweepstring" /\ g.strings = Of("string")
          /\ g.unswept = {o \in exists : /\ kind[o] # "string"
                                         /\ ~ (kind[o] = "upval" /\ IsOpen(o))
                                         /\ o \notin Range(gc.tmudata)}
          /\ g.mark = gc.mark /\ g.closing = gc.closing
          /\ g.finalized = gc.finalized /\ g.tmudata = gc.tmudata
      BY <3>1, <1>4, StartSweepFields
    <3>3. /\ \A o \in Object : ~ isdead(gc, o)
          /\ Marked(gc) \subseteq exists
      BY <2>2, <1>3, NothingCondemned
    <3>4. exists \subseteq LeftToSweep(g) \union Range(g.tmudata)
      <4>1. \A u \in Range(gc.tmudata) : kind[u] = "udata"
        BY <1>4 DEF Finalizing
      <4> QED BY <4>1, <3>2, <1>4, AllIsLeft
    <3>5. Finalizing(g)
      BY <3>2, <1>4 DEF Finalizing
    <3>6. Blank(g) /\ Painted(g)
      BY <3>2, <1>4 DEF Blank, Painted, Of
    <3>7. Alive(g) = Alive(gc) /\ Marked(g) = Marked(gc) /\ \A o \in Object : ~ isdead(g, o)
      BY <3>2, <3>3 DEF Alive, Marked, iswhite, isdead
    <3>8. Safe(g)
      BY <3>2, <3>7, <1>4 DEF Safe
    <3>9. /\ \A o \in g.strings : o \in exists /\ kind[o] = "string"
          /\ \A o \in g.unswept : o \in exists /\ ~ IsOpen(o)
      BY <3>2, <1>4 DEF Of, Placed, HeapType
    <3>10. Sweeping(g)
      BY <3>2, <3>3, <3>4, <3>7, <3>9 DEF Sweeping
    <3> QED BY <3>2, <3>5, <3>6, <3>8, <3>10, <1>3
  <2> QED BY <2>1, <2>2
<1>6. PICK g2 : g2 = Swept(g, left)
  OBVIOUS
<1>7. left \in SUBSET Object
  BY <1>2, <1>5 DEF Collectors
<1>8. /\ HeapType' /\ Placed' /\ g2 \in Collectors
      /\ Blank(g2)' /\ Safe(g2)' /\ Sweeping(g2)' /\ Painted(g2)' /\ Finalizing(g2)'
  BY <1>2, <1>3, <1>4, <1>5, <1>6, <1>7, SweepSet
<1>9. g2.strings = {} /\ g2.unswept = {} /\ g2.state # "propagate" /\ ~ g2.closing
  BY <1>2, <1>4, <1>5, <1>6, <1>7, SweptFields
<1>10. markroot(g2) \in Collectors /\ RootsMarked(g2, markroot(g2))
  BY <1>4, <1>8, MarkRoot
<1>11. gc' \in Collectors /\ RootsMarked(g2, gc')
  BY <1>3, <1>6, <1>10 DEF Collectors, RootsMarked
<1> QED BY <1>8, <1>9, <1>11

(* Then a new mark phase begins.                                           *)
LEMMA FullGCStep ==
  ASSUME IInv, FullGC PROVE IInv'
<1>1. PICK g2 : /\ HeapType' /\ Placed' /\ g2 \in Collectors
                /\ Blank(g2)' /\ Safe(g2)' /\ Sweeping(g2)' /\ Painted(g2)' /\ Finalizing(g2)'
                /\ g2.strings = {} /\ g2.unswept = {}
                /\ g2.state # "propagate" /\ ~ g2.closing
                /\ gc' \in Collectors /\ RootsMarked(g2, gc')
  BY FullGCSwept
<1>2. PICK g3 : g3 = gc'
  OBVIOUS
<1>3. RootsMarked(g2, g3)'
  BY <1>1, <1>2 DEF RootsMarked, iswhite
<1>4. Running(g3)' /\ Finalizing(g3)'
  BY <1>1, <1>2, <1>3, MarkPhaseBeginsNext
<1> QED BY <1>1, <1>2, <1>4, <1>3 DEF IInv, TypeOK, RootsMarked

(* The mark phase goes on.                                                 *)
LEMMA MarkPhaseGoesOn ==
  ASSUME IInv, ~ gc.closing, gc.state = "propagate", NEW g2 \in Collectors, SameRest(gc, g2),
         Painted(g2), Listing(g2), BlackBut(g2, Pending(g2)),
         Marked(gc) \subseteq Marked(g2), Marked(g2) \subseteq exists,
         \A o \in Object : iswhite(g2, o) => g2.mark[o] = gc.mark[o]
  PROVE  Running(g2) /\ Finalizing(g2)
<1>1. /\ HeapType /\ gc \in Collectors /\ Finalizing(gc) /\ Placed /\ Blank(gc) /\ Safe(gc)
      /\ Sweeping(gc) /\ Marking(gc)
  BY DEF IInv, Running, TypeOK
<1>2. /\ \A o \in Object : ~ isdead(gc, o)
      /\ Alive(gc) = exists
  BY NothingCondemned
<1>3. \A o \in Object : ~ isdead(g2, o)
  BY <1>2 DEF isdead, iswhite
<1>4. Alive(g2) = Alive(gc)
  BY <1>1, <1>2, <1>3 DEF Alive, HeapType
<1>5. Blank(g2)
  <2>1. \A o \in Object \ exists : iswhite(g2, o)
    BY DEF Marked
  <2> QED BY <2>1, <1>1 DEF Blank, SameRest
<1>6. Safe(g2) /\ Finalizing(g2)
  BY <1>1, <1>4 DEF Safe, Finalizing, SameRest
<1>7. Sweeping(g2)
  BY <1>1, <1>3 DEF Sweeping, SameRest
<1>8. Marking(g2)
  BY <1>1 DEF Marking
<1> QED BY <1>1, <1>5, <1>6, <1>7, <1>8 DEF Running

(* One gray object is traversed.                                           *)
LEMMA PropagateOne ==
  ASSUME HeapType, Placed, NEW g \in Collectors, NEW o \in g.gray, Listing(g), Painted(g),
         BlackBut(g, Pending(g)), NEW g2, g2 = propagatemark(g, o)
  PROVE  /\ g2 \in Collectors /\ SameRest(g, g2) /\ Painted(g2) /\ Listing(g2)
         /\ BlackBut(g2, Pending(g2)) /\ Marked(g) \subseteq Marked(g2)
         /\ \A set \in SUBSET Object :
              Strong(o) \subseteq set /\ (\A p \in set : Strong(p) \subseteq set) =>
                Marked(g2) \subseteq Marked(g) \union set
         /\ \A p \in Object : iswhite(g2, p) => g2.mark[p] = g.mark[p]
<1>1. PICK g1 : g1 = Traversed(g, {o})
  OBVIOUS
<1>2. PICK values : values = Strong(o)
  OBVIOUS
<1>3. g2 = markvalues(g1, values)
  BY <1>1, <1>2 DEF propagatemark
<1>4. o \in Object /\ g.mark[o] = "gray" /\ Listed(o) /\ {o} \in SUBSET Object
  BY DEF Listing, Lists, Collectors
<1>5. /\ g1 \in Collectors
      /\ g1.mark = [p \in Object |-> IF p \in {o} THEN Finished(p) ELSE g.mark[p]]
      /\ g1.gray = g.gray \ {o}
      /\ g1.grayagain = g.grayagain \union ThreadsOf({o})
      /\ g1.weak = g.weak \union WeakOf({o})
      /\ SameRest(g, g1)
  <2> DEFINE set == {o}
  <2>1. set \in SUBSET Object /\ g1 = Traversed(g, set)
    BY <1>1, <1>4
  <2> HIDE DEF set
  <2>2. /\ g1 \in Collectors
        /\ g1.mark = [p \in Object |-> IF p \in set THEN Finished(p) ELSE g.mark[p]]
        /\ g1.gray = g.gray \ set
        /\ g1.grayagain = g.grayagain \union ThreadsOf(set)
        /\ g1.weak = g.weak \union WeakOf(set)
        /\ SameRest(g, g1)
    BY <2>1, TraversedFields
  <2> QED BY <2>2 DEF set
<1>6. /\ g1.mark[o] = Finished(o) /\ Finished(o) \in {"gray", "black"}
      /\ \A p \in Object : p # o => g1.mark[p] = g.mark[p]
  BY <1>4, <1>5 DEF Finished
<1>7. /\ kind[o] = "thread" => g1.grayagain = g.grayagain \union {o} /\ Finished(o) = "gray"
      /\ kind[o] # "thread" => g1.grayagain = g.grayagain
      /\ kind[o] \in {"weakkeys", "weakvalues"} => g1.weak = g.weak \union {o} /\ Finished(o) = "gray"
      /\ kind[o] \notin {"weakkeys", "weakvalues"} => g1.weak = g.weak
      /\ kind[o] \in {"table", "closure"} => Finished(o) = "black"
      /\ kind[o] \in {"table", "closure", "thread", "weakkeys", "weakvalues"}
  BY <1>4, <1>5 DEF ThreadsOf, WeakOf, Finished, Listed, Tables
<1>8. Marked(g1) = Marked(g) /\ o \in Marked(g)
  BY <1>4, <1>6 DEF Marked, iswhite
<1>9. o \notin g.grayagain /\ o \notin g.weak
  BY DEF Listing
<1>10. Listing(g1)
  <2>1. \A p \in Lists(g1) : g1.mark[p] = "gray" /\ Listed(p)
    <3>1. \A p \in Lists(g1) : /\ p # o => p \in Lists(g)
                               /\ p = o => kind[o] \in {"thread", "weakkeys", "weakvalues"}
      BY <1>5, <1>7, <1>9 DEF Lists
    <3>2. \A p \in Lists(g) : p \in Object /\ g.mark[p] = "gray" /\ Listed(p)
      BY DEF Listing, Lists, Collectors
    <3> QED BY <3>1, <3>2, <1>4, <1>6, <1>7
  <2>2. /\ g1.gray \intersect g1.grayagain = {} /\ g1.gray \intersect g1.weak = {}
        /\ g1.grayagain \intersect g1.weak = {}
    BY <1>5, <1>7, <1>9 DEF Listing
  <2>3. \A p \in Object : g1.mark[p] = "gray" =>
          p \in Lists(g1) \/ IsOpen(p) \/ kind[p] \in {"string", "none"}
    BY <1>5, <1>6, <1>7 DEF Listing, Lists
  <2>4. \A p \in Marked(g1) :
          /\ kind[p] = "thread" => p \in g1.gray \union g1.grayagain
          /\ kind[p] \in {"weakkeys", "weakvalues"} => p \in g1.gray \union g1.weak
    BY <1>5, <1>7, <1>8 DEF Listing
  <2> QED BY <2>1, <2>2, <2>3, <2>4 DEF Listing
<1>11. Painted(g1)
  BY <1>6, <1>7 DEF Painted, Placed
<1>12. Listing(g2) /\ Painted(g2)
  BY <1>3, <1>5, <1>10, <1>11, MarkValuesListing
<1>13. PICK new \in SUBSET Object : /\ g2 \in Collectors /\ SameRest(g1, g2)
                                    /\ g2.gray = g1.gray \union ListedOf(new)
                                    /\ g2.grayagain = g1.grayagain /\ g2.weak = g1.weak
  <2>1. g1 \in Collectors
    BY <1>5
  <2> QED BY <2>1, <1>3, MarkValues
<1>14. /\ Marked(g1) \subseteq Marked(g2) /\ values \intersect Object \subseteq Marked(g2)
       /\ \A p \in Object : iswhite(g2, p) \/ p \in Marked(g1) => g2.mark[p] = g1.mark[p]
       /\ \A set \in SUBSET Object :
            values \intersect Object \subseteq set /\ (\A p \in set : Strong(p) \subseteq set) =>
              Marked(g2) \subseteq Marked(g1) \union set
  BY <1>3, <1>5, MarkValuesInside
<1>15. BlackBut(g1, Pending(g))
  BY <1>8 DEF BlackBut
<1>16. BlackBut(g2, Pending(g) \union g2.gray)
  BY <1>3, <1>5, <1>15, MarkValuesBlack
<1>17. Strong(o) \subseteq Marked(g2)
  BY <1>2, <1>4, <1>14, StrongType
<1>18. Pending(g) \union g2.gray \subseteq Pending(g2) \union {o}
  BY <1>5, <1>13 DEF Pending, Lists, SameRest
<1>19. BlackBut(g2, Pending(g2))
  BY <1>16, <1>17, <1>18 DEF BlackBut
<1>20. ASSUME NEW set \in SUBSET Object, Strong(o) \subseteq set, \A p \in set : Strong(p) \subseteq set
       PROVE  Marked(g2) \subseteq Marked(g) \union set
  BY <1>2, <1>8, <1>14, <1>20
<1>21. \A p \in Object : iswhite(g2, p) => g2.mark[p] = g.mark[p]
  <2>1. o \in Marked(g2)
    BY <1>8, <1>14
  <2> QED BY <2>1, <1>6, <1>14 DEF Marked
<1> QED BY <1>5, <1>8, <1>12, <1>13, <1>14, <1>19, <1>20, <1>21 DEF SameRest

(* propagatemark of a gray object, or of them all in a full collection.    *)
LEMMA PropagateStep ==
  ASSUME IInv, Propagate PROVE IInv'
<1>1. /\ gc.state = "propagate" /\ ~ gc.closing
      /\ UNCHANGED <<kind, exists, heap, running, called>>
      /\ \/ gc' = propagateall(gc)
         \/ \E o \in gc.gray : gc' = propagatemark(gc, o)
  BY DEF Propagate
<1>2. /\ HeapType /\ gc \in Collectors /\ Placed /\ Blank(gc)
      /\ Painted(gc) /\ Listing(gc) /\ BlackBut(gc, Pending(gc))
  BY <1>1 DEF IInv, Running, TypeOK, Marking
<1>3. /\ \A o \in Object : ~ isdead(gc, o)
      /\ Marked(gc) \subseteq exists /\ exists \in SUBSET Object
      /\ \A o \in exists : Strong(o) \subseteq exists
  BY <1>1, NothingCondemned
<1>4. gc.gray \subseteq exists
  BY <1>2, <1>3 DEF Listing, Lists, Marked, iswhite, Collectors
<1>5. /\ gc' \in Collectors /\ SameRest(gc, gc') /\ Painted(gc') /\ Listing(gc')
      /\ BlackBut(gc', Pending(gc')) /\ Marked(gc) \subseteq Marked(gc')
      /\ Marked(gc') \subseteq exists
      /\ \A p \in Object : iswhite(gc', p) => gc'.mark[p] = gc.mark[p]
  <2>1. CASE gc' = propagateall(gc)
    <3>1. Listing(gc') /\ Painted(gc')
      BY <2>1, <1>2, PropagateAllListing
    <3>2. BlackBut(gc', Pending(gc) \ gc.gray)
      BY <2>1, <1>2, PropagateAllBlack
    <3>3. PICK found \in SUBSET Object :
            /\ gc' \in Collectors /\ SameRest(gc, gc')
            /\ gc'.gray = {}
            /\ gc'.grayagain = gc.grayagain \union ThreadsOf(found)
            /\ gc'.weak = gc.weak \union WeakOf(found)
      BY <2>1, <1>2, PropagateAll
    <3>4. Pending(gc) \ gc.gray \subseteq Pending(gc')
      BY <3>3 DEF Pending, Lists, SameRest
    <3>5. BlackBut(gc', Pending(gc'))
      BY <3>2, <3>4 DEF BlackBut
    <3>6. /\ \A set \in SUBSET Object :
               gc.gray \subseteq set /\ (\A o \in set : Strong(o) \subseteq set) =>
                 Marked(gc') \subseteq Marked(gc) \union set
          /\ Marked(gc) \subseteq Marked(gc')
          /\ \A o \in Object : iswhite(gc', o) => gc'.mark[o] = gc.mark[o]
      BY <2>1, <1>2, PropagateAllInside
    <3>7. Marked(gc') \subseteq exists
      BY <3>6, <1>3, <1>4
    <3> QED BY <3>1, <3>3, <3>5, <3>6, <3>7
  <2>2. CASE \E o \in gc.gray : gc' = propagatemark(gc, o)
    <3>1. PICK o \in gc.gray : gc' = propagatemark(gc, o)
      BY <2>2
    <3>2. /\ gc' \in Collectors /\ SameRest(gc, gc') /\ Painted(gc') /\ Listing(gc')
          /\ BlackBut(gc', Pending(gc')) /\ Marked(gc) \subseteq Marked(gc')
          /\ \A set \in SUBSET Object :
               Strong(o) \subseteq set /\ (\A p \in set : Strong(p) \subseteq set) =>
                 Marked(gc') \subseteq Marked(gc) \union set
          /\ \A p \in Object : iswhite(gc', p) => gc'.mark[p] = gc.mark[p]
      BY <3>1, <1>2, PropagateOne
    <3>3. Strong(o) \subseteq exists
      BY <1>3, <1>4
    <3>4. Marked(gc') \subseteq exists
      BY <3>2, <3>3, <1>3
    <3> QED BY <3>2, <3>4
  <2> QED BY <1>1, <2>1, <2>2
<1>6. Running(gc') /\ Finalizing(gc') /\ ~ gc'.closing
  BY <1>1, <1>5, MarkPhaseGoesOn DEF SameRest
<1> QED BY <1>1, <1>2, <1>5, <1>6, MarkStep

-----------------------------------------------------------------------------
(* The open upvalues of a thread from a level on are freed or closed.      *)
LEMMA CloseHeap ==
  ASSUME HeapType, Placed, NEW th \in Object, kind[th] = "thread", NEW level \in Level,
         luaF_close(th, level), kind' = kind, running' = running,
         NEW dead, dead = DeadFrom(th, level), NEW closed, closed = OpenFrom(th, level) \ dead
  PROVE  /\ dead \in SUBSET exists /\ closed \in SUBSET exists
         /\ \A o \in dead \union closed : IsOpen(o) /\ kind[o] = "upval"
         /\ \A o \in dead : isdead(gc, o)
         /\ \A o \in closed : ~ isdead(gc, o)
         /\ Kept(dead, closed)
<1>1. Free(dead, closed)
  BY DEF luaF_close
<1>2. \A o \in OpenFrom(th, level) : o \in exists /\ kind[o] = "upval" /\ IsOpen(o)
  BY ObjectAssumption DEF OpenFrom, Of, IsOpen, Closed
<1>3. /\ dead \in SUBSET exists /\ closed \in SUBSET exists
      /\ \A o \in dead \union closed : IsOpen(o) /\ kind[o] = "upval"
      /\ \A o \in dead : isdead(gc, o)
      /\ \A o \in closed : ~ isdead(gc, o)
  BY <1>2 DEF DeadFrom
<1>4. dead \in SUBSET Object /\ closed \in SUBSET Object
  BY <1>3 DEF HeapType
<1>5. running \notin dead /\ \A o \in closed : IsOpen(o)
  BY <1>3 DEF Placed
<1>6. \A o \in Object : IsOpen(o) /\ o \notin dead /\ o \notin closed => place[o].thread \notin dead
  BY <1>3 DEF Placed
<1> QED BY <1>1, <1>3, <1>4, <1>5, <1>6, FreeHeap

(* The collector, when upvalues are closed outside of the mark phase.      *)
LEMMA LinkedOutside ==
  ASSUME HeapType, gc \in Collectors, gc.state # "propagate", NEW th, NEW level,
         NEW dead, dead = DeadFrom(th, level), NEW closed, closed = OpenFrom(th, level) \ dead,
         NEW g2, g2 = Linked(th, level)
  PROVE  /\ g2 \in Collectors /\ SameRest(gc, g2)
         /\ \A o \in Object : g2.mark[o] = IF o \in dead \/ (o \in closed /\ gc.mark[o] = "gray")
                                           THEN "white" ELSE gc.mark[o]
<1> DEFINE mark1 == [o \in Object |-> IF o \in dead THEN "white" ELSE gc.mark[o]]
           gray == {uv \in closed : mark1[uv] = "gray"}
           mark2 == [o \in Object |-> IF o \in gray THEN "white" ELSE mark1[o]]
<1>1. PICK g1 : g1 = [gc EXCEPT !.mark = mark1]
  OBVIOUS
<1>2. Linked(th, level) = luaC_linkupvals(g1, closed)
  BY <1>1, Zenon DEF Linked, Keep
<1>3. mark1 \in [Object -> {"white", "dead", "gray", "black"}]
  BY DEF Collectors
<1>4. /\ g1 \in Collectors /\ SameRest(gc, g1) /\ g1.mark = mark1 /\ g1.state # "propagate"
  <2> HIDE DEF mark1
  <2> QED BY <1>1, <1>3 DEF Collectors, SameRest
<1>5. g2 = [g1 EXCEPT !.mark = mark2]
  <2>1. mark1 = g1.mark
    BY <1>4
  <2> HIDE DEF mark1
  <2> QED BY <1>2, <1>4, <2>1 DEF luaC_linkupvals
<1>6. mark2 \in [Object -> {"white", "dead", "gray", "black"}]
  BY <1>3
<1>7. g2 \in Collectors /\ SameRest(g1, g2) /\ g2.mark = mark2
  <2> HIDE DEF mark2
  <2> QED BY <1>4, <1>5, <1>6 DEF Collectors, SameRest
<1>8. \A o \in Object : mark2[o] = IF o \in dead \/ (o \in closed /\ gc.mark[o] = "gray")
                                   THEN "white" ELSE gc.mark[o]
  OBVIOUS
<1> HIDE DEF mark2
<1> QED BY <1>4, <1>7, <1>8 DEF SameRest

(* The collector, when upvalues are closed in the mark phase.              *)
LEMMA LinkedInside ==
  ASSUME HeapType, Placed, gc \in Collectors, gc.state = "propagate", NEW th, NEW level,
         DeadFrom(th, level) = {}, NEW closed, closed = OpenFrom(th, level),
         NEW g2, g2 = Linked(th, level)
  PROVE  /\ SameRest(gc, g2)
         /\ \E g1 \in Collectors, gray \in SUBSET closed :
              /\ SameRest(gc, g1) /\ g1.gray = gc.gray /\ g1.grayagain = gc.grayagain
              /\ g1.weak = gc.weak
              /\ gray = {uv \in closed : gc.mark[uv] = "gray"}
              /\ \A o \in Object : g1.mark[o] = IF o \in gray THEN "black" ELSE gc.mark[o]
              /\ g2 = markvalues(g1, {Contents(uv) : uv \in gray})
<1> DEFINE gray == {uv \in closed : gc.mark[uv] = "gray"}
           mark == [o \in Object |-> IF o \in gray THEN "black" ELSE gc.mark[o]]
           values == {Contents(uv) : uv \in gray}
           g1 == [gc EXCEPT !.mark = mark]
<1>1. [gc EXCEPT !.mark = Keep(gc.mark, DeadFrom(th, level), "white")] = gc
  <2>1. Keep(gc.mark, DeadFrom(th, level), "white") = gc.mark
    BY DEF Keep, Collectors
  <2> QED BY <2>1 DEF Collectors
<1>2. OpenFrom(th, level) \ DeadFrom(th, level) = closed
  OBVIOUS
<1>3. g2 = luaC_linkupvals(gc, closed)
  <2>1. g2 = luaC_linkupvals([gc EXCEPT !.mark = Keep(gc.mark, DeadFrom(th, level), "white")],
                             OpenFrom(th, level) \ DeadFrom(th, level))
    BY Zenon DEF Linked
  <2> QED BY <1>1, <1>2, <2>1
<1>4. g2 = markvalues(g1, values)
  BY <1>3, Zenon DEF luaC_linkupvals
<1>5. mark \in [Object -> {"white", "dead", "gray", "black"}]
  BY DEF Collectors
<1>6. \A o \in Object : mark[o] = IF o \in gray THEN "black" ELSE gc.mark[o]
  OBVIOUS
<1>7. /\ g1 \in Collectors /\ SameRest(gc, g1) /\ g1.gray = gc.gray
      /\ g1.grayagain = gc.grayagain /\ g1.weak = gc.weak /\ g1.mark = mark
  <2> HIDE DEF mark
  <2> QED BY <1>5 DEF Collectors, SameRest
<1>8. gray \in SUBSET closed
  OBVIOUS
<1> HIDE DEF g1, mark, values
<1>9. SameRest(gc, g2)
  <2>1. SameRest(g1, g2)
    BY <1>4, <1>7, MarkValues
  <2> QED BY <1>7, <2>1 DEF SameRest
<1> QED BY <1>4, <1>6, <1>7, <1>8, <1>9 DEF values

(* The close of some upvalues: the heap that is left, whatever the phase.  *)
LEMMA CloseKeeps ==
  ASSUME IInv, ~ gc.closing, NEW th \in Object, kind[th] = "thread", NEW level \in Level,
         luaF_close(th, level), kind' = kind, running' = running,
         NEW dead, dead = DeadFrom(th, level), NEW closed, closed = OpenFrom(th, level) \ dead,
         gc' \in Collectors, SameRest(gc, gc'), \A o \in dead : gc'.mark[o] = "white",
         \A o \in exists \ dead : isdead(gc', o) <=> isdead(gc, o),
         \A o \in Object \ exists : gc'.mark[o] = gc.mark[o]
  PROVE  /\ TypeOK' /\ Placed' /\ Blank(gc)' /\ Safe(gc)' /\ Finalizing(gc)'
         /\ LeftToSweep(gc) \ (dead \union closed) \subseteq LeftToSweep(gc)'
         /\ \A o \in gc'.strings : o \in exists' /\ kind'[o] = "string"
         /\ \A o \in gc'.unswept : o \in exists' /\ ~ IsOpen(o)'
<1>1. PICK left : left = gc.unswept
  OBVIOUS
<1>2. /\ HeapType /\ gc \in Collectors /\ Finalizing(gc) /\ Placed /\ Blank(gc) /\ Safe(gc)
      /\ Sweeping(gc)
  BY DEF IInv, Running, TypeOK
<1>3. /\ dead \in SUBSET exists /\ closed \in SUBSET exists
      /\ \A o \in dead \union closed : IsOpen(o) /\ kind[o] = "upval"
      /\ \A o \in dead : isdead(gc, o)
      /\ \A o \in closed : ~ isdead(gc, o)
      /\ HeapType' /\ Placed' /\ exists' = exists \ dead
      /\ called' = [done |-> called.done \ dead, late |-> called.late \ dead]
      /\ \A o \in Object : IsOpen(o)' <=> IsOpen(o) /\ o \notin dead /\ o \notin closed
      /\ \A o \in Object : IsOpen(o)' => place'[o] = place[o]
      /\ \A o \in Object \ dead : \A set : HoldsIn(o, set) => HoldsIn(o, set)'
      /\ \A o \in Object \ dead : Strong(o)' = Strong(o)
      /\ \A o \in Object \ dead : /\ node'[o] = node[o] /\ env'[o] = env[o]
                                  /\ upval'[o] = upval[o] /\ stack'[o] = stack[o]
                                  /\ ~ IsOpen(o) => value'[o] = value[o]
      /\ \A o \in dead : /\ node'[o] = EmptyNode /\ env'[o] = Globals /\ upval'[o] = Nil
                         /\ value'[o] = Nil /\ stack'[o] = NoStack
  <2>1. HeapType /\ Placed
    BY <1>2
  <2>2. /\ dead \in SUBSET exists /\ closed \in SUBSET exists
        /\ \A o \in dead \union closed : IsOpen(o) /\ kind[o] = "upval"
        /\ \A o \in dead : isdead(gc, o)
        /\ \A o \in closed : ~ isdead(gc, o)
        /\ Kept(dead, closed)
    BY <2>1, CloseHeap
  <2> QED BY <2>2 DEF Kept
<1>4. exists \in SUBSET Object /\ gc.strings \in SUBSET Object /\ left \in SUBSET Object
  BY <1>1, <1>2 DEF HeapType, Collectors
<1>5. \A o \in dead : /\ o \notin gc.strings /\ o \notin gc.unswept /\ o \notin gc.finalized
                      /\ o \notin Range(gc.tmudata)
  BY <1>2, <1>3 DEF Sweeping, Finalizing
<1>6. Blank(gc)'
  <2> SUFFICES ASSUME NEW o \in Object \ exists'
               PROVE  /\ node'[o] = EmptyNode /\ env'[o] = Globals /\ upval'[o] = Nil
                      /\ value'[o] = Nil /\ stack'[o] = NoStack /\ gc'.mark[o] = "white"
                      /\ o \notin gc'.strings /\ o \notin gc'.unswept /\ o \notin gc'.finalized
    BY DEF Blank
  <2>1. CASE o \in dead
    BY <2>1, <1>3, <1>5 DEF SameRest
  <2>2. CASE o \notin dead
    <3>1. o \notin exists /\ ~ IsOpen(o)
      BY <2>2, <1>2, <1>3 DEF Placed
    <3> QED BY <3>1, <2>2, <1>2, <1>3 DEF Blank, SameRest
  <2> QED BY <2>1, <2>2
<1>7. Alive(gc)' = Alive(gc) /\ Alive(gc) \in SUBSET Object
  <2>1. Alive(gc)' = {o \in exists' : ~ isdead(gc', o)}
    BY DEF Alive, isdead
  <2> QED BY <2>1, <1>3, <1>4 DEF Alive
<1>8. \A o \in Alive(gc) : o \in Object \ dead /\ HoldsIn(o, Alive(gc))
  BY <1>2, <1>3, <1>7, HoldsFields DEF Safe, Alive
<1>9. \A o \in Alive(gc) : Holds(o)' \subseteq Alive(gc)
  BY <1>3, <1>7, <1>8, HoldsFieldsNext
<1>10. Safe(gc)'
  BY <1>2, <1>7, <1>9 DEF Safe, SameRest
<1>11. Finalizing(gc)'
  <2>1. \A u \in Range(gc'.tmudata) :
          u \in exists' /\ u \in gc'.finalized /\ u \notin called'.done
    BY <1>2, <1>3, <1>5 DEF Finalizing, SameRest
  <2>2. \A u \in gc'.finalized : kind'[u] = "udata" /\ u \in Range(gc'.tmudata) \union called'.done
    BY <1>2, <1>3, <1>5 DEF Finalizing, SameRest
  <2>3. called'.done \subseteq gc'.finalized
    BY <1>2, <1>3 DEF Finalizing, SameRest
  <2> QED BY <2>1, <2>2, <2>3, <1>2 DEF Finalizing, SameRest
<1>12. LeftToSweep(gc)' = gc'.strings \union gc'.unswept \union OpenIn(gc.unswept)'
  BY Zenon DEF LeftToSweep
<1>13. /\ \A s \in SUBSET Object : \A o \in Object :
            o \in OpenIn(s)' <=> IsOpen(o)' /\ place'[o].thread \in s
       /\ \A s \in SUBSET Object : \A o \in Object :
            o \in OpenIn(s) <=> IsOpen(o) /\ place[o].thread \in s
  BY <1>2, <1>3, OpenInMembers, OpenInMembersNext
<1>14. ASSUME NEW o \in LeftToSweep(gc), o \notin dead \union closed PROVE o \in LeftToSweep(gc)'
  <2>1. CASE o \in gc.strings \union gc.unswept
    BY <2>1, <1>12 DEF SameRest
  <2>2. CASE o \in OpenIn(gc.unswept)
    <3>1. o \in Object
      BY <2>2, <1>2 DEF OpenIn, OpenFrom, Of, HeapType
    <3>2. IsOpen(o) /\ place[o].thread \in left
      BY <2>2, <3>1, <1>1, <1>4, <1>13
    <3>3. IsOpen(o)' /\ place'[o].thread \in left
      BY <3>1, <3>2, <1>3, <1>14
    <3>4. o \in OpenIn(left)'
      BY <3>1, <3>3, <1>4, <1>13
    <3>5. OpenIn(left)' = OpenIn(gc.unswept)'
      BY <1>1, Zenon DEF SameRest
    <3> QED BY <3>4, <3>5, <1>12
  <2> QED BY <2>1, <2>2 DEF LeftToSweep
<1>15. /\ \A o \in gc'.strings : o \in exists' /\ kind'[o] = "string"
       /\ \A o \in gc'.unswept : o \in exists' /\ ~ IsOpen(o)'
  BY <1>1, <1>2, <1>3, <1>4, <1>5 DEF Sweeping, SameRest
<1> QED BY <1>3, <1>6, <1>10, <1>11, <1>14, <1>15 DEF TypeOK

(* Upvalues are closed outside of the mark phase: what has a colour is     *)
(* white again.                                                            *)
LEMMA CloseOutside ==
  ASSUME IInv, NEW level \in Level, Close(level), gc.state # "propagate" PROVE IInv'
<1>1. /\ ~ gc.closing /\ luaF_close(running, level) /\ gc' = Linked(running, level)
      /\ kind' = kind /\ running' = running
  BY DEF Close, Runs
<1>2. /\ HeapType /\ gc \in Collectors /\ Placed /\ Sweeping(gc) /\ Painted(gc)
      /\ running \in Object /\ kind[running] = "thread"
  BY <1>1 DEF IInv, Running, TypeOK, HeapType, Placed
<1>3. PICK th, dead, closed : /\ th = running /\ dead = DeadFrom(th, level)
                              /\ closed = OpenFrom(th, level) \ dead
  OBVIOUS
<1>4. /\ dead \in SUBSET exists /\ closed \in SUBSET exists
      /\ \A o \in dead \union closed : IsOpen(o) /\ kind[o] = "upval"
      /\ \A o \in dead : isdead(gc, o)
      /\ \A o \in closed : ~ isdead(gc, o)
      /\ Kept(dead, closed)
  BY <1>1, <1>2, <1>3, CloseHeap
<1>5. /\ gc' \in Collectors /\ SameRest(gc, gc')
      /\ \A o \in Object : gc'.mark[o] = IF o \in dead \/ (o \in closed /\ gc.mark[o] = "gray")
                                         THEN "white" ELSE gc.mark[o]
  BY <1>1, <1>2, <1>3, LinkedOutside
<1>6. dead \subseteq Object /\ closed \subseteq Object /\ exists \subseteq Object
  BY <1>2, <1>4 DEF HeapType
<1>7. /\ \A o \in dead : gc'.mark[o] = "white"
      /\ \A o \in exists \ dead : isdead(gc', o) <=> isdead(gc, o)
      /\ \A o \in Object \ exists : gc'.mark[o] = gc.mark[o]
  BY <1>4, <1>5, <1>6 DEF isdead
<1>8. /\ TypeOK' /\ Placed' /\ Blank(gc)' /\ Safe(gc)' /\ Finalizing(gc)'
      /\ LeftToSweep(gc) \ (dead \union closed) \subseteq LeftToSweep(gc)'
      /\ \A o \in gc'.strings : o \in exists' /\ kind'[o] = "string"
      /\ \A o \in gc'.unswept : o \in exists' /\ ~ IsOpen(o)'
  BY <1>1, <1>2, <1>3, <1>5, <1>7, CloseKeeps
<1>9. ASSUME NEW o \in Object, isdead(gc', o)
      PROVE  o \in LeftToSweep(gc)' /\ (kind'[o] = "udata" => o \in called'.done)
  <2>1. o \notin dead /\ isdead(gc, o) /\ o \notin closed
    BY <1>4, <1>5, <1>9 DEF isdead
  <2>2. o \in LeftToSweep(gc) /\ (kind[o] = "udata" => o \in called.done)
    BY <2>1, <1>2 DEF Sweeping
  <2>3. called'.done = called.done \ dead
    BY <1>4 DEF Kept
  <2> QED BY <2>1, <2>2, <2>3, <1>1, <1>8
<1>10. ASSUME NEW o \in Object, ~ iswhite(gc', o)
       PROVE  o \in LeftToSweep(gc)' \union Range(gc'.tmudata)
  <2>1. o \notin dead /\ gc'.mark[o] = gc.mark[o] /\ ~ iswhite(gc, o)
    BY <1>5, <1>10 DEF iswhite
  <2>2. o \notin closed
    BY <2>1, <1>2, <1>4, <1>5, <1>10 DEF Painted, iswhite, Collectors
  <2>3. o \in LeftToSweep(gc) \union Range(gc.tmudata)
    BY <2>1, <1>2 DEF Sweeping, Marked
  <2> QED BY <2>1, <2>2, <2>3, <1>5, <1>8 DEF SameRest
<1>11. Sweeping(gc)'
  <2>1. /\ Marked(gc)' = {o \in Object : ~ iswhite(gc', o)}
        /\ \A o \in Object : isdead(gc, o)' <=> isdead(gc', o)
    BY DEF Marked, iswhite, isdead
  <2>2. /\ gc'.state # "sweepstring" => gc'.strings = {}
        /\ gc'.state \notin {"sweepstring", "sweep"} => gc'.unswept = {}
    BY <1>2, <1>5 DEF Sweeping, SameRest
  <2> QED BY <2>1, <2>2, <1>8, <1>9, <1>10 DEF Sweeping
<1>12. Painted(gc)'
  <2>1. \A o \in Object : gc'.mark[o] = "white" \/ gc'.mark[o] = gc.mark[o]
    BY <1>5
  <2>2. \A o \in Object : IsOpen(o)' => IsOpen(o)
    BY <1>4 DEF Kept
  <2> QED BY <2>1, <2>2, <1>1, <1>2 DEF Painted
<1> QED BY <1>5, <1>8, <1>11, <1>12 DEF IInv, Running, SameRest

(* Upvalues are closed in the mark phase: those that were gray are black,  *)
(* and what they refer to is marked.                                       *)
LEMMA CloseInside ==
  ASSUME IInv, NEW level \in Level, Close(level), gc.state = "propagate" PROVE IInv'
<1>1. /\ ~ gc.closing /\ luaF_close(running, level) /\ gc' = Linked(running, level)
      /\ kind' = kind /\ running' = running
  BY DEF Close, Runs
<1>2. /\ HeapType /\ gc \in Collectors /\ Placed /\ Sweeping(gc) /\ Painted(gc)
      /\ Listing(gc) /\ BlackBut(gc, Pending(gc)) /\ {Main, Globals} \subseteq Marked(gc)
      /\ running \in Object /\ kind[running] = "thread"
  BY <1>1 DEF IInv, Running, TypeOK, HeapType, Placed, Marking
<1>3. /\ \A o \in Object : ~ isdead(gc, o)
      /\ Marked(gc) \subseteq exists /\ exists \in SUBSET Object
      /\ \A o \in exists : Strong(o) \subseteq exists
  BY <1>1, NothingCondemned
<1>4. PICK th, dead, closed : /\ th = running /\ dead = DeadFrom(th, level)
                              /\ closed = OpenFrom(th, level) \ dead
  OBVIOUS
<1>5. /\ dead \in SUBSET exists /\ closed \in SUBSET exists
      /\ \A o \in dead \union closed : IsOpen(o) /\ kind[o] = "upval"
      /\ \A o \in dead : isdead(gc, o)
      /\ Kept(dead, closed)
  BY <1>1, <1>2, <1>4, CloseHeap
<1>6. dead = {} /\ DeadFrom(th, level) = {} /\ closed = OpenFrom(th, level)
  BY <1>3, <1>4, <1>5
<1>7. PICK g1 \in Collectors, gray \in SUBSET closed :
        /\ SameRest(gc, g1) /\ g1.gray = gc.gray /\ g1.grayagain = gc.grayagain
        /\ g1.weak = gc.weak
        /\ gray = {uv \in closed : gc.mark[uv] = "gray"}
        /\ \A o \in Object : g1.mark[o] = IF o \in gray THEN "black" ELSE gc.mark[o]
        /\ gc' = markvalues(g1, {Contents(uv) : uv \in gray})
  BY <1>1, <1>2, <1>4, <1>6, LinkedInside, SMTT(40)
<1>8. PICK values : values = {Contents(uv) : uv \in gray}
  OBVIOUS
<1>9. /\ SameRest(gc, g1) /\ g1.gray = gc.gray /\ g1.grayagain = gc.grayagain
      /\ g1.weak = gc.weak
      /\ gray = {uv \in closed : gc.mark[uv] = "gray"}
      /\ \A o \in Object : g1.mark[o] = IF o \in gray THEN "black" ELSE gc.mark[o]
      /\ values = {Contents(uv) : uv \in gray}
      /\ gc' = markvalues(g1, values)
  BY <1>7, <1>8
<1>10. PICK new \in SUBSET Object :
        /\ gc' \in Collectors /\ SameRest(g1, gc')
        /\ gc'.gray = g1.gray \union ListedOf(new)
        /\ gc'.grayagain = g1.grayagain /\ gc'.weak = g1.weak
        /\ \A o \in new : iswhite(g1, o) /\ gc'.mark[o] = IF Listed(o) THEN "gray" ELSE Finished(o)
        /\ \A o \in Object \ new : gc'.mark[o] = g1.mark[o]
        /\ Marked(gc') = Marked(g1) \union new
        /\ values \intersect Object \subseteq Marked(gc')
        /\ \A set \in SUBSET Object :
             values \intersect Object \subseteq set /\ (\A o \in set : PassesOn(o) \subseteq set)
               => new \subseteq set
  <2>1. g1 \in Collectors /\ gc' = markvalues(g1, values)
    BY <1>9
  <2> QED BY <2>1, MarkValues
<1>11. /\ Marked(g1) = Marked(gc) /\ gray \subseteq Object /\ closed \subseteq Object
      /\ SameRest(gc, gc')
      /\ \A o \in gray : kind[o] = "upval" /\ o \in exists
  BY <1>3, <1>5, <1>9, <1>10 DEF Marked, iswhite, SameRest
<1>12. \A o \in new : o \in exists /\ kind[o] # "upval"
  <2> DEFINE set == {o \in exists : kind[o] # "upval"}
  <2>1. ASSUME NEW o \in set PROVE PassesOn(o) \subseteq set
    <3>1. CASE kind[o] = "udata"
      <4>1. PassesOn(o) = Strong(o) /\ Strong(o) = Object \intersect {env[o]}
        BY <3>1, <1>3, StrongCases DEF PassesOn
      <4>2. kind[env[o]] \in Tables /\ Strong(o) \subseteq exists
        BY <1>2, <1>3 DEF Placed
      <4> QED BY <4>1, <4>2 DEF Tables
    <3>2. CASE kind[o] # "udata"
      BY <3>2 DEF PassesOn
    <3> QED BY <3>1, <3>2
  <2>2. ASSUME NEW uv \in gray, Contents(uv) \in Object PROVE Contents(uv) \in set
    <3>1. Contents(uv) \in Values
      BY <1>2, <1>11 DEF Contents, Placed, HeapType
    <3>2. Strong(uv) = Object \intersect {Contents(uv)} /\ Strong(uv) \subseteq exists
      BY <1>3, <1>11, StrongCases
    <3> QED BY <3>1, <3>2, <2>2, ObjectAssumption DEF Values
  <2>3. values \intersect Object \subseteq set
    BY <2>2, <1>9
  <2>4. set \in SUBSET Object
    BY <1>3
  <2>5. new \subseteq set
    <3> HIDE DEF set
    <3> QED BY <2>1, <2>3, <2>4, <1>10
  <2> QED BY <2>5
<1>13. /\ Marked(gc') \subseteq exists /\ Marked(gc) \subseteq Marked(gc')
       /\ \A o \in Object : ~ isdead(gc', o)
       /\ \A o \in Object \ exists : gc'.mark[o] = gc.mark[o]
  <2>1. Marked(gc') \subseteq exists /\ Marked(gc) \subseteq Marked(gc')
    BY <1>3, <1>10, <1>11, <1>12
  <2>2. \A o \in new : ~ isdead(gc', o)
    BY <1>10 DEF isdead, Finished
  <2>3. \A o \in Object \ new : ~ isdead(gc', o)
    BY <1>3, <1>9, <1>10 DEF isdead
  <2>4. \A o \in Object \ exists : gc'.mark[o] = gc.mark[o]
    BY <1>9, <1>10, <1>11, <1>12
  <2> QED BY <2>1, <2>2, <2>3, <2>4
<1>14. /\ TypeOK' /\ Placed' /\ Blank(gc)' /\ Safe(gc)' /\ Finalizing(gc)'
       /\ \A o \in gc'.strings : o \in exists' /\ kind'[o] = "string"
       /\ \A o \in gc'.unswept : o \in exists' /\ ~ IsOpen(o)'
  <2>1. /\ \A o \in dead : gc'.mark[o] = "white"
        /\ \A o \in exists \ dead : isdead(gc', o) <=> isdead(gc, o)
    BY <1>3, <1>6, <1>13
  <2>2. gc' \in Collectors /\ SameRest(gc, gc')
    BY <1>10, <1>11
  <2>3. \A o \in Object \ exists : gc'.mark[o] = gc.mark[o]
    BY <1>13
  <2>4. th \in Object /\ kind[th] = "thread" /\ luaF_close(th, level)
    BY <1>1, <1>2, <1>4
  <2> QED BY <2>1, <2>2, <2>3, <2>4, <1>1, <1>4, CloseKeeps
<1>15. /\ \A o \in Object : IsOpen(o)' <=> IsOpen(o) /\ o \notin closed
       /\ \A o \in Object : Strong(o)' = Strong(o)
  BY <1>5, <1>6 DEF Kept
<1>16. ASSUME NEW o \in closed PROVE (gc'.mark[o] = "black" /\ o \in gray) \/ o \notin Marked(gc')
  <2>1. o \notin new /\ o \in Object /\ gc.mark[o] # "black"
    BY <1>2, <1>5, <1>11, <1>12 DEF Painted
  <2>2. gc'.mark[o] = IF o \in gray THEN "black" ELSE gc.mark[o]
    BY <2>1, <1>9, <1>10
  <2> QED BY <2>1, <2>2, <1>2, <1>9 DEF Marked, iswhite, Collectors
<1>17. Painted(gc)'
  <2>1. ASSUME NEW o \in Object, IsOpen(o)' PROVE gc'.mark[o] # "black"
    <3>1. IsOpen(o) /\ o \notin gray /\ kind[o] = "upval"
      BY <2>1, <1>2, <1>15 DEF Placed
    <3> QED BY <3>1, <1>2, <1>9, <1>10, <1>12 DEF Painted
  <2>2. ASSUME NEW o \in Object, kind[o] = "udata" PROVE gc'.mark[o] # "gray"
    BY <2>2, <1>2, <1>9, <1>10, <1>11 DEF Painted, Finished, Listed, Tables
  <2> QED BY <2>1, <2>2, <1>1 DEF Painted
<1>18. Listing(g1)
  <2>1. Lists(g1) = Lists(gc) /\ \A o \in Lists(gc) : o \in Object /\ o \notin gray
    BY <1>2, <1>9, <1>11 DEF Lists, Listing, Listed, Tables, Collectors
  <2> QED BY <2>1, <1>2, <1>9, <1>11 DEF Listing
<1>19. Listing(gc')
  BY <1>2, <1>9, <1>18, MarkValuesListing
<1>20. /\ Marked(gc)' = Marked(gc') /\ Lists(gc)' = Lists(gc')
       /\ \A o \in Object : (Listed(o)' <=> Listed(o)) /\ (isdead(gc, o)' <=> isdead(gc', o))
       /\ Lists(gc') \subseteq Object
  BY <1>1, <1>10 DEF Marked, iswhite, Lists, Listed, Tables, isdead, Collectors
<1>21. Listing(gc)'
  <2>1. \A o \in Object : gc'.mark[o] = "gray" =>
          o \in Lists(gc') \/ IsOpen(o)' \/ kind[o] \in {"string", "none"}
    BY <1>15, <1>16, <1>19 DEF Listing, Marked, iswhite
  <2> QED BY <2>1, <1>1, <1>19, <1>20 DEF Listing
<1>22. BlackBut(gc', Pending(gc) \union gc'.gray)
  <2>1. BlackBut(g1, Pending(gc))
    BY <1>2, <1>11 DEF BlackBut
  <2> QED BY <2>1, <1>9, MarkValuesBlack
<1>23. ASSUME NEW o \in Marked(gc'), o \notin Lists(gc'), o \notin Range(gc'.tmudata), ~ IsOpen(o)'
       PROVE  Strong(o)' \subseteq Marked(gc')
  <2>1. o \in Object /\ Strong(o)' = Strong(o)
    BY <1>15 DEF Marked
  <2>2. CASE o \in closed
    <3>1. o \in gray
      BY <2>2, <1>16
    <3>2. Strong(o) = Object \intersect {Contents(o)} /\ Contents(o) \in values
      BY <3>1, <1>9, <1>11, StrongCases
    <3> QED BY <2>1, <3>2, <1>10
  <2>3. CASE o \notin closed
    <3>1. o \notin Pending(gc) \union gc'.gray
      BY <2>1, <2>3, <1>9, <1>10, <1>11, <1>15, <1>23 DEF Pending, Lists, SameRest
    <3> QED BY <2>1, <3>1, <1>22 DEF BlackBut
  <2> QED BY <2>2, <2>3
<1>24. BlackBut(gc, Pending(gc))'
  <2>1. Pending(gc)' = Lists(gc') \union Range(gc'.tmudata) \union {o \in Object : IsOpen(o)'}
    BY <1>20 DEF Pending
  <2>2. \A o \in Marked(gc') \ Pending(gc)' : Strong(o)' \subseteq Marked(gc')
    BY <2>1, <1>23 DEF Marked
  <2> QED BY <2>2, <1>20 DEF BlackBut
<1>25. Sweeping(gc)'
  BY <1>2, <1>11, <1>13, <1>14, <1>20 DEF Sweeping, SameRest
<1>26. Marking(gc)'
  BY <1>2, <1>13, <1>20, <1>21, <1>24 DEF Marking
<1> QED BY <1>14, <1>17, <1>25, <1>26 DEF IInv, Running

(* The variables from a level on go out of scope.                          *)
LEMMA CloseStep ==
  ASSUME IInv, NEW level \in Level, Close(level) PROVE IInv'
BY CloseOutside, CloseInside

-----------------------------------------------------------------------------
(* A finite set as a sequence: it has each of its elements once.           *)
LEMMA SetAsSequence ==
  ASSUME NEW set, IsFiniteSet(set)
  PROVE  /\ SetToSeq(set) \in Seq(set) /\ Range(SetToSeq(set)) = set
         /\ IsInjective(SetToSeq(set))
<1> DEFINE n == Cardinality(set)
           f == SetToSeq(set)
<1>1. n \in Nat /\ ExistsBijection(1 .. n, set)
  BY FS_CardinalityType
<1>2. \E e \in [1 .. n -> set] : IsInjective(e)
  BY <1>1 DEF ExistsBijection, Bijection, Injection
<1>3. f \in [1 .. n -> set] /\ IsInjective(f)
  BY <1>2 DEF SetToSeq
<1>4. IsFiniteSet(1 .. n) /\ Cardinality(1 .. n) = n
  BY <1>1, FS_Interval
<1>5. f \in Surjection(1 .. n, set)
  <2>1. f \in Injection(1 .. n, set)
    BY <1>3 DEF Injection
  <2> HIDE DEF f
  <2> QED BY <2>1, <1>4, FS_Injection
<1> HIDE DEF f, n
<1>6. f \in Seq(set) /\ Range(f) = set
  BY <1>1, <1>3, <1>5 DEF Surjection, Range
<1> QED BY <1>3, <1>6 DEF f

(* A sequence is extended with other elements, each but once.              *)
LEMMA Extended ==
  ASSUME NEW set, NEW s \in Seq(set), NEW t \in Seq(set), IsInjective(s), IsInjective(t),
         Range(s) \intersect Range(t) = {}
  PROVE  s \o t \in Seq(set) /\ Range(s \o t) = Range(s) \union Range(t) /\ IsInjective(s \o t)
<1>1. /\ s \o t \in Seq(set) /\ Len(s) \in Nat /\ Len(t) \in Nat /\ Len(s \o t) = Len(s) + Len(t)
      /\ DOMAIN s = 1 .. Len(s) /\ DOMAIN t = 1 .. Len(t)
      /\ DOMAIN (s \o t) = 1 .. Len(s) + Len(t)
  OBVIOUS
<1>2. /\ \A i \in 1 .. Len(s) : (s \o t)[i] = s[i]
      /\ \A i \in Len(s) + 1 .. Len(s) + Len(t) : (s \o t)[i] = t[i - Len(s)] /\ i - Len(s) \in 1 .. Len(t)
  BY <1>1
<1> DEFINE u == s \o t
<1> HIDE DEF u
<1>3. Range(u) = Range(s) \union Range(t)
  <2>1. Range(u) \subseteq Range(s) \union Range(t)
    BY <1>1, <1>2 DEF Range, u
  <2>2. Range(s) \subseteq Range(u)
    BY <1>1, <1>2 DEF Range, u
  <2>3. ASSUME NEW j \in 1 .. Len(t) PROVE t[j] \in Range(u)
    <3>1. /\ Len(s) + j \in Len(s) + 1 .. Len(s) + Len(t) /\ (Len(s) + j) - Len(s) = j
          /\ Len(s) + j \in DOMAIN u
      BY <1>1 DEF u
    <3>2. u[Len(s) + j] = t[j]
      BY <3>1, <1>2 DEF u
    <3> QED BY <3>1, <3>2 DEF Range
  <2> QED BY <2>1, <2>2, <2>3, <1>1 DEF Range
<1>4. ASSUME NEW i \in DOMAIN u, NEW j \in DOMAIN u, u[i] = u[j] PROVE i = j
  <2>1. CASE i \in 1 .. Len(s) /\ j \in 1 .. Len(s)
    BY <2>1, <1>1, <1>2, <1>4 DEF IsInjective, u
  <2>2. CASE i \notin 1 .. Len(s) /\ j \notin 1 .. Len(s)
    <3>1. i \in Len(s) + 1 .. Len(s) + Len(t) /\ j \in Len(s) + 1 .. Len(s) + Len(t)
      BY <2>2, <1>1 DEF u
    <3>2. t[i - Len(s)] = t[j - Len(s)] /\ i - Len(s) \in DOMAIN t /\ j - Len(s) \in DOMAIN t
      BY <3>1, <1>1, <1>2, <1>4 DEF u
    <3>3. i - Len(s) = j - Len(s)
      BY <3>2 DEF IsInjective
    <3> QED BY <3>1, <3>3, <1>1
  <2>3. ASSUME NEW k \in DOMAIN u, NEW m \in DOMAIN u, k \in 1 .. Len(s), m \notin 1 .. Len(s)
        PROVE  u[k] # u[m]
    <3>1. m \in Len(s) + 1 .. Len(s) + Len(t)
      BY <2>3, <1>1 DEF u
    <3>2. u[k] \in Range(s) /\ u[m] \in Range(t)
      BY <3>1, <2>3, <1>1, <1>2 DEF Range, u
    <3> QED BY <3>2
  <2> QED BY <2>1, <2>2, <2>3, <1>4
<1> QED BY <1>1, <1>3, <1>4 DEF IsInjective, u

(* The userdata that are to be finalized.                                  *)
Unfinalized(g, all) == {u \in Of("udata") : (iswhite(g, u) \/ all) /\ u \notin g.finalized}

(* They wait for their finalizers, after those that wait already.          *)
LEMMA Separate ==
  ASSUME HeapType, NEW g \in Collectors, NEW all, IsInjective(g.tmudata),
         Range(g.tmudata) \subseteq g.finalized, NEW g2, g2 = luaC_separateudata(g, all)
  PROVE  /\ g2 \in Collectors /\ IsInjective(g2.tmudata)
         /\ g2.finalized = g.finalized \union Unfinalized(g, all)
         /\ Range(g2.tmudata) = Range(g.tmudata) \union Unfinalized(g, all)
         /\ g2.mark = g.mark /\ g2.gray = g.gray /\ g2.grayagain = g.grayagain
         /\ g2.weak = g.weak /\ g2.state = g.state /\ g2.full = g.full
         /\ g2.closing = g.closing /\ g2.strings = g.strings /\ g2.unswept = g.unswept
<1> DEFINE found == Unfinalized(g, all)
           finalized == g.finalized \union found
           more == SetToSeq(found)
           tmudata == g.tmudata \o more
<1>1. found \in SUBSET Object /\ found \intersect g.finalized = {}
  BY DEF Unfinalized, Of, HeapType
<1>2. g2 = [g EXCEPT !.finalized = finalized, !.tmudata = tmudata]
  BY Zenon DEF luaC_separateudata, Unfinalized
<1> HIDE DEF found
<1>3. IsFiniteSet(found)
  BY <1>1, ObjectAssumption, FS_Subset
<1>4. more \in Seq(found) /\ Range(more) = found /\ IsInjective(more)
  BY <1>3, SetAsSequence
<1>5. g.tmudata \in Seq(Object) /\ more \in Seq(Object)
  <2> HIDE DEF more
  <2> QED BY <1>1, <1>4 DEF Collectors
<1>6. Range(g.tmudata) \intersect Range(more) = {}
  BY <1>1, <1>4
<1>7. /\ tmudata \in Seq(Object) /\ Range(tmudata) = Range(g.tmudata) \union found
      /\ IsInjective(tmudata)
  <2> HIDE DEF more
  <2> QED BY <1>4, <1>5, <1>6, Extended
<1>8. finalized \in SUBSET Object
  BY <1>1 DEF Collectors
<1> HIDE DEF tmudata, finalized, more
<1>9. g2 \in Collectors /\ g2.finalized = finalized /\ g2.tmudata = tmudata
  BY <1>2, <1>7, <1>8 DEF Collectors
<1>10. /\ g2.mark = g.mark /\ g2.gray = g.gray /\ g2.grayagain = g.grayagain
       /\ g2.weak = g.weak /\ g2.state = g.state /\ g2.full = g.full
       /\ g2.closing = g.closing /\ g2.strings = g.strings /\ g2.unswept = g.unswept
  BY <1>2 DEF Collectors
<1> QED BY <1>7, <1>9, <1>10 DEF found, finalized

(* The state begins to be closed: all userdata are to be finalized.        *)
LEMMA BeginCloseStep ==
  ASSUME IInv, BeginClose PROVE IInv'
<1>1. PICK g : g = luaC_separateudata(gc, TRUE)
  OBVIOUS
<1>2. /\ ~ gc.closing /\ luaF_close(Main, 1) /\ kind' = kind /\ running' = running
      /\ gc' = [GCInit EXCEPT !.closing = TRUE, !.finalized = g.finalized, !.tmudata = g.tmudata]
  BY <1>1, Zenon DEF BeginClose, Runs
<1>3. /\ HeapType /\ gc \in Collectors /\ Finalizing(gc) /\ Placed
  BY <1>2 DEF IInv, Running, TypeOK
<1>4. PICK th, level : th = Main /\ level = 1
  OBVIOUS
<1>5. th \in Object /\ kind[th] = "thread" /\ level \in Level /\ luaF_close(th, level)
  BY <1>2, <1>3, <1>4, KindsType, LevelAssumption
<1>6. PICK dead, closed : dead = DeadFrom(th, level) /\ closed = OpenFrom(th, level) \ dead
  OBVIOUS
<1>7. /\ dead \in SUBSET exists /\ closed \in SUBSET exists
      /\ \A o \in dead \union closed : IsOpen(o) /\ kind[o] = "upval"
      /\ Kept(dead, closed)
  BY <1>2, <1>3, <1>5, <1>6, CloseHeap
<1>8. /\ HeapType' /\ exists' = exists \ dead
      /\ called' = [done |-> called.done \ dead, late |-> called.late \ dead]
  BY <1>7 DEF Kept
<1>9. IsInjective(gc.tmudata) /\ Range(gc.tmudata) \subseteq gc.finalized
  BY <1>3 DEF Finalizing, IsInjective
<1>10. /\ g \in Collectors /\ IsInjective(g.tmudata)
       /\ g.finalized = gc.finalized \union Unfinalized(gc, TRUE)
       /\ Range(g.tmudata) = Range(gc.tmudata) \union Unfinalized(gc, TRUE)
  BY <1>1, <1>3, <1>9, Separate, ZenonT(30)
<1>11. /\ gc' \in Collectors /\ gc'.closing /\ gc'.finalized = g.finalized
       /\ gc'.tmudata = g.tmudata
  BY <1>2, <1>10 DEF Collectors, GCInit
<1>12. \A u : u \in Unfinalized(gc, TRUE) <=>
               u \in exists /\ kind[u] = "udata" /\ u \notin gc.finalized
  BY DEF Unfinalized, Of
<1>13. Finalizing(gc)'
  <2>1. ASSUME NEW u \in Range(gc'.tmudata)
        PROVE  u \in exists' /\ u \in gc'.finalized /\ u \notin called'.done
    BY <2>1, <1>3, <1>7, <1>8, <1>10, <1>11, <1>12 DEF Finalizing
  <2>2. ASSUME NEW u \in gc'.finalized
        PROVE  kind'[u] = "udata" /\ u \in Range(gc'.tmudata) \union called'.done
    BY <2>2, <1>2, <1>3, <1>7, <1>8, <1>10, <1>11, <1>12 DEF Finalizing
  <2>3. called'.done \subseteq gc'.finalized
    BY <1>3, <1>8, <1>10, <1>11 DEF Finalizing
  <2>4. \A u \in Of("udata")' : u \in gc'.finalized
    BY <1>2, <1>8, <1>10, <1>11, <1>12 DEF Of
  <2>5. \A m, n \in DOMAIN gc'.tmudata : gc'.tmudata[m] = gc'.tmudata[n] => m = n
    BY <1>10, <1>11 DEF IsInjective
  <2> QED BY <2>1, <2>2, <2>3, <2>4, <2>5 DEF Finalizing
<1> QED BY <1>8, <1>11, <1>13 DEF IInv, TypeOK

(* A finalizer that is called when the state is closed makes a userdata.   *)
LEMMA CloseNewStep ==
  ASSUME IInv, NEW u \in Object, CloseNew(u) PROVE IInv'
<1>1. /\ gc.closing /\ kind[u] = "udata" /\ exists' = exists \union {u}
      /\ called' = [called EXCEPT !.late = @ \union {u}]
      /\ UNCHANGED <<kind, node, env, upval, place, value, stack, running, gc>>
  BY DEF CloseNew, Born, heap
<1>2. HeapType /\ gc \in Collectors /\ Finalizing(gc)
  BY DEF IInv, TypeOK
<1>3. called'.done = called.done /\ called'.late = called.late \union {u}
  BY <1>1, <1>2 DEF HeapType
<1>4. HeapType'
  BY <1>1, <1>2 DEF HeapType, Values
<1>5. Finalizing(gc)'
  BY <1>1, <1>2, <1>3 DEF Finalizing, Of
<1> QED BY <1>1, <1>2, <1>4, <1>5 DEF IInv, TypeOK

(* The first of those that wait is taken off.                              *)
LEMMA HeadOff ==
  ASSUME NEW set, NEW s \in Seq(set), s # <<>>, IsInjective(s)
  PROVE  /\ Head(s) \in Range(s) /\ Tail(s) \in Seq(set) /\ IsInjective(Tail(s))
         /\ Range(Tail(s)) = Range(s) \ {Head(s)}
<1>1. /\ Len(s) \in Nat /\ Len(s) >= 1 /\ DOMAIN s = 1 .. Len(s) /\ Head(s) = s[1]
      /\ Tail(s) \in Seq(set) /\ Len(Tail(s)) = Len(s) - 1 /\ DOMAIN Tail(s) = 1 .. Len(s) - 1
      /\ \A i \in 1 .. Len(s) - 1 : Tail(s)[i] = s[i + 1]
  OBVIOUS
<1> DEFINE t == Tail(s)
           h == Head(s)
<1> HIDE DEF t, h
<1>2. /\ DOMAIN t = 1 .. Len(s) - 1 /\ \A i \in 1 .. Len(s) - 1 : t[i] = s[i + 1]
      /\ h = s[1] /\ 1 \in DOMAIN s
      /\ \A i \in 1 .. Len(s) - 1 : i + 1 \in DOMAIN s /\ i + 1 # 1
  BY <1>1 DEF t, h
<1>3. h \in Range(s)
  BY <1>2 DEF Range
<1>4. IsInjective(t)
  <2> SUFFICES ASSUME NEW i \in DOMAIN t, NEW j \in DOMAIN t, t[i] = t[j] PROVE i = j
    BY DEF IsInjective
  <2>1. s[i + 1] = s[j + 1] /\ i + 1 \in DOMAIN s /\ j + 1 \in DOMAIN s
    BY <1>2
  <2>2. i + 1 = j + 1
    BY <2>1 DEF IsInjective
  <2> QED BY <2>2, <1>1, <1>2
<1>5. Range(t) \subseteq Range(s) \ {h}
  <2> SUFFICES ASSUME NEW i \in DOMAIN t PROVE t[i] \in Range(s) /\ t[i] # h
    BY DEF Range
  <2> QED BY <1>2 DEF Range, IsInjective
<1>6. ASSUME NEW j \in DOMAIN s, s[j] # h PROVE s[j] \in Range(t)
  <2>1. j \in 1 .. Len(s) /\ j # 1
    BY <1>1, <1>2, <1>6
  <2>2. j - 1 \in 1 .. Len(s) - 1 /\ (j - 1) + 1 = j
    BY <2>1, <1>1
  <2>3. t[j - 1] = s[j] /\ j - 1 \in DOMAIN t
    BY <2>2, <1>2
  <2> QED BY <2>3 DEF Range
<1>7. Range(s) \ {h} \subseteq Range(t)
  BY <1>6 DEF Range
<1> QED BY <1>1, <1>3, <1>4, <1>5, <1>7 DEF t, h

(* A finalizer is called: its userdata waits no more.                      *)
LEMMA Finalizer ==
  ASSUME TypeOK, Finalizing(gc), gc.tmudata # <<>>, CallFinalizer,
         UNCHANGED <<kind, exists, node, env, upval, place, value, running>>,
         NEW u, u = Head(gc.tmudata)
  PROVE  /\ u \in Range(gc.tmudata) /\ TypeOK' /\ Finalizing(gc)'
         /\ Range(gc'.tmudata) = Range(gc.tmudata) \ {u}
         /\ gc'.state = gc.state /\ gc'.closing = gc.closing
         /\ gc'.strings = gc.strings /\ gc'.unswept = gc.unswept
         /\ gc'.finalized = gc.finalized
         /\ \A o \in Object : gc'.mark[o] = IF o = u THEN "white" ELSE gc.mark[o]
         /\ \A o \in Object : \A i \in Level :
              stack'[o][i] = stack[o][i] \/ (o = running /\ stack'[o][i] = u)
<1>1. HeapType /\ gc \in Collectors
  BY DEF TypeOK
<1>2. gc.tmudata \in Seq(Object) /\ IsInjective(gc.tmudata)
  BY <1>1 DEF Collectors, Finalizing, IsInjective
<1>3. PICK rest : rest = Tail(gc.tmudata)
  OBVIOUS
<1>4. /\ u \in Range(gc.tmudata) /\ rest \in Seq(Object) /\ IsInjective(rest)
      /\ Range(rest) = Range(gc.tmudata) \ {u}
  BY <1>2, <1>3, HeadOff
<1>5. u \in Object /\ kind[u] = "udata" /\ u \in exists /\ u \in gc.finalized /\ u \notin called.done
  BY <1>1, <1>4 DEF Finalizing, HeapType
<1>6. /\ called' = [called EXCEPT !.done = @ \union {u}]
      /\ \/ stack' = stack
         \/ \E i \in FirstFree : stack' = [stack EXCEPT ![running][i] = u]
  BY DEF CallFinalizer, Put
<1> DEFINE mark == [gc.mark EXCEPT ![u] = "white"]
<1>7. gc' = [[gc EXCEPT !.mark = mark] EXCEPT !.tmudata = rest]
  <2>1. makewhite(gc, u) = [gc EXCEPT !.mark = mark]
    BY <1>1 DEF makewhite, Paint, Collectors
  <2>2. gc' = [makewhite(gc, u) EXCEPT !.tmudata = Tail(@)]
    BY DEF CallFinalizer
  <2> HIDE DEF mark
  <2>3. makewhite(gc, u).tmudata = gc.tmudata
    BY <2>1, <1>1 DEF Collectors
  <2> QED BY <2>1, <2>2, <2>3, <1>3
<1>8. mark \in [Object -> {"white", "dead", "gray", "black"}]
  BY <1>1 DEF Collectors
<1>9. \A o \in Object : mark[o] = IF o = u THEN "white" ELSE gc.mark[o]
  BY <1>1 DEF Collectors
<1> HIDE DEF mark
<1>10. gc' \in Collectors /\ gc'.mark = mark /\ gc'.tmudata = rest
  BY <1>1, <1>4, <1>7, <1>8 DEF Collectors
<1>11. /\ gc'.state = gc.state /\ gc'.closing = gc.closing
       /\ gc'.strings = gc.strings /\ gc'.unswept = gc.unswept
       /\ gc'.finalized = gc.finalized
  BY <1>1, <1>7 DEF Collectors
<1>12. /\ stack' \in [Object -> [Level -> Values]]
       /\ \A o \in Object : \A i \in Level :
              stack'[o][i] = stack[o][i] \/ (o = running /\ stack'[o][i] = u)
  <2>1. CASE stack' = stack
    BY <2>1, <1>1 DEF HeapType
  <2>2. CASE \E i \in FirstFree : stack' = [stack EXCEPT ![running][i] = u]
    <3>1. PICK i \in Level : stack' = [stack EXCEPT ![running][i] = u]
      BY <2>2 DEF FirstFree
    <3>2. u \in Values /\ running \in Object
      BY <1>1, <1>5 DEF Values, HeapType
    <3>3. PICK th \in Object : th = running /\ stack' = [stack EXCEPT ![th][i] = u]
      BY <3>1, <3>2
    <3>4. /\ stack' \in [Object -> [Level -> Values]]
          /\ stack'[th][i] = u
          /\ \A o \in Object : \A k \in Level :
               stack'[o][k] = stack[o][k] \/ (o = th /\ k = i)
      BY <3>2, <3>3, <1>1 DEF HeapType
    <3> QED BY <3>3, <3>4
  <2> QED BY <1>6, <2>1, <2>2
<1>13. /\ called'.done = called.done \union {u} /\ called'.late = called.late
       /\ called' \in [done : SUBSET Object, late : SUBSET Object]
  BY <1>1, <1>5, <1>6 DEF HeapType
<1>14. TypeOK'
  BY <1>1, <1>10, <1>12, <1>13 DEF TypeOK, HeapType, Values, Collectors
<1>15. Finalizing(gc)'
  <2>1. \A x \in Range(gc'.tmudata) :
          x \in exists' /\ x \in gc'.finalized /\ x \notin called'.done
    BY <1>4, <1>10, <1>11, <1>13 DEF Finalizing
  <2>2. \A x \in gc'.finalized : kind'[x] = "udata" /\ x \in Range(gc'.tmudata) \union called'.done
    BY <1>4, <1>10, <1>11, <1>13 DEF Finalizing
  <2>3. called'.done \subseteq gc'.finalized
    BY <1>5, <1>11, <1>13 DEF Finalizing
  <2>4. gc'.closing => \A x \in Of("udata")' : x \in gc'.finalized \union called'.late
    BY <1>11, <1>13 DEF Finalizing, Of
  <2>5. \A m, n \in DOMAIN gc'.tmudata : gc'.tmudata[m] = gc'.tmudata[n] => m = n
    BY <1>4, <1>10 DEF IsInjective
  <2> QED BY <2>1, <2>2, <2>3, <2>4, <2>5 DEF Finalizing
<1> QED BY <1>4, <1>9, <1>10, <1>11, <1>12, <1>14, <1>15

(* The state is closed: finalizers are called, then all is freed.          *)
LEMMA CloseStateStep ==
  ASSUME IInv, CloseState PROVE IInv'
<1>1. /\ TypeOK /\ Finalizing(gc) /\ gc.closing
      /\ UNCHANGED <<kind, node, env, upval, place, value, running>>
  BY DEF IInv, CloseState
<1>2. CASE gc.tmudata # <<>>
  <2>1. CallFinalizer /\ exists' = exists
    BY <1>2 DEF CloseState
  <2>2. TypeOK' /\ Finalizing(gc)' /\ gc'.closing = gc.closing
    BY <1>1, <1>2, <2>1, Finalizer
  <2> QED BY <1>1, <2>2 DEF IInv
<1>3. CASE gc.tmudata = <<>>
  <2>1. exists' = {Main} /\ UNCHANGED <<gc, stack, called>>
    BY <1>3 DEF CloseState
  <2>2. kind[Main] = "thread" /\ Main \in Object
    BY <1>1, KindsType DEF TypeOK
  <2>3. TypeOK'
    BY <1>1, <2>1, <2>2 DEF TypeOK, HeapType, Values, Collectors
  <2>4. Range(gc.tmudata) = {}
    BY <1>3 DEF Range
  <2>5. Of("udata")' = {}
    BY <1>1, <2>1, <2>2 DEF Of
  <2>6. Finalizing(gc)'
    BY <1>1, <2>1, <2>4, <2>5 DEF Finalizing
  <2> QED BY <1>1, <2>1, <2>3, <2>6 DEF IInv
<1> QED BY <1>2, <1>3

(* The end of a cycle: finalizers are called, one a step.                  *)
LEMMA FinalizeStep ==
  ASSUME IInv, Finalize PROVE IInv'
<1>1. /\ ~ gc.closing /\ gc.state = "finalize"
      /\ UNCHANGED <<kind, node, env, upval, place, value, running>>
  BY DEF Finalize
<1>2. /\ TypeOK /\ HeapType /\ gc \in Collectors /\ Finalizing(gc) /\ Placed /\ Blank(gc) /\ Safe(gc)
      /\ Sweeping(gc) /\ Painted(gc)
  BY <1>1 DEF IInv, Running, TypeOK
<1>3. /\ \A o \in Object : ~ isdead(gc, o)
      /\ Alive(gc) = exists /\ exists \in SUBSET Object
  BY <1>1, NothingCondemned
<1>4. CASE gc.tmudata = <<>>
  <2>1. /\ gc' = [gc EXCEPT !.state = "pause", !.full = FALSE]
        /\ UNCHANGED <<kind, exists, heap, running, called>>
    BY <1>1, <1>4 DEF Finalize, heap
  <2>2. /\ gc' \in Collectors /\ gc'.state = "pause" /\ gc'.mark = gc.mark
        /\ gc'.strings = gc.strings /\ gc'.unswept = gc.unswept /\ gc'.closing = gc.closing
        /\ gc'.finalized = gc.finalized /\ gc'.tmudata = gc.tmudata
    BY <1>2, <2>1 DEF Collectors
  <2>3. Finalizing(gc') /\ Blank(gc') /\ Painted(gc')
    BY <1>2, <2>2 DEF Finalizing, Blank, Painted
  <2>4. /\ Alive(gc') = Alive(gc) /\ Marked(gc') = Marked(gc)
        /\ LeftToSweep(gc') = LeftToSweep(gc)
        /\ \A o \in Object : isdead(gc', o) <=> isdead(gc, o)
    BY <2>2 DEF Alive, Marked, LeftToSweep, isdead, iswhite
  <2>5. Safe(gc') /\ Sweeping(gc')
    BY <1>1, <1>2, <2>2, <2>4 DEF Safe, Sweeping
  <2> QED BY <1>1, <1>2, <2>1, <2>2, <2>3, <2>5, MarkStep DEF Running
<1>5. CASE gc.tmudata # <<>>
  <2>1. PICK u : u = Head(gc.tmudata)
    OBVIOUS
  <2>2. CallFinalizer /\ exists' = exists
    BY <1>5 DEF Finalize
  <2>3. /\ u \in Range(gc.tmudata) /\ TypeOK' /\ Finalizing(gc)'
        /\ Range(gc'.tmudata) = Range(gc.tmudata) \ {u}
        /\ gc'.state = gc.state /\ gc'.closing = gc.closing
        /\ gc'.strings = gc.strings /\ gc'.unswept = gc.unswept
        /\ gc'.finalized = gc.finalized
        /\ \A o \in Object : gc'.mark[o] = IF o = u THEN "white" ELSE gc.mark[o]
        /\ \A o \in Object : \A i \in Level :
             stack'[o][i] = stack[o][i] \/ (o = running /\ stack'[o][i] = u)
    BY <1>1, <1>2, <1>5, <2>1, <2>2, Finalizer
  <2>4. u \in exists /\ running \in exists /\ kind[running] = "thread"
    BY <1>2, <2>3 DEF Finalizing, Safe, Alive, Placed
  <2>5. Placed'
    BY <1>1, <1>2, <2>2 DEF Placed, IsOpen, Closed, Of
  <2>6. Blank(gc)'
    <3> SUFFICES ASSUME NEW o \in Object \ exists
                 PROVE  stack'[o] = stack[o] /\ gc'.mark[o] = gc.mark[o]
      BY <1>1, <1>2, <2>2, <2>3 DEF Blank
    <3>1. \A i \in Level : stack'[o][i] = stack[o][i]
      BY <2>3, <2>4
    <3>2. stack[o] \in [Level -> Values] /\ stack'[o] \in [Level -> Values']
      BY <1>2, <2>3 DEF TypeOK, HeapType
    <3>3. stack'[o] = stack[o]
      BY <3>1, <3>2
    <3> QED BY <3>3, <2>3, <2>4
  <2>7. /\ \A o \in Object : ~ isdead(gc', o)
        /\ Alive(gc)' = exists
        /\ Marked(gc)' \subseteq Marked(gc) \ {u}
    BY <1>3, <2>2, <2>3 DEF isdead, Alive, Marked, iswhite
  <2>8. \A o \in exists : HoldsIn(o, exists)'
    <3> SUFFICES ASSUME NEW o \in exists PROVE HoldsIn(o, exists)'
      OBVIOUS
    <3>1. o \in Object /\ HoldsIn(o, exists)
      BY <1>2, <1>3, HoldsFields DEF Safe
    <3>2. kind[o] = "upval" => Contents(o)' \in {Contents(o), u}
      <4>1. CASE ~ IsOpen(o)
        BY <4>1, <1>1 DEF Contents, IsOpen, Closed
      <4>2. CASE IsOpen(o)
        <5>1. place[o].thread \in Object /\ place[o].level \in Level
          BY <4>2, <3>1, <1>2, <1>3 DEF Placed
        <5>2. /\ Contents(o) = stack[place[o].thread][place[o].level]
              /\ Contents(o)' = stack'[place[o].thread][place[o].level]
          BY <4>2, <1>1 DEF Contents, IsOpen, Closed
        <5> QED BY <5>1, <5>2, <2>3
      <4> QED BY <4>1, <4>2
    <3>3. \A i \in Level : stack'[o][i] \in {stack[o][i], u}
      BY <3>1, <2>3
    <3> QED BY <3>1, <3>2, <3>3, <1>1, <2>2, <2>4 DEF HoldsIn, Tables
  <2>9. Safe(gc)'
    <3>1. HeapType' /\ exists' \in SUBSET Object
      BY <1>3, <2>2, <2>3 DEF TypeOK
    <3>2. \A o \in exists : Holds(o)' \subseteq exists
      BY <3>1, <1>3, <2>2, <2>8, HoldsFieldsNext
    <3> QED BY <3>2, <1>1, <1>2, <1>3, <2>2, <2>3, <2>7 DEF Safe
  <2>10. Sweeping(gc)'
    <3>1. gc.strings = {} /\ gc.unswept = {} /\ LeftToSweep(gc) = {}
      BY <1>1, <1>2 DEF Sweeping, LeftToSweep, OpenIn
    <3>2. Marked(gc) \subseteq Range(gc.tmudata)
      BY <3>1, <1>1, <1>2 DEF Sweeping
    <3>3. \A o \in Object : ~ isdead(gc, o)'
      BY <2>7 DEF isdead
    <3> QED BY <3>1, <3>2, <3>3, <1>1, <2>3, <2>7 DEF Sweeping
  <2>11. Painted(gc)'
    BY <1>1, <1>2, <2>3 DEF Painted, IsOpen, Closed
  <2> QED BY <1>1, <2>3, <2>5, <2>6, <2>9, <2>10, <2>11 DEF IInv, Running
<1> QED BY <1>4, <1>5

-----------------------------------------------------------------------------
(* The atomic step that ends the mark phase.  While it goes on, what is    *)
(* marked refers to what is marked, but for some objects that are yet to   *)
(* be traversed.                                                           *)
Phase(g, pending) ==
  /\ g \in Collectors /\ Listing(g) /\ Painted(g) /\ BlackBut(g, pending)
  /\ Marked(g) \subseteq exists /\ \A o \in Object : ~ isdead(g, o)

(* What is there is closed under references.                               *)
ClosedHeap ==
  /\ HeapType /\ Placed /\ exists \in SUBSET Object
  /\ \A o \in exists : Strong(o) \subseteq exists

(* Values are marked.                                                      *)
LEMMA PhaseMark ==
  ASSUME ClosedHeap, NEW g, NEW pending, Phase(g, pending), NEW values,
         values \intersect Object \subseteq exists, NEW g2, g2 = markvalues(g, values)
  PROVE  /\ Phase(g2, pending \union g2.gray) /\ SameRest(g, g2)
         /\ g.gray \subseteq g2.gray /\ g2.grayagain = g.grayagain /\ g2.weak = g.weak
         /\ Marked(g) \subseteq Marked(g2) /\ values \intersect Object \subseteq Marked(g2)
         /\ \A o \in Marked(g2) : o \in Marked(g) \/ o \in g2.gray \/ Strong(o) \subseteq Marked(g2)
<1>1. g \in Collectors
  BY DEF Phase
<1>2. /\ Listing(g) /\ Painted(g) /\ BlackBut(g, pending) /\ HeapType /\ Placed
      /\ Marked(g) \subseteq exists /\ \A o \in Object : ~ isdead(g, o)
      /\ exists \in SUBSET Object /\ \A o \in exists : Strong(o) \subseteq exists
  BY DEF Phase, ClosedHeap
<1>3. PICK new \in SUBSET Object :
        /\ g2 \in Collectors /\ SameRest(g, g2)
        /\ g2.gray = g.gray \union ListedOf(new)
        /\ g2.grayagain = g.grayagain /\ g2.weak = g.weak
        /\ Marked(g2) = Marked(g) \union new
        /\ values \intersect Object \subseteq Marked(g2)
        /\ \A o \in new : ~ Listed(o) => Strong(o) \subseteq Marked(g2)
  BY <1>1, MarkValues
<1>4. Listing(g2) /\ Painted(g2)
  BY <1>1, <1>2, MarkValuesListing
<1>5. BlackBut(g2, pending \union g2.gray)
  BY <1>1, <1>2, MarkValuesBlack
<1>6. /\ \A set \in SUBSET Object :
           values \intersect Object \subseteq set /\ (\A o \in set : Strong(o) \subseteq set) =>
             Marked(g2) \subseteq Marked(g) \union set
      /\ \A o \in Object : iswhite(g2, o) \/ o \in Marked(g) => g2.mark[o] = g.mark[o]
  BY <1>1, MarkValuesInside
<1>7. Marked(g2) \subseteq exists
  BY <1>2, <1>6
<1>8. \A o \in Object : ~ isdead(g2, o)
  BY <1>2, <1>6 DEF isdead, iswhite
<1>9. \A o \in new : o \in g2.gray \/ Strong(o) \subseteq Marked(g2)
  BY <1>3 DEF ListedOf
<1> QED BY <1>3, <1>4, <1>5, <1>7, <1>8, <1>9 DEF Phase

(* All gray objects are traversed.                                         *)
LEMMA PhaseAll ==
  ASSUME ClosedHeap, NEW g, NEW pending, Phase(g, pending), NEW g2, g2 = propagateall(g)
  PROVE  /\ Phase(g2, pending \ g.gray) /\ SameRest(g, g2)
         /\ g2.gray = {} /\ g.grayagain \subseteq g2.grayagain /\ g.weak \subseteq g2.weak
         /\ Marked(g) \subseteq Marked(g2)
<1>1. g \in Collectors
  BY DEF Phase
<1>2. /\ Listing(g) /\ Painted(g) /\ BlackBut(g, pending) /\ HeapType /\ Placed
      /\ Marked(g) \subseteq exists /\ \A o \in Object : ~ isdead(g, o)
      /\ exists \in SUBSET Object /\ \A o \in exists : Strong(o) \subseteq exists
  BY DEF Phase, ClosedHeap
<1>3. PICK found \in SUBSET Object :
        /\ g2 \in Collectors /\ SameRest(g, g2) /\ g2.gray = {}
        /\ g2.grayagain = g.grayagain \union ThreadsOf(found)
        /\ g2.weak = g.weak \union WeakOf(found)
  BY <1>1, PropagateAll
<1>4. Listing(g2) /\ Painted(g2)
  BY <1>1, <1>2, PropagateAllListing
<1>5. BlackBut(g2, pending \ g.gray)
  BY <1>1, <1>2, PropagateAllBlack
<1>6. /\ \A set \in SUBSET Object :
           g.gray \subseteq set /\ (\A o \in set : Strong(o) \subseteq set) =>
             Marked(g2) \subseteq Marked(g) \union set
      /\ Marked(g) \subseteq Marked(g2)
      /\ \A o \in Object : iswhite(g2, o) => g2.mark[o] = g.mark[o]
  BY <1>1, PropagateAllInside
<1>7. g.gray \subseteq exists
  BY <1>1, <1>2 DEF Listing, Lists, Marked, iswhite, Collectors
<1>8. Marked(g2) \subseteq exists
  BY <1>2, <1>6, <1>7
<1>9. \A o \in Object : ~ isdead(g2, o)
  BY <1>2, <1>6 DEF isdead, iswhite
<1> QED BY <1>3, <1>4, <1>5, <1>6, <1>8, <1>9 DEF Phase

(* A list becomes the gray list, to be traversed again.                    *)
LEMMA PhaseLists ==
  ASSUME NEW g, NEW pending, Phase(g, pending), g.gray = {}, NEW g2 \in Collectors,
         SameRest(g, g2), g2.mark = g.mark,
         \/ g2.gray = g.weak /\ g2.weak = {} /\ g2.grayagain = g.grayagain
         \/ g2.gray = g.grayagain /\ g2.grayagain = {} /\ g2.weak = g.weak
  PROVE  Phase(g2, pending) /\ Marked(g2) = Marked(g)
<1>1. Marked(g2) = Marked(g) /\ \A o \in Object : isdead(g2, o) <=> isdead(g, o)
  BY DEF Marked, iswhite, isdead
<1>2. Lists(g2) = Lists(g)
  BY DEF Lists
<1>3. Painted(g2)
  BY DEF Phase, Painted
<1>4. Listing(g2)
  BY <1>1, <1>2 DEF Phase, Listing
<1>5. BlackBut(g2, pending)
  BY <1>1 DEF Phase, BlackBut
<1> QED BY <1>1, <1>3, <1>4, <1>5 DEF Phase

(* Fewer are pending than may be.                                          *)
LEMMA PhaseLess ==
  ASSUME NEW g, NEW pending, Phase(g, pending), NEW more, pending \subseteq more
  PROVE  Phase(g, more)
BY DEF Phase, BlackBut

(* What the values of gray upvalues, weak tables and threads lead to is    *)
(* marked: only userdata that wait may refer to what is white.             *)
LEMMA TraversedAgain ==
  ASSUME IInv, ~ gc.closing, gc.state = "propagate", gc.gray = {}
  PROVE  \E g7 : /\ MarkRest(gc) = propagateall(marktmu(luaC_separateudata(g7, FALSE)))
                 /\ ClosedHeap /\ Phase(g7, Range(gc.tmudata)) /\ SameRest(gc, g7)
                 /\ g7.gray = {} /\ {Main, Globals, running} \subseteq Marked(g7)
<1>1. PICK g1 : g1 = remarkupvals(gc)
  OBVIOUS
<1>2. PICK g2 : g2 = propagateall(g1)
  OBVIOUS
<1>3. PICK g3 : g3 = [g2 EXCEPT !.gray = g2.weak, !.weak = {}]
  OBVIOUS
<1>4. PICK g4 : g4 = markvalues(g3, {running})
  OBVIOUS
<1>5. PICK g5 : g5 = propagateall(g4)
  OBVIOUS
<1>6. PICK g6 : g6 = [g5 EXCEPT !.gray = g5.grayagain, !.grayagain = {}]
  OBVIOUS
<1>7. PICK g7 : g7 = propagateall(g6)
  OBVIOUS
<1>8. MarkRest(gc) = propagateall(marktmu(luaC_separateudata(g7, FALSE)))
  BY <1>1, <1>2, <1>3, <1>4, <1>5, <1>6, <1>7, Zenon DEF MarkRest
<1> DEFINE tmu == Range(gc.tmudata)
           values == {Contents(uv) : uv \in {o \in Of("upval") : IsOpen(o) /\ gc.mark[o] = "gray"}}
<1>9. /\ HeapType /\ gc \in Collectors /\ Placed /\ Painted(gc) /\ Safe(gc)
      /\ Listing(gc) /\ BlackBut(gc, Pending(gc)) /\ {Main, Globals} \subseteq Marked(gc)
  BY DEF IInv, Running, TypeOK, Marking
<1>10. /\ \A o \in Object : ~ isdead(gc, o)
      /\ Marked(gc) \subseteq exists /\ exists \in SUBSET Object
      /\ \A o \in exists : Strong(o) \subseteq exists
  BY NothingCondemned
<1>11. ClosedHeap /\ Phase(gc, Pending(gc))
  BY <1>9, <1>10 DEF ClosedHeap, Phase
<1>12. \A uv \in Of("upval") : Strong(uv) = Object \intersect {Contents(uv)} /\ uv \in exists
  BY <1>10, StrongCases DEF Of
<1>13. g1 = markvalues(gc, values)
  BY <1>1, Zenon DEF remarkupvals
<1>14. values \intersect Object \subseteq exists
  BY <1>10, <1>12
<1>15. \A uv \in Of("upval") : IsOpen(uv) /\ uv \in Marked(gc) => Contents(uv) \in values
  BY <1>9 DEF Painted, Marked, iswhite, Collectors
<1> HIDE DEF values
<1>16. /\ Phase(g1, Pending(gc) \union g1.gray) /\ SameRest(gc, g1)
      /\ g1.grayagain = gc.grayagain /\ g1.weak = gc.weak
      /\ Marked(gc) \subseteq Marked(g1) /\ values \intersect Object \subseteq Marked(g1)
      /\ \A o \in Marked(g1) : o \in Marked(gc) \/ o \in g1.gray \/ Strong(o) \subseteq Marked(g1)
  BY <1>11, <1>13, <1>14, PhaseMark
<1>17. ASSUME NEW o \in Marked(g1), o \notin g1.grayagain \union g1.weak \union tmu \union g1.gray
      PROVE  Strong(o) \subseteq Marked(g1)
  <2>1. CASE o \in Marked(gc) /\ IsOpen(o)
    <3>1. o \in Of("upval")
      BY <2>1, <1>9 DEF Placed, Of, Marked
    <3> QED BY <3>1, <2>1, <1>12, <1>15, <1>16
  <2>2. CASE o \in Marked(gc) /\ ~ IsOpen(o)
    <3>1. o \notin Pending(gc) \union g1.gray
      BY <2>2, <1>16, <1>17 DEF Pending, Lists
    <3> QED BY <3>1, <1>16 DEF Phase, BlackBut
  <2> QED BY <2>1, <2>2, <1>16, <1>17
<1>18. Phase(g1, g1.grayagain \union g1.weak \union tmu \union g1.gray)
  BY <1>16, <1>17 DEF Phase, BlackBut
<1>19. /\ Phase(g2, (g1.grayagain \union g1.weak \union tmu \union g1.gray) \ g1.gray)
       /\ SameRest(g1, g2) /\ g2.gray = {}
       /\ g1.grayagain \subseteq g2.grayagain /\ g1.weak \subseteq g2.weak
       /\ Marked(g1) \subseteq Marked(g2)
  BY <1>2, <1>11, <1>18, PhaseAll
<1>20. Phase(g2, g2.grayagain \union g2.weak \union tmu)
  BY <1>19, PhaseLess
<1>21. g2 \in Collectors
  BY <1>20 DEF Phase
<1>22. /\ g3 \in Collectors /\ SameRest(g2, g3) /\ g3.mark = g2.mark /\ g3.gray = g2.weak
       /\ g3.weak = {} /\ g3.grayagain = g2.grayagain
  BY <1>3, <1>21 DEF Collectors, SameRest
<1>23. Phase(g3, g3.grayagain \union g3.gray \union tmu) /\ Marked(g3) = Marked(g2)
  BY <1>19, <1>20, <1>22, PhaseLists
<1>24. /\ running \in exists /\ running \in Object /\ {running} \intersect Object = {running}
  BY <1>9, <1>10 DEF Safe, Alive
<1>25. /\ Phase(g4, (g3.grayagain \union g3.gray \union tmu) \union g4.gray) /\ SameRest(g3, g4)
       /\ g3.gray \subseteq g4.gray /\ g4.grayagain = g3.grayagain
       /\ Marked(g3) \subseteq Marked(g4) /\ running \in Marked(g4)
  <2> DEFINE roots == {running}
  <2>1. g4 = markvalues(g3, roots) /\ roots \intersect Object \subseteq exists
    BY <1>4, <1>24
  <2> HIDE DEF roots
  <2>2. /\ Phase(g4, (g3.grayagain \union g3.gray \union tmu) \union g4.gray) /\ SameRest(g3, g4)
        /\ g3.gray \subseteq g4.gray /\ g4.grayagain = g3.grayagain
        /\ Marked(g3) \subseteq Marked(g4) /\ roots \intersect Object \subseteq Marked(g4)
    BY <2>1, <1>11, <1>23, PhaseMark
  <2> QED BY <2>2, <1>24 DEF roots
<1>26. /\ Phase(g5, ((g3.grayagain \union g3.gray \union tmu) \union g4.gray) \ g4.gray)
       /\ SameRest(g4, g5) /\ g5.gray = {} /\ g4.grayagain \subseteq g5.grayagain
       /\ Marked(g4) \subseteq Marked(g5)
  BY <1>5, <1>11, <1>25, PhaseAll
<1>27. Phase(g5, g5.grayagain \union tmu)
  BY <1>25, <1>26, PhaseLess
<1>28. g5 \in Collectors
  BY <1>27 DEF Phase
<1>29. /\ g6 \in Collectors /\ SameRest(g5, g6) /\ g6.mark = g5.mark /\ g6.gray = g5.grayagain
       /\ g6.grayagain = {} /\ g6.weak = g5.weak
  BY <1>6, <1>28 DEF Collectors, SameRest
<1>30. Phase(g6, g6.gray \union tmu) /\ Marked(g6) = Marked(g5)
  BY <1>26, <1>27, <1>29, PhaseLists
<1>31. /\ Phase(g7, (g6.gray \union tmu) \ g6.gray) /\ SameRest(g6, g7) /\ g7.gray = {}
       /\ Marked(g6) \subseteq Marked(g7)
  BY <1>7, <1>11, <1>30, PhaseAll
<1>32. Phase(g7, tmu)
  BY <1>31, PhaseLess
<1>33. SameRest(gc, g7)
  BY <1>16, <1>19, <1>22, <1>25, <1>26, <1>29, <1>31 DEF SameRest
<1>34. {Main, Globals, running} \subseteq Marked(g7)
  BY <1>9, <1>16, <1>19, <1>23, <1>25, <1>26, <1>30, <1>31
<1> QED BY <1>8, <1>11, <1>31, <1>32, <1>33, <1>34

(* The userdata that wait are marked, with what they lead to: in the end   *)
(* what is marked refers to what is marked, and the userdata that are      *)
(* white have had their finalizers called.                                 *)
LEMMA MarkedRest ==
  ASSUME IInv, ~ gc.closing, gc.state = "propagate", gc.gray = {}, NEW g, g = MarkRest(gc)
  PROVE  /\ Phase(g, {}) /\ g.gray = {} /\ g.state = gc.state /\ g.closing = gc.closing
         /\ g.full = gc.full
         /\ {Main, Globals, running} \union Range(g.tmudata) \subseteq Marked(g)
         /\ Finalizing(g) /\ g.finalized \subseteq gc.finalized \union exists
         /\ \A u \in Of("udata") : iswhite(g, u) => u \in called.done
         /\ Range(gc.tmudata) \subseteq Range(g.tmudata)
<1>1. PICK g7 : /\ g = propagateall(marktmu(luaC_separateudata(g7, FALSE)))
                /\ ClosedHeap /\ Phase(g7, Range(gc.tmudata)) /\ SameRest(gc, g7)
                /\ g7.gray = {} /\ {Main, Globals, running} \subseteq Marked(g7)
  BY TraversedAgain
<1>2. PICK g8 : g8 = luaC_separateudata(g7, FALSE)
  OBVIOUS
<1>3. PICK left : left = Range(g8.tmudata)
  OBVIOUS
<1>4. PICK g9 : g9 = [g8 EXCEPT !.mark = [o \in Object |-> IF o \in left THEN "white" ELSE g8.mark[o]]]
  OBVIOUS
<1>5. PICK g10 : g10 = markvalues(g9, left)
  OBVIOUS
<1>6. g = propagateall(g10)
  BY <1>1, <1>2, <1>3, <1>4, <1>5, Zenon DEF marktmu
<1>7. /\ HeapType /\ Placed /\ Finalizing(gc) /\ gc \in Collectors /\ g7 \in Collectors
      /\ kind[running] = "thread" /\ kind[Main] = "thread" /\ kind[Globals] = "table"
      /\ exists \in SUBSET Object
  BY <1>1, KindsType DEF IInv, Running, TypeOK, Phase, ClosedHeap, Placed
<1>8. /\ g7.tmudata = gc.tmudata /\ g7.finalized = gc.finalized /\ g7.closing = gc.closing
      /\ g7.state = gc.state /\ g7.full = gc.full
  BY <1>1 DEF SameRest
<1>9. IsInjective(g7.tmudata) /\ Range(g7.tmudata) \subseteq g7.finalized
  BY <1>7, <1>8 DEF Finalizing, IsInjective
<1>10. /\ g8 \in Collectors /\ IsInjective(g8.tmudata)
       /\ g8.finalized = gc.finalized \union Unfinalized(g7, FALSE)
       /\ left = Range(gc.tmudata) \union Unfinalized(g7, FALSE)
       /\ g8.mark = g7.mark /\ g8.gray = g7.gray /\ g8.grayagain = g7.grayagain
       /\ g8.weak = g7.weak /\ g8.closing = gc.closing /\ g8.state = gc.state
       /\ g8.full = gc.full
  <2>0. PICK all : all = FALSE
    OBVIOUS
  <2> DEFINE found == Unfinalized(g7, all)
  <2>1. HeapType /\ g7 \in Collectors /\ g8 = luaC_separateudata(g7, all)
    BY <1>2, <1>7, <2>0
  <2>2. /\ g8 \in Collectors /\ IsInjective(g8.tmudata)
        /\ g8.finalized = g7.finalized \union found
        /\ Range(g8.tmudata) = Range(g7.tmudata) \union found
        /\ g8.mark = g7.mark /\ g8.gray = g7.gray /\ g8.grayagain = g7.grayagain
        /\ g8.weak = g7.weak /\ g8.closing = g7.closing /\ g8.state = g7.state
        /\ g8.full = g7.full
    BY <2>1, <1>9, Separate
  <2> QED BY <2>0, <2>2, <1>3, <1>8
<1>11. \A u : u \in Unfinalized(g7, FALSE) <=>
                u \in exists /\ kind[u] = "udata" /\ iswhite(g7, u) /\ u \notin gc.finalized
  BY <1>8 DEF Unfinalized, Of
<1>12. \A u \in left : u \in exists /\ kind[u] = "udata"
  BY <1>7, <1>10, <1>11 DEF Finalizing
<1>13. Finalizing(g8) /\ g8.finalized \subseteq gc.finalized \union exists
  BY <1>3, <1>7, <1>10, <1>11 DEF Finalizing, IsInjective
<1>14. /\ g9 \in Collectors /\ SameRest(g8, g9) /\ g9.gray = g8.gray
       /\ g9.grayagain = g8.grayagain /\ g9.weak = g8.weak
       /\ \A o \in Object : g9.mark[o] = IF o \in left THEN "white" ELSE g7.mark[o]
  <2> DEFINE mark == [o \in Object |-> IF o \in left THEN "white" ELSE g8.mark[o]]
  <2>1. mark \in [Object -> {"white", "dead", "gray", "black"}]
    BY <1>10 DEF Collectors
  <2>2. \A o \in Object : mark[o] = IF o \in left THEN "white" ELSE g7.mark[o]
    BY <1>10
  <2>3. g9 = [g8 EXCEPT !.mark = mark]
    BY <1>4
  <2> HIDE DEF mark
  <2> QED BY <2>1, <2>2, <2>3, <1>10 DEF Collectors, SameRest
<1>15. /\ Listing(g7) /\ Painted(g7) /\ BlackBut(g7, Range(gc.tmudata))
       /\ Marked(g7) \subseteq exists /\ \A o \in Object : ~ isdead(g7, o)
  BY <1>1 DEF Phase
<1>16. Marked(g9) = Marked(g7) \ left
  BY <1>14 DEF Marked, iswhite
<1>17. /\ Painted(g9) /\ \A o \in Object : ~ isdead(g9, o)
       /\ Marked(g9) \subseteq exists
  BY <1>14, <1>15, <1>16 DEF Painted, isdead
<1>18. Listing(g9)
  <2>1. /\ Lists(g9) = Lists(g7)
        /\ \A o \in Lists(g7) : o \in Object /\ o \notin left
    <3>1. g9.gray = g7.gray /\ g9.grayagain = g7.grayagain /\ g9.weak = g7.weak
      BY <1>10, <1>14
    <3>2. \A o \in Lists(g7) : Listed(o)
      BY <1>15 DEF Listing
    <3>3. \A o \in left : ~ Listed(o)
      BY <1>12 DEF Listed, Tables
    <3>4. Lists(g7) \subseteq Object
      BY <1>7 DEF Lists, Collectors
    <3> QED BY <3>1, <3>2, <3>3, <3>4 DEF Lists
  <2>2. \A o \in Object : g9.mark[o] = "gray" => g7.mark[o] = "gray"
    BY <1>14
  <2>3. \A o \in Lists(g9) : g9.mark[o] = "gray" /\ Listed(o)
    BY <2>1, <1>14, <1>15 DEF Listing
  <2>4. \A o \in Marked(g9) :
          /\ kind[o] = "thread" => o \in g9.gray \union g9.grayagain
          /\ kind[o] \in {"weakkeys", "weakvalues"} => o \in g9.gray \union g9.weak
    BY <1>10, <1>14, <1>15, <1>16 DEF Listing
  <2> QED BY <2>1, <2>2, <2>3, <2>4, <1>10, <1>14, <1>15 DEF Listing
<1>19. Phase(g9, Marked(g9))
  BY <1>14, <1>17, <1>18 DEF Phase, BlackBut
<1>20. left \intersect Object = left /\ left \subseteq exists
  BY <1>7, <1>12
<1>21. /\ Phase(g10, Marked(g9) \union g10.gray) /\ SameRest(g9, g10)
       /\ Marked(g9) \subseteq Marked(g10) /\ left \subseteq Marked(g10)
       /\ \A o \in Marked(g10) : o \in Marked(g9) \/ o \in g10.gray \/ Strong(o) \subseteq Marked(g10)
  BY <1>1, <1>5, <1>19, <1>20, PhaseMark
<1>22. \A o \in Marked(g9) : Strong(o) \subseteq Marked(g10)
  <2>1. Marked(g7) \subseteq Marked(g10)
    BY <1>16, <1>21
  <2>2. \A o \in Marked(g9) : o \in Marked(g7) \ Range(gc.tmudata)
    BY <1>10, <1>16
  <2> QED BY <2>1, <2>2, <1>15 DEF BlackBut
<1>23. Phase(g10, g10.gray)
  BY <1>21, <1>22 DEF Phase, BlackBut
<1>24. /\ Phase(g, g10.gray \ g10.gray) /\ SameRest(g10, g) /\ g.gray = {}
       /\ Marked(g10) \subseteq Marked(g)
  BY <1>1, <1>6, <1>23, PhaseAll
<1>25. Phase(g, {})
  BY <1>24, PhaseLess
<1>26. /\ g.tmudata = g8.tmudata /\ g.finalized = g8.finalized /\ g.closing = gc.closing
       /\ g.state = gc.state /\ g.full = gc.full
  BY <1>10, <1>14, <1>21, <1>24 DEF SameRest
<1>27. Finalizing(g) /\ g.finalized \subseteq gc.finalized \union exists
  <2>1. Finalizing(g)
    <3>1. Finalizing(g8) /\ g8.closing = gc.closing
      BY <1>10, <1>13
    <3> QED BY <3>1, <1>26 DEF Finalizing
  <2> QED BY <2>1, <1>13, <1>26
<1>28. {Main, Globals, running} \union Range(g.tmudata) \subseteq Marked(g)
  <2>1. {Main, Globals, running} \intersect left = {}
    BY <1>7, <1>12
  <2>2. {Main, Globals, running} \subseteq Marked(g)
    BY <2>1, <1>1, <1>16, <1>21, <1>24
  <2>3. Range(g.tmudata) = left
    BY <1>3, <1>26
  <2> QED BY <2>2, <2>3, <1>21, <1>24
<1>29. ASSUME NEW u \in Of("udata"), iswhite(g, u) PROVE u \in called.done
  <2>1. u \in exists /\ kind[u] = "udata" /\ u \notin Marked(g) /\ u \in Object
    BY <1>29, <1>7 DEF Of, Marked
  <2>2. u \notin left /\ u \notin Marked(g7)
    BY <2>1, <1>16, <1>21, <1>24
  <2>3. u \in gc.finalized
    BY <2>1, <2>2, <1>10, <1>11 DEF Marked
  <2> QED BY <2>2, <2>3, <1>7, <1>10 DEF Finalizing
<1>30. Range(gc.tmudata) \subseteq Range(g.tmudata)
  BY <1>3, <1>10, <1>26
<1> QED BY <1>24, <1>25, <1>26, <1>27, <1>28, <1>29, <1>30

(* After the flip nothing alive refers to what is dead: the entries of     *)
(* weak tables that would are cleared, strings in the others are kept.     *)
LEMMA ClearedEntries ==
  ASSUME HeapType, NEW g, NEW t \in Object, t \in Marked(g), Strong(t) \subseteq Marked(g),
         kind[t] \in {"weakkeys", "weakvalues"} => t \in g.weak, kind[t] \in Tables,
         \A r \in Object \intersect {node[t].key, node[t].val} : r \in exists,
         node' = Keep(node, Cleared(g), EmptyNode),
         NEW set, set = Marked(g) \union StringMarks(g)
  PROVE  /\ node'[t].key \in Object => node'[t].key \in set
         /\ node'[t].val \in Object => node'[t].val \in set
<1>1. CASE t \in Cleared(g)
  <2>1. node'[t] = EmptyNode
    BY <1>1 DEF Keep
  <2> QED BY <2>1, ObjectAssumption DEF EmptyNode
<1>2. CASE t \notin Cleared(g)
  <2>1. node'[t] = node[t]
    BY <1>2 DEF Keep
  <2> DEFINE k == node[t].key
             v == node[t].val
  <2>2. \A o : iscleared(g, o, TRUE) <=> o \in Object /\ kind[o] # "string" /\ iswhite(g, o)
    BY DEF iscleared
  <2>3. \A o : iscleared(g, o, FALSE) <=>
               /\ o \in Object /\ kind[o] # "string"
               /\ iswhite(g, o) \/ (kind[o] = "udata" /\ o \in g.finalized)
    BY DEF iscleared
  <2>4. \A o \in Object : o \in Marked(g) <=> ~ iswhite(g, o)
    BY DEF Marked
  <2>5. t \in g.weak => ~ iscleared(g, k, TRUE) /\ ~ iscleared(g, v, FALSE)
    BY <1>2, Zenon DEF Cleared
  <2>6. \A s : s \in StringMarks(g) <=>
               /\ s \in exists /\ kind[s] = "string"
               /\ \E w \in g.weak : s = node[w].key \/ (s = node[w].val /\ ~ iscleared(g, node[w].key, TRUE))
    BY Zenon DEF StringMarks, Of
  <2>7. CASE kind[t] = "table"
    <3>1. Strong(t) = Object \intersect {k, v}
      BY <2>7, StrongCases
    <3> QED BY <3>1, <2>1
  <2>8. CASE kind[t] = "weakkeys"
    <3>1. Strong(t) = Object \intersect {v}
      BY <2>8, StrongCases
    <3>2. k \in Object => k \in set
      BY <2>2, <2>4, <2>5, <2>6, <2>8
    <3> QED BY <3>1, <3>2, <2>1
  <2>9. CASE kind[t] = "weakvalues"
    <3>1. Strong(t) = Object \intersect {k}
      BY <2>9, StrongCases
    <3>2. ~ iscleared(g, k, TRUE)
      BY <2>5, <2>9
    <3>3. v \in Object => v \in set
      BY <3>2, <2>3, <2>4, <2>5, <2>6, <2>9
    <3> QED BY <3>1, <3>3, <2>1
  <2> QED BY <2>7, <2>8, <2>9 DEF Tables
<1> QED BY <1>1, <1>2

(* The mark phase ends, and the sweep begins.                              *)
LEMMA AtomicStep ==
  ASSUME IInv, Atomic PROVE IInv'
<1>1. PICK g : g = MarkRest(gc)
  OBVIOUS
<1>2. /\ gc.state = "propagate" /\ ~ gc.closing /\ gc.gray = {}
      /\ node' = Keep(node, Cleared(g), EmptyNode)
      /\ gc' = [StartSweep(g) EXCEPT !.mark = Flipped(g)]
      /\ UNCHANGED <<kind, exists, env, upval, place, value, stack, running, called>>
  BY <1>1, Zenon DEF Atomic, atomic
<1>3. /\ HeapType /\ gc \in Collectors /\ Placed /\ Blank(gc) /\ Safe(gc) /\ Sweeping(gc)
  BY <1>2 DEF IInv, Running, TypeOK
<1>4. /\ Alive(gc) = exists /\ exists \in SUBSET Object
  BY <1>2, NothingCondemned
<1>5. /\ Phase(g, {}) /\ g.gray = {} /\ g.state = gc.state /\ g.closing = gc.closing
      /\ {Main, Globals, running} \union Range(g.tmudata) \subseteq Marked(g)
      /\ Finalizing(g) /\ g.finalized \subseteq gc.finalized \union exists
      /\ \A u \in Of("udata") : iswhite(g, u) => u \in called.done
  BY <1>1, <1>2, MarkedRest
<1>6. /\ g \in Collectors /\ Listing(g) /\ Painted(g) /\ Marked(g) \subseteq exists
      /\ \A o \in Object : ~ isdead(g, o)
      /\ \A o \in Marked(g) : Strong(o) \subseteq Marked(g)
  BY <1>5 DEF Phase, BlackBut
<1>7. PICK set : set = Marked(g) \union StringMarks(g)
  OBVIOUS
<1>8. /\ StringMarks(g) \subseteq exists /\ \A o \in StringMarks(g) : kind[o] = "string"
      /\ set \subseteq exists /\ set \in SUBSET Object
  <2>1. StringMarks(g) \subseteq exists /\ \A o \in StringMarks(g) : kind[o] = "string"
    BY DEF StringMarks, Of
  <2> QED BY <2>1, <1>4, <1>6, <1>7
<1>9. PICK g2 : g2 = gc'
  OBVIOUS
<1>10. /\ g2 \in Collectors
       /\ \A o \in Object : g2.mark[o] = IF o \in StringMarks(g) THEN "gray"
                                         ELSE IF o \in exists /\ g.mark[o] = "white" THEN "dead"
                                         ELSE g.mark[o]
       /\ g2.state = "sweepstring" /\ g2.strings = Of("string")
       /\ g2.unswept = {o \in exists : /\ kind[o] # "string"
                                       /\ ~ (kind[o] = "upval" /\ IsOpen(o))
                                       /\ o \notin Range(g.tmudata)}
       /\ g2.closing = g.closing /\ g2.finalized = g.finalized /\ g2.tmudata = g.tmudata
  <2>1. PICK s : s = StartSweep(g)
    OBVIOUS
  <2>2. /\ s \in Collectors
        /\ s.state = "sweepstring" /\ s.strings = Of("string")
        /\ s.unswept = {o \in exists : /\ kind[o] # "string"
                                       /\ ~ (kind[o] = "upval" /\ IsOpen(o))
                                       /\ o \notin Range(g.tmudata)}
        /\ s.closing = g.closing /\ s.finalized = g.finalized /\ s.tmudata = g.tmudata
    BY <2>1, <1>3, <1>6, StartSweepFields
  <2>3. Flipped(g) \in [Object -> {"white", "dead", "gray", "black"}]
    BY <1>6 DEF Flipped, Collectors
  <2>4. \A o \in Object : Flipped(g)[o] = IF o \in StringMarks(g) THEN "gray"
                                          ELSE IF o \in exists /\ g.mark[o] = "white" THEN "dead"
                                          ELSE g.mark[o]
    BY DEF Flipped
  <2>5. g2 = [s EXCEPT !.mark = Flipped(g)]
    BY <2>1, <1>2, <1>9
  <2>6. g2 \in Collectors /\ g2.mark = Flipped(g)
    BY <2>2, <2>3, <2>5 DEF Collectors
  <2>7. /\ g2.state = s.state /\ g2.strings = s.strings /\ g2.unswept = s.unswept
        /\ g2.closing = s.closing /\ g2.finalized = s.finalized /\ g2.tmudata = s.tmudata
    BY <2>2, <2>5 DEF Collectors
  <2> QED BY <2>2, <2>4, <2>6, <2>7
<1>11. /\ \A o \in Object : isdead(g2, o) <=> o \in exists /\ o \notin set
       /\ \A o \in Object : ~ iswhite(g2, o) <=> o \in set
       /\ \A o \in Object \ exists : g2.mark[o] = "white"
  <2>1. \A o \in Object : o \in Marked(g) <=> g.mark[o] \in {"gray", "black"}
    BY <1>6 DEF Marked, iswhite, Collectors
  <2>2. \A o \in Object : g.mark[o] # "dead"
    BY <1>6 DEF isdead
  <2>3. \A o \in Object : o \notin set => g.mark[o] = "white"
    BY <2>1, <2>2, <1>6, <1>7 DEF Collectors
  <2> QED BY <2>1, <2>2, <2>3, <1>6, <1>7, <1>8, <1>10 DEF isdead, iswhite, Collectors
<1>12. /\ \A o \in Object : (IsOpen(o)' <=> IsOpen(o)) /\ Contents(o)' = Contents(o)
  BY <1>2 DEF IsOpen, Closed, Contents
<1>13. node' \in [Object -> [key : Values, val : Values]]
  BY <1>2, <1>3, ObjectAssumption DEF Keep, HeapType, EmptyNode, Values
<1>14. TypeOK'
  BY <1>2, <1>3, <1>9, <1>10, <1>13, ZenonT(30) DEF TypeOK, HeapType, Values, Collectors
<1>15. Placed'
  BY <1>2, <1>3, <1>12 DEF Placed, Of
<1>16. Blank(gc)'
  <2> SUFFICES ASSUME NEW o \in Object \ exists
               PROVE  /\ node'[o] = EmptyNode /\ g2.mark[o] = "white"
                      /\ o \notin g2.strings /\ o \notin g2.unswept /\ o \notin g2.finalized
    BY <1>2, <1>3, <1>9 DEF Blank
  <2>1. node[o] = EmptyNode /\ o \notin gc.finalized
    BY <1>3 DEF Blank
  <2>2. node'[o] = EmptyNode
    BY <2>1, <1>2 DEF Keep
  <2> QED BY <2>1, <2>2, <1>5, <1>10, <1>11 DEF Of
<1>17. Alive(gc)' = set
  <2>1. Alive(gc)' = {o \in exists : ~ isdead(g2, o)}
    BY <1>2, <1>9 DEF Alive, isdead
  <2> QED BY <2>1, <1>4, <1>8, <1>11
<1>18. ASSUME NEW o \in set PROVE HoldsIn(o, set)'
  <2>1. o \in Object /\ o \in exists /\ Holds(o) \subseteq exists
    BY <1>3, <1>4, <1>8 DEF Safe
  <2>2. CASE o \in StringMarks(g)
    BY <2>2, <1>2, <1>8 DEF HoldsIn, Tables
  <2>3. CASE o \in Marked(g) /\ kind[o] \in Tables
    <3>1. Strong(o) \subseteq Marked(g)
      BY <2>3, <1>6
    <3>2. kind[o] \in {"weakkeys", "weakvalues"} => o \in g.weak
      BY <2>3, <1>5, <1>6 DEF Listing
    <3>3. \A r \in Object \intersect {node[o].key, node[o].val} : r \in exists
      BY <2>1, <2>3 DEF Holds
    <3>4. /\ node'[o].key \in Object => node'[o].key \in set
          /\ node'[o].val \in Object => node'[o].val \in set
      BY <3>1, <3>2, <3>3, <2>1, <2>3, <1>2, <1>3, <1>7, ClearedEntries
    <3> QED BY <3>4, <2>3, <1>2 DEF HoldsIn, Tables
  <2>4. CASE o \in Marked(g) /\ kind[o] \notin Tables
    <3>1. Holds(o) \subseteq set
      BY <2>4, <1>6, <1>7 DEF Holds
    <3>2. HoldsIn(o, set)
      BY <3>1, <2>1, <1>3, <1>8, HoldsFields
    <3> QED BY <3>2, <2>1, <2>4, <1>2, <1>12 DEF HoldsIn, Tables
  <2> QED BY <2>2, <2>3, <2>4, <1>7
<1>19. Safe(gc)'
  <2>1. \A o \in set : Holds(o)' \subseteq set
    BY <1>8, <1>14, <1>18, HoldsFieldsNext DEF TypeOK
  <2> QED BY <2>1, <1>2, <1>5, <1>7, <1>9, <1>10, <1>17 DEF Safe
<1>20. Finalizing(gc)'
  BY <1>2, <1>5, <1>9, <1>10 DEF Finalizing, Of
<1>21. exists \subseteq LeftToSweep(g2) \union Range(g2.tmudata)
  <2>1. \A u \in Range(g.tmudata) : kind[u] = "udata"
    BY <1>5 DEF Finalizing
  <2> QED BY <2>1, <1>3, <1>6, <1>10, AllIsLeft
<1>22. Sweeping(gc)'
  <2>1. LeftToSweep(gc)' = LeftToSweep(g2)
    BY <1>2, <1>9 DEF LeftToSweep, OpenIn, OpenFrom, Of
  <2>2. /\ \A o \in g2.strings : o \in exists /\ kind[o] = "string"
        /\ \A o \in g2.unswept : o \in exists /\ ~ IsOpen(o) /\ o \in Object
    BY <1>3, <1>4, <1>10 DEF Of, Placed
  <2>3. ASSUME NEW o \in Object, isdead(g2, o)
        PROVE  o \in LeftToSweep(g2) /\ (kind[o] = "udata" => o \in called.done)
    <3>1. o \in exists /\ o \notin Marked(g) /\ o \notin Range(g2.tmudata)
      BY <2>3, <1>5, <1>7, <1>10, <1>11
    <3>2. kind[o] = "udata" => o \in called.done
      BY <3>1, <2>3, <1>5 DEF Of, Marked
    <3> QED BY <3>1, <3>2, <1>21
  <2>4. \A o \in Object : ~ iswhite(g2, o) => o \in LeftToSweep(g2) \union Range(g2.tmudata)
    BY <1>8, <1>11, <1>21
  <2>5. /\ Marked(gc)' = {o \in Object : ~ iswhite(g2, o)}
        /\ \A o \in Object : isdead(gc, o)' <=> isdead(g2, o)
    BY <1>9 DEF Marked, iswhite, isdead
  <2> QED BY <2>1, <2>2, <2>3, <2>4, <2>5, <1>2, <1>9, <1>10, <1>12 DEF Sweeping
<1>23. Painted(gc)'
  <2>1. \A o \in Object : IsOpen(o) => kind[o] = "upval"
    BY <1>3 DEF Placed
  <2>2. \A o \in Object : /\ IsOpen(o) => g2.mark[o] # "black"
                          /\ kind[o] = "udata" => g2.mark[o] # "gray"
    BY <2>1, <1>6, <1>8, <1>10 DEF Painted
  <2> QED BY <2>2, <1>2, <1>9, <1>12 DEF Painted
<1>24. gc'.state = "sweepstring"
  BY <1>9, <1>10
<1> QED BY <1>14, <1>15, <1>16, <1>19, <1>20, <1>22, <1>23, <1>24 DEF IInv, Running
-----------------------------------------------------------------------------
(* No step of the scripts or of the collector breaks the invariant.        *)
LEMMA NextStep ==
  ASSUME IInv, [Next]_vars
  PROVE  IInv'
<1>1. CASE Collector
  BY <1>1, StartStep, PropagateStep, AtomicStep, SweepStep, FinalizeStep, Zenon DEF Collector
<1>2. CASE \E i \in FirstFree :
             \/ \E o \in Object : New(o, i) \/ Intern(o, i) \/ \E j \in Level : Closure(o, i, j)
             \/ \E t \in TableObjects : GetTable(t, i)
             \/ \E c \in Of("closure") : GetUpval(c, i)
  <2>1. FirstFree \subseteq Level
    BY DEF FirstFree
  <2> QED
    BY <1>2, <2>1, NewStep, InternStep, ClosureStep, GetTableStep, GetUpvalStep, Zenon
<1>3. CASE \E i \in Level :
             \/ Drop(i) \/ Close(i) \/ \E j \in Level : Yield(i, j)
             \/ \E c \in Of("closure") : SetUpval(c, i)
             \/ \E co \in Of("thread") : Resume(co, i)
  BY <1>3, DropStep, CloseStep, YieldStep, SetUpvalStep, ResumeStep, Zenon
<1>4. CASE \E t \in TableObjects, k, v \in Operand : SetTable(t, k, v)
  BY <1>4, SetTableStep, Zenon
<1>5. CASE \E u \in Of("udata"), t \in TableObjects : SetEnv(u, t)
  BY <1>5, SetEnvStep, Zenon
<1>6. CASE FullGC \/ BeginClose \/ CloseState \/ \E u \in Object : CloseNew(u)
  BY <1>6, FullGCStep, BeginCloseStep, CloseStateStep, CloseNewStep, Zenon
<1>7. CASE UNCHANGED vars
  <2>1. UNCHANGED <<kind, exists, node, env, upval, place, value, stack, running, gc, called>>
    BY <1>7 DEF vars, heap
  <2>2. TypeOK'
    BY <2>1 DEF IInv, TypeOK, HeapType, Values, Collectors
  <2>3. Finalizing(gc)'
    BY <2>1 DEF IInv, Finalizing, Of
  <2>4. CASE gc.closing
    BY <2>1, <2>2, <2>3, <2>4 DEF IInv
  <2>5. CASE ~ gc.closing
    <3>1. SameRest(gc, gc')
      BY <2>1 DEF SameRest
    <3>2. running \in Alive(gc) /\ Alive(gc)' = Alive(gc) /\ kind[running] = "thread"
      BY <2>1, <2>5 DEF IInv, Running, Safe, Placed, Alive, isdead
    <3>3. Made = {} /\ exists \subseteq exists'
      BY <2>1 DEF Made
    <3> QED
      BY <2>1, <2>2, <2>5, <3>1, <3>2, <3>3, Steps
  <2> QED
    BY <2>4, <2>5
<1>8. Script \/ Collector \/ UNCHANGED vars
  BY Zenon DEF Next
<1> QED
  BY <1>1, <1>2, <1>3, <1>4, <1>5, <1>6, <1>7, <1>8, Zenon DEF Script

(* The collector keeps its invariant.                                      *)
THEOREM CollectorInvariant == Spec => []IInv
<1>1. IInv /\ [Next]_vars => IInv'
  BY NextStep
<1> QED
  BY InitInvariant, <1>1, PTL DEF Spec
-----------------------------------------------------------------------------
(* All that can be reached is there and is not condemned.                  *)
LEMMA ReachableAlive ==
  ASSUME IInv, ~ gc.closing
  PROVE  Reachable \subseteq Alive(gc)
<1>1. HeapType /\ Safe(gc) /\ {Main, Globals, running} \subseteq Object
  BY KindsType DEF IInv, TypeOK, Running, HeapType
<1>2. \A o \in Object : Refers(o) \subseteq Holds(o)
  <2> SUFFICES ASSUME NEW o \in Object PROVE Refers(o) \subseteq Holds(o)
    OBVIOUS
  <2>1. CASE kind[o] = "weakkeys"
    BY <2>1 DEF Refers, Holds, Strings, Tables
  <2>2. CASE kind[o] = "weakvalues"
    BY <2>2 DEF Refers, Holds, Strings, Tables
  <2>3. CASE kind[o] \notin {"weakkeys", "weakvalues"}
    BY <2>3 DEF Refers, Holds
  <2> QED
    BY <2>1, <2>2, <2>3
<1>3. \A o \in Object : Holds(o) \subseteq Object
  BY StrongType
<1> DEFINE refs == [o \in Object |-> Refers(o)]
<1>4. refs \in [Object -> SUBSET Object]
  BY <1>2, <1>3
<1>5. Alive(gc) \in SUBSET Object /\ \A o \in Alive(gc) : refs[o] \subseteq Alive(gc)
  BY <1>1, <1>2 DEF Safe, Alive, HeapType
<1>6. {Main, Globals, running} \subseteq Alive(gc)
  BY <1>1 DEF Safe
<1>7. Reachable = Reached({Main, Globals, running}, refs)
  BY Zenon DEF Reachable, ReachableFrom
<1> HIDE DEF refs
<1> QED
  BY <1>1, <1>4, <1>5, <1>6, <1>7, ReachedIsLeast

(* What the scripts can reach is never freed, nor condemned by the sweep   *)
(* that goes on; open upvalues keep the stack they point into.  It is so   *)
(* whatever the scripts do between the steps of the collector.             *)
THEOREM ReachableIsKept == Spec => []ReachableSurvives
<1>1. IInv => ReachableSurvives
  <2> SUFFICES ASSUME IInv, ~ gc.closing
               PROVE  /\ Reachable \subseteq exists
                      /\ \A o \in Reachable :
                           /\ ~ isdead(gc, o)
                           /\ kind[o] = "upval" /\ IsOpen(o) => place[o].thread \in exists
    BY DEF ReachableSurvives
  <2>1. Reachable \subseteq Alive(gc) /\ Placed /\ exists \subseteq Object
    BY ReachableAlive DEF IInv, TypeOK, HeapType, Running
  <2> QED
    BY <2>1 DEF Alive, Placed
<1> QED
  BY CollectorInvariant, <1>1, PTL

(* In the mark phase an object that has been traversed refers to nothing   *)
(* that was never marked: the barriers see every reference that the        *)
(* scripts move behind the collector.                                      *)
THEOREM BarriersKeepTheInvariant == Spec => []BlackToNoWhite
<1>1. IInv => BlackToNoWhite
  <2> SUFFICES ASSUME IInv, gc.state = "propagate", ~ gc.closing,
                      NEW o \in exists \ Range(gc.tmudata), isblack(gc, o)
               PROVE  \A r \in Refers(o) : ~ iswhite(gc, r)
    BY DEF BlackToNoWhite
  <2>1. HeapType /\ Painted(gc) /\ Listing(gc) /\ BlackBut(gc, Pending(gc)) /\ o \in Object
    BY DEF IInv, TypeOK, HeapType, Running, Marking
  <2>2. gc.mark[o] = "black" /\ o \in Marked(gc)
    BY <2>1 DEF isblack, Marked, iswhite
  <2>3. o \notin Lists(gc) /\ ~ IsOpen(o)
    BY <2>1, <2>2 DEF Listing, Painted
  <2>4. Strong(o) \subseteq Marked(gc)
    BY <2>1, <2>2, <2>3 DEF BlackBut, Pending
  <2>5. kind[o] \notin {"weakkeys", "weakvalues"}
    BY <2>1, <2>2, <2>3 DEF Listing, Lists
  <2> QED
    BY <2>4, <2>5 DEF Refers, Marked
<1> QED
  BY CollectorInvariant, <1>1, PTL

(* A weak table that can be reached gives no object that has been freed or *)
(* is about to be: the atomic step has cleared those entries.              *)
THEOREM WeakEntriesAreLive == Spec => []WeakEntriesLive
<1>1. IInv => WeakEntriesLive
  <2> SUFFICES ASSUME IInv, ~ gc.closing, NEW t \in Reachable, kind[t] \in Tables,
                      NEW o \in {node[t].key, node[t].val} \intersect Object
               PROVE  o \in exists /\ ~ isdead(gc, o)
    BY DEF WeakEntriesLive
  <2>1. t \in Alive(gc) /\ Safe(gc)
    BY ReachableAlive DEF IInv, Running
  <2>2. o \in Holds(t)
    BY DEF Holds
  <2> QED
    BY <2>1, <2>2 DEF Safe, Alive
<1> QED
  BY CollectorInvariant, <1>1, PTL

(* The sweep frees no userdata that is to be finalized.                    *)
LEMMA FreedDead ==
  ASSUME IInv, ~ gc.closing, NEW set, FreeDead(set), NEW u \in exists \ exists', kind[u] = "udata"
  PROVE  u \in called.done
<1>1. Sweeping(gc) /\ exists \subseteq Object
  BY DEF IInv, TypeOK, HeapType, Running
<1>2. isdead(gc, u)
  BY DEF FreeDead, Free, Gone
<1> QED
  BY <1>1, <1>2 DEF Sweeping

(* What luaF_close frees are upvalues.                                     *)
LEMMA FreedUpvalues ==
  ASSUME NEW th, NEW level, luaF_close(th, level), NEW u \in exists \ exists'
  PROVE  kind[u] = "upval"
BY DEF luaF_close, Free, DeadFrom, OpenFrom, Of

(* A userdata is freed after its finalizer has been called, or was made by *)
(* a finalizer as the state was closed.                                    *)
LEMMA FreedFinalized ==
  ASSUME IInv, Next, NEW u \in exists \ exists', kind[u] = "udata"
  PROVE  u \in called.done \union called.late
<1>1. CASE Collector
  <2>1. CASE Sweep
    <3>1. ~ gc.closing /\ \E set : FreeDead(set)
      BY <2>1 DEF Sweep
    <3> QED
      BY <3>1, FreedDead
  <2>2. CASE Start \/ Propagate \/ Atomic \/ Finalize
    BY <2>2 DEF Start, Propagate, Atomic, Finalize
  <2> QED
    BY <1>1, <2>1, <2>2 DEF Collector
<1>2. CASE \E i \in FirstFree :
             \/ \E o \in Object : New(o, i) \/ Intern(o, i) \/ \E j \in Level : Closure(o, i, j)
             \/ \E t \in TableObjects : GetTable(t, i)
             \/ \E c \in Of("closure") : GetUpval(c, i)
  BY <1>2 DEF New, Intern, Closure, GetTable, GetUpval, Born
<1>3. CASE \E i \in Level :
             \/ Drop(i) \/ Close(i) \/ \E j \in Level : Yield(i, j)
             \/ \E c \in Of("closure") : SetUpval(c, i)
             \/ \E co \in Of("thread") : Resume(co, i)
  <2>1. ASSUME NEW i \in Level, Close(i) PROVE FALSE
    BY <2>1, FreedUpvalues DEF Close
  <2> QED
    BY <1>3, <2>1 DEF Drop, Yield, SetUpval, Resume
<1>4. CASE \E t \in TableObjects, k, v \in Operand : SetTable(t, k, v)
  BY <1>4 DEF SetTable
<1>5. CASE \E w \in Of("udata"), t \in TableObjects : SetEnv(w, t)
  BY <1>5 DEF SetEnv
<1>6. CASE FullGC
  BY <1>6, FreedDead DEF FullGC, Runs
<1>7. CASE BeginClose
  BY <1>7, FreedUpvalues DEF BeginClose
<1>8. CASE \E w \in Object : CloseNew(w)
  BY <1>8 DEF CloseNew, Born
<1>9. CASE CloseState
  <2>1. gc.closing /\ gc.tmudata = <<>>
    BY <1>9 DEF CloseState
  <2>2. u \in gc.finalized \union called.late
    BY <2>1 DEF IInv, Finalizing, Of
  <2>3. Range(gc.tmudata) = {}
    BY <2>1 DEF Range
  <2> QED
    BY <2>2, <2>3 DEF IInv, Finalizing
<1> QED
  BY <1>1, <1>2, <1>3, <1>4, <1>5, <1>6, <1>7, <1>8, <1>9, Zenon DEF Next, Script

(* Every userdata is finalized once, and before it is freed: also when it  *)
(* is brought back by its finalizer, and when the state is closed.         *)
THEOREM FinalizersRunOnce == Spec => FinalizedOnce
<1>1. IInv /\ [Next]_vars =>
        [\A u \in Object : kind[u] = "udata" =>
           /\ u \in exists \ exists' => u \in called.done \union called.late
           /\ u \in Range(gc.tmudata) \ Range(gc'.tmudata) => u \notin called.done]_vars
  <2> SUFFICES ASSUME IInv, Next, NEW u \in Object, kind[u] = "udata"
               PROVE  /\ u \in exists \ exists' => u \in called.done \union called.late
                      /\ u \in Range(gc.tmudata) \ Range(gc'.tmudata) => u \notin called.done
    OBVIOUS
  <2>1. u \in exists \ exists' => u \in called.done \union called.late
    BY FreedFinalized
  <2>2. u \in Range(gc.tmudata) \ Range(gc'.tmudata) => u \notin called.done
    BY DEF IInv, Finalizing
  <2> QED
    BY <2>1, <2>2
<1> QED
  BY CollectorInvariant, <1>1, PTL DEF Spec, FinalizedOnce
-----------------------------------------------------------------------------
(* What is marked, and the lists, are within a set.                        *)
Within(g, set) ==
  /\ g \in Collectors /\ Lists(g) \union Marked(g) \subseteq set
  /\ g.weak \subseteq WeakOf(Object)

(* The set is closed under references.                                     *)
ClosedUnder(set) == set \in SUBSET Object /\ \A o \in set : Strong(o) \subseteq set

(* Marking stays within a closed set that has the values.                  *)
LEMMA WithinMark ==
  ASSUME NEW set, ClosedUnder(set), NEW g, Within(g, set), NEW values,
         values \intersect Object \subseteq set, NEW g2, g2 = markvalues(g, values)
  PROVE  Within(g2, set) /\ SameRest(g, g2)
<1>1. g \in Collectors /\ set \in SUBSET Object /\ \A o \in set : Strong(o) \subseteq set
  BY DEF Within, ClosedUnder
<1>2. PICK new \in SUBSET Object :
        /\ g2 \in Collectors /\ SameRest(g, g2)
        /\ g2.gray = g.gray \union ListedOf(new)
        /\ g2.grayagain = g.grayagain /\ g2.weak = g.weak
        /\ \A o \in new : iswhite(g, o) /\ g2.mark[o] = IF Listed(o) THEN "gray" ELSE Finished(o)
        /\ \A o \in Object \ new : g2.mark[o] = g.mark[o]
        /\ Marked(g2) = Marked(g) \union new
        /\ values \intersect Object \subseteq Marked(g2)
        /\ \A s \in SUBSET Object :
             values \intersect Object \subseteq s /\ (\A o \in s : PassesOn(o) \subseteq s)
               => new \subseteq s
  BY <1>1, MarkValues
<1>3. Marked(g2) \subseteq Marked(g) \union set
  BY <1>1, MarkValuesInside
<1> QED
  BY <1>2, <1>3 DEF Within, Lists, ListedOf

(* So does the traversal of all gray objects.                              *)
LEMMA WithinAll ==
  ASSUME NEW set, ClosedUnder(set), NEW g, Within(g, set), NEW g2, g2 = propagateall(g)
  PROVE  Within(g2, set) /\ SameRest(g, g2)
<1>1. g \in Collectors /\ set \in SUBSET Object /\ \A o \in set : Strong(o) \subseteq set
  BY DEF Within, ClosedUnder
<1>2. g.gray \subseteq set
  BY DEF Within, Lists
<1>3. PICK found \in SUBSET Object :
        /\ g2 \in Collectors /\ SameRest(g, g2) /\ g2.gray = {} /\ found \subseteq set
        /\ g2.grayagain = g.grayagain \union ThreadsOf(found)
        /\ g2.weak = g.weak \union WeakOf(found) /\ Marked(g2) = Marked(g) \union found
  BY <1>1, <1>2, PropagateAll
<1> QED
  BY <1>3 DEF Within, Lists, ThreadsOf, WeakOf

(* And so does what is left to mark in the atomic step, if the set has the *)
(* running thread and the userdata that are then to be finalized.          *)
LEMMA WithinRest ==
  ASSUME IInv, NEW set, ClosedUnder(set), Within(gc, set), running \in set,
         NEW g, g = MarkRest(gc), Range(g.tmudata) \subseteq set
  PROVE  Within(g, set)
<1>1. PICK g1 : g1 = remarkupvals(gc)
  OBVIOUS
<1>2. PICK g2 : g2 = propagateall(g1)
  OBVIOUS
<1>3. PICK g3 : g3 = [g2 EXCEPT !.gray = g2.weak, !.weak = {}]
  OBVIOUS
<1>4. PICK g4 : g4 = markvalues(g3, {running})
  OBVIOUS
<1>5. PICK g5 : g5 = propagateall(g4)
  OBVIOUS
<1>6. PICK g6 : g6 = [g5 EXCEPT !.gray = g5.grayagain, !.grayagain = {}]
  OBVIOUS
<1>7. PICK g7 : g7 = propagateall(g6)
  OBVIOUS
<1>8. PICK g8 : g8 = luaC_separateudata(g7, FALSE)
  OBVIOUS
<1>9. PICK left : left = Range(g8.tmudata)
  OBVIOUS
<1>10. PICK g9 : g9 = [g8 EXCEPT !.mark = [o \in Object |-> IF o \in left THEN "white" ELSE g8.mark[o]]]
  OBVIOUS
<1>11. PICK g10 : g10 = markvalues(g9, left)
  OBVIOUS
<1>12. g = propagateall(g10)
  BY <1>1, <1>2, <1>3, <1>4, <1>5, <1>6, <1>7, <1>8, <1>9, <1>10, <1>11, Zenon
  DEF MarkRest, marktmu
<1>13. HeapType /\ gc \in Collectors /\ Finalizing(gc)
  BY DEF IInv, TypeOK
<1> DEFINE values == {Contents(uv) : uv \in {o \in Of("upval") : IsOpen(o) /\ gc.mark[o] = "gray"}}
<1>14. values \intersect Object \subseteq set
  <2> SUFFICES ASSUME NEW uv \in Of("upval"), gc.mark[uv] = "gray", Contents(uv) \in Object
               PROVE  Contents(uv) \in set
    OBVIOUS
  <2>1. uv \in Object /\ kind[uv] = "upval"
    BY <1>13 DEF Of, HeapType
  <2>2. uv \in set
    BY <2>1 DEF Within, Marked, iswhite
  <2>3. Contents(uv) \in Strong(uv)
    BY <2>1, StrongCases
  <2> QED
    BY <2>2, <2>3 DEF ClosedUnder
<1>15. g1 = markvalues(gc, values)
  BY <1>1, Zenon DEF remarkupvals
<1> HIDE DEF values
<1>16. Within(g1, set) /\ SameRest(gc, g1)
  BY <1>14, <1>15, WithinMark
<1>17. Within(g2, set) /\ SameRest(g1, g2)
  BY <1>2, <1>16, WithinAll
<1>18. Within(g3, set) /\ SameRest(g2, g3)
  <2>1. /\ g3 \in Collectors /\ g3.gray = g2.weak /\ g3.weak = {} /\ g3.grayagain = g2.grayagain
        /\ g3.mark = g2.mark /\ SameRest(g2, g3)
    BY <1>3, <1>17 DEF Within, Collectors, SameRest
  <2> QED
    BY <2>1, <1>17 DEF Within, Lists, Marked, iswhite
<1>19. Within(g4, set) /\ SameRest(g3, g4)
  BY <1>4, <1>18, WithinMark
<1>20. Within(g5, set) /\ SameRest(g4, g5)
  BY <1>5, <1>19, WithinAll
<1>21. Within(g6, set) /\ SameRest(g5, g6)
  <2>1. /\ g6 \in Collectors /\ g6.gray = g5.grayagain /\ g6.grayagain = {} /\ g6.weak = g5.weak
        /\ g6.mark = g5.mark /\ SameRest(g5, g6)
    BY <1>6, <1>20 DEF Within, Collectors, SameRest
  <2> QED
    BY <2>1, <1>20 DEF Within, Lists, Marked, iswhite
<1>22. Within(g7, set) /\ SameRest(g6, g7)
  BY <1>7, <1>21, WithinAll
<1>23. /\ g8 \in Collectors /\ g8.mark = g7.mark /\ g8.gray = g7.gray
       /\ g8.grayagain = g7.grayagain /\ g8.weak = g7.weak
  <2>1. SameRest(gc, g7) /\ g7 \in Collectors
    BY <1>16, <1>17, <1>18, <1>19, <1>20, <1>21, <1>22 DEF SameRest, Within
  <2>2. IsInjective(g7.tmudata) /\ Range(g7.tmudata) \subseteq g7.finalized
    BY <2>1, <1>13 DEF SameRest, Finalizing, IsInjective
  <2>3. PICK all : all = FALSE
    OBVIOUS
  <2>4. g8 = luaC_separateudata(g7, all)
    BY <1>8, <2>3
  <2> QED
    BY <2>1, <2>2, <2>4, <1>13, Separate
<1>24. Within(g8, set)
  BY <1>22, <1>23 DEF Within, Lists, Marked, iswhite
<1>25. /\ g9 \in Collectors /\ g9.tmudata = g8.tmudata /\ g9.gray = g8.gray
       /\ g9.grayagain = g8.grayagain /\ g9.weak = g8.weak
       /\ \A o \in Object : g9.mark[o] = IF o \in left THEN "white" ELSE g8.mark[o]
  <2> DEFINE mark == [o \in Object |-> IF o \in left THEN "white" ELSE g8.mark[o]]
  <2>1. mark \in [Object -> {"white", "dead", "gray", "black"}]
    BY <1>23 DEF Collectors
  <2>2. \A o \in Object : mark[o] = IF o \in left THEN "white" ELSE g8.mark[o]
    OBVIOUS
  <2>3. g9 = [g8 EXCEPT !.mark = mark]
    BY <1>10
  <2> HIDE DEF mark
  <2> QED
    BY <2>1, <2>2, <2>3, <1>23 DEF Collectors
<1>26. Within(g9, set)
  <2>1. Marked(g9) \subseteq Marked(g8) /\ Lists(g9) = Lists(g8)
    BY <1>25 DEF Marked, iswhite, Lists
  <2> QED
    BY <2>1, <1>24, <1>25 DEF Within
<1>27. left \subseteq set => Within(g10, set) /\ SameRest(g9, g10)
  BY <1>11, <1>26, WithinMark
<1>28. g.tmudata = g8.tmudata
  <2>1. g9 \in Collectors /\ g10 = markvalues(g9, left)
    BY <1>11, <1>25
  <2>2. g10 \in Collectors /\ SameRest(g9, g10)
    BY <2>1, MarkValues
  <2>3. SameRest(g10, g)
    BY <2>2, <1>12, PropagateAll
  <2> QED
    BY <2>2, <2>3, <1>25 DEF SameRest
<1>29. Within(g10, set)
  BY <1>9, <1>27, <1>28
<1> QED
  BY <1>12, <1>29, WithinAll

(* What is reached by references is the least set that has the roots and   *)
(* is closed, by the references that marking follows too.                  *)
LEMMA ReachableLeast ==
  \A roots \in SUBSET Object :
    /\ roots \subseteq ReachableFrom(roots) /\ ClosedUnder(ReachableFrom(roots))
    /\ \A p \in ReachableFrom(roots) : Refers(p) \subseteq ReachableFrom(roots)
    /\ \A set \in SUBSET Object :
         roots \subseteq set /\ (\A p \in set : Refers(p) \subseteq set)
           => ReachableFrom(roots) \subseteq set
<1> SUFFICES ASSUME NEW roots \in SUBSET Object
             PROVE  /\ roots \subseteq ReachableFrom(roots) /\ ClosedUnder(ReachableFrom(roots))
                    /\ \A p \in ReachableFrom(roots) : Refers(p) \subseteq ReachableFrom(roots)
                    /\ \A set \in SUBSET Object :
                         roots \subseteq set /\ (\A p \in set : Refers(p) \subseteq set)
                           => ReachableFrom(roots) \subseteq set
  OBVIOUS
<1>1. \A o \in Object : Refers(o) \subseteq Object /\ Strong(o) \subseteq Refers(o)
  <2> SUFFICES ASSUME NEW o \in Object
               PROVE  Refers(o) \subseteq Object /\ Strong(o) \subseteq Refers(o)
    OBVIOUS
  <2>1. Strong(o) \subseteq Object
    BY StrongType
  <2> QED
    BY <2>1 DEF Refers, Strings
<1> DEFINE refs == [o \in Object |-> Refers(o)]
<1>2. refs \in [Object -> SUBSET Object] /\ \A o \in Object : refs[o] = Refers(o)
  BY <1>1
<1>3. ReachableFrom(roots) = Reached(roots, refs)
  BY Zenon DEF ReachableFrom
<1> HIDE DEF refs
<1>4. /\ roots \subseteq Reached(roots, refs) /\ Reached(roots, refs) \subseteq Object
      /\ \A p \in Reached(roots, refs) : refs[p] \subseteq Reached(roots, refs)
      /\ \A set \in SUBSET Object :
           roots \subseteq set /\ (\A p \in set : refs[p] \subseteq set)
             => Reached(roots, refs) \subseteq set
  BY <1>2, ReachedIsLeast
<1> QED
  BY <1>1, <1>2, <1>3, <1>4 DEF ClosedUnder

(* The same of the next state.                                             *)
LEMMA ReachableLeastNext ==
  (\A roots \in SUBSET Object :
    /\ roots \subseteq ReachableFrom(roots) /\ ClosedUnder(ReachableFrom(roots))
    /\ \A p \in ReachableFrom(roots) : Refers(p) \subseteq ReachableFrom(roots)
    /\ \A set \in SUBSET Object :
         roots \subseteq set /\ (\A p \in set : Refers(p) \subseteq set)
           => ReachableFrom(roots) \subseteq set)'
BY ReachableLeast, PTL

(* What is kept by a collection that begins now.                           *)
Roots(g) == {Main, Globals, running} \union Range(g.tmudata)

(* A full collection marks nothing else: it began with no marks but those  *)
(* of userdata that wait for their finalizers.                             *)
FullMarks ==
  gc.full /\ gc.state = "propagate" /\ ~ gc.closing =>
    Marked(gc) \subseteq ReachableFrom(Roots(gc)) /\ gc.weak \subseteq WeakOf(Object)

(* The roots are objects.                                                  *)
LEMMA RootsType == TypeOK => Roots(gc) \in SUBSET Object
<1> SUFFICES ASSUME TypeOK PROVE Roots(gc) \in SUBSET Object
  OBVIOUS
<1>1. gc.tmudata \in Seq(Object)
  BY DEF TypeOK, Collectors
<1>2. Range(gc.tmudata) \subseteq Object
  BY <1>1 DEF Range
<1> QED
  BY <1>2, KindsType DEF Roots, TypeOK, HeapType

(* In the next state too.                                                  *)
LEMMA RootsTypeNext == TypeOK' => (Roots(gc) \in SUBSET Object)'
BY RootsType, PTL

(* Bringing back and the barriers do not make a collection a full one.     *)
LEMMA BarrierFull ==
  ASSUME NEW g \in Collectors, NEW x, NEW v
  PROVE  Resurrect(g, x).full = g.full /\ luaC_barrier(g, x, v).full = g.full
<1>1. makewhite(g, x).full = g.full
  BY DEF makewhite, Paint, Collectors
<1>2. markvalues(g, {v}).full = g.full
  <2>1. PICK values, g2 : values = {v} /\ g2 = markvalues(g, values)
    OBVIOUS
  <2>2. SameRest(g, g2)
    BY <2>1, MarkValues
  <2> QED
    BY <2>1, <2>2 DEF SameRest
<1> QED
  BY <1>1, <1>2, Zenon DEF Resurrect, luaC_barrier

(* A close of upvalues neither.                                            *)
LEMMA LinkedFull ==
  ASSUME IInv, ~ gc.closing, NEW level
  PROVE  Linked(running, level).full = gc.full
<1>1. HeapType /\ Placed /\ gc \in Collectors
  BY DEF IInv, TypeOK, Running
<1>2. PICK th, dead, closed, g2 :
        /\ th = running /\ dead = DeadFrom(th, level)
        /\ closed = OpenFrom(th, level) \ dead /\ g2 = Linked(th, level)
  OBVIOUS
<1>3. CASE gc.state # "propagate"
  <2>1. SameRest(gc, g2)
    BY <1>1, <1>2, <1>3, LinkedOutside
  <2> QED
    BY <2>1, <1>2 DEF SameRest
<1>4. CASE gc.state = "propagate"
  <2>1. \A o \in Object : ~ isdead(gc, o)
    BY <1>4, NothingCondemned
  <2>2. dead = {} /\ closed = OpenFrom(th, level) /\ DeadFrom(th, level) = {}
    BY <2>1, <1>1, <1>2 DEF DeadFrom, OpenFrom, Of, HeapType
  <2>3. /\ HeapType /\ Placed /\ gc \in Collectors /\ gc.state = "propagate"
        /\ DeadFrom(th, level) = {} /\ closed = OpenFrom(th, level) /\ g2 = Linked(th, level)
    BY <1>1, <1>2, <1>4, <2>2
  <2>4. SameRest(gc, g2)
    BY <2>3, LinkedInside
  <2> QED
    BY <1>2, <2>4 DEF SameRest
<1> QED
  BY <1>3, <1>4

(* Scripts do not run in a full collection, and only FullGC begins one.    *)
LEMMA ScriptFull ==
  ASSUME IInv, Script, gc'.full
  PROVE  FullGC \/ (gc.closing /\ gc'.closing)
<1>1. HeapType /\ gc \in Collectors /\ Finalizing(gc) /\ TypeOK
  BY DEF IInv, TypeOK
<1> SUFFICES ASSUME ~ FullGC PROVE gc.closing /\ gc'.closing
  OBVIOUS
<1>2. CASE \E i \in FirstFree :
             \/ \E o \in Object : New(o, i) \/ Intern(o, i) \/ \E j \in Level : Closure(o, i, j)
             \/ \E t \in TableObjects : GetTable(t, i)
             \/ \E c \in Of("closure") : GetUpval(c, i)
  <2>1. ~ gc.full /\ (gc' = gc \/ \E x : gc' = Resurrect(gc, x))
    BY <1>2, ZenonT(30) DEF New, Intern, Closure, GetTable, GetUpval, Runs
  <2> QED
    BY <2>1, <1>1, BarrierFull
<1>3. CASE \E i \in Level :
             \/ Drop(i) \/ Close(i) \/ \E j \in Level : Yield(i, j)
             \/ \E c \in Of("closure") : SetUpval(c, i)
             \/ \E co \in Of("thread") : Resume(co, i)
  <2>1. /\ ~ gc.full /\ ~ gc.closing
        /\ \/ gc' = gc
           \/ \E i \in Level : gc' = Linked(running, i)
           \/ \E x, v : gc' = luaC_barrier(gc, x, v)
    BY <1>3, Zenon DEF Drop, Close, Yield, SetUpval, Resume, Runs
  <2> QED
    BY <2>1, <1>1, BarrierFull, LinkedFull
<1>4. CASE \E t \in TableObjects, k, v \in Operand : SetTable(t, k, v)
  <2>1. PICK t \in TableObjects, k \in Operand, v \in Operand : SetTable(t, k, v)
    BY <1>4, Zenon
  <2>2. PICK g1 : g1 = luaC_barriert(gc, t, k)
    OBVIOUS
  <2>3. ~ gc.full /\ g1 = luaC_barriert(gc, t, k) /\ gc' = luaC_barriert(g1, t, v)
    BY <2>1, <2>2 DEF SetTable, Runs
  <2>4. t \in Object
    BY <1>1 DEF TableObjects, HeapType
  <2>5. g1 \in Collectors /\ SameRest(gc, g1)
    BY <2>3, <2>4, <1>1, BarrierBack
  <2>6. SameRest(g1, gc')
    BY <2>3, <2>4, <2>5, BarrierBack
  <2> QED
    BY <2>3, <2>5, <2>6 DEF SameRest
<1>5. CASE \E u \in Of("udata"), t \in TableObjects : SetEnv(u, t)
  <2>1. ~ gc.full /\ \E x, v : gc' = luaC_barrier(gc, x, v)
    BY <1>5, Zenon DEF SetEnv, Runs
  <2> QED
    BY <2>1, <1>1, BarrierFull
<1>6. CASE BeginClose
  BY <1>6 DEF BeginClose, GCInit
<1>7. CASE \E u \in Object : CloseNew(u)
  BY <1>7 DEF CloseNew
<1>8. CASE CloseState
  <2>1. CASE gc.tmudata = <<>>
    BY <2>1, <1>8 DEF CloseState
  <2>2. CASE gc.tmudata # <<>>
    <3>1. /\ gc.closing /\ CallFinalizer
          /\ UNCHANGED <<kind, exists, node, env, upval, place, value, running>>
      BY <2>2, <1>8 DEF CloseState
    <3> QED
      BY <3>1, <2>2, <1>1, Finalizer
  <2> QED
    BY <2>1, <2>2
<1> QED
  BY <1>2, <1>3, <1>4, <1>5, <1>6, <1>7, <1>8, Zenon DEF Script

(* A mark phase begins with the marks of the roots.                        *)
LEMMA FullBegins ==
  ASSUME IInv, Start \/ FullGC
  PROVE  Marked(gc)' \subseteq Roots(gc)' /\ gc'.weak = {}
<1>1. CASE Start
  <2>1. /\ HeapType /\ gc \in Collectors /\ Sweeping(gc) /\ gc.state = "pause"
        /\ gc' = markroot(gc) /\ gc.strings = {} /\ gc.unswept = {}
    BY <1>1 DEF Start, IInv, TypeOK, Running, Sweeping
  <2>2. RootsMarked(gc, gc') /\ Marked(gc) \subseteq Range(gc.tmudata)
    BY <2>1, MarkRoot DEF Sweeping, LeftToSweep, OpenIn
  <2> QED
    BY <2>2 DEF RootsMarked, Marked, iswhite, Roots
<1>2. CASE FullGC
  <2>1. PICK g2 : /\ HeapType' /\ Placed' /\ g2 \in Collectors
                  /\ Blank(g2)' /\ Safe(g2)' /\ Sweeping(g2)' /\ Painted(g2)' /\ Finalizing(g2)'
                  /\ g2.strings = {} /\ g2.unswept = {}
                  /\ g2.state # "propagate" /\ ~ g2.closing
                  /\ gc' \in Collectors /\ RootsMarked(g2, gc')
    BY <1>2, FullGCSwept
  <2>2. Marked(g2) \subseteq Range(g2.tmudata)
    BY <2>1 DEF Sweeping, LeftToSweep, OpenIn, Marked, iswhite
  <2> QED
    BY <2>1, <2>2 DEF RootsMarked, Marked, iswhite, Roots
<1> QED
  BY <1>1, <1>2

(* Propagate goes on with the collection there is.                         *)
LEMMA PropagateFull ==
  ASSUME IInv, Propagate, gc'.full
  PROVE  gc.full
<1> SUFFICES ASSUME ~ gc.full PROVE FALSE
  OBVIOUS
<1>1. PICK o \in gc.gray : gc' = propagatemark(gc, o)
  BY DEF Propagate
<1>2. HeapType /\ Placed /\ Painted(gc) /\ gc \in Collectors /\ Listing(gc) /\ BlackBut(gc, Pending(gc))
  BY DEF Propagate, IInv, TypeOK, Running, Marking
<1>3. SameRest(gc, gc')
  BY <1>1, <1>2, PropagateOne
<1> QED
  BY <1>3 DEF SameRest

(* Every step of a full collection keeps to what can be reached.           *)
LEMMA FullMarksStep ==
  ASSUME IInv, FullMarks, [Next]_vars
  PROVE  FullMarks'
<1> SUFFICES ASSUME gc'.full, gc'.state = "propagate", ~ gc'.closing
             PROVE  /\ Marked(gc)' \subseteq ReachableFrom(Roots(gc))'
                    /\ gc'.weak \subseteq WeakOf(Object)'
  BY DEF FullMarks
<1>1. IInv'
  BY NextStep
<1>2. CASE Start \/ FullGC
  <2>1. Roots(gc)' \in (SUBSET Object)
    BY <1>1, RootsTypeNext DEF IInv
  <2>2. Roots(gc)' \subseteq ReachableFrom(Roots(gc))'
    BY <2>1, ReachableLeastNext
  <2> QED
    BY <1>2, <2>2, FullBegins
<1>3. ASSUME Propagate \/ UNCHANGED vars, gc.state = "propagate", ~ gc.closing, gc.full
      PROVE  /\ Marked(gc)' \subseteq ReachableFrom(Roots(gc))'
             /\ gc'.weak \subseteq WeakOf(Object)'
  <2>1. UNCHANGED <<kind, exists, node, env, upval, place, value, stack, running, called>>
    BY <1>3 DEF Propagate, heap, vars
  <2>2. HeapType /\ gc \in Collectors /\ Listing(gc) /\ Roots(gc) \in SUBSET Object
    BY <1>3, RootsType DEF IInv, TypeOK, Running, Marking
  <2>3. PICK reached : reached = ReachableFrom(Roots(gc))
    OBVIOUS
  <2>4. ClosedUnder(reached)
    BY <2>2, <2>3, ReachableLeast
  <2>5. Within(gc, reached)
    <3>1. Lists(gc) \subseteq Marked(gc)
      BY <2>2 DEF Listing, Lists, Marked, iswhite, Collectors
    <3> QED
      BY <3>1, <2>2, <2>3, <1>3 DEF FullMarks, Within
  <2>6. PICK g2 : g2 = gc'
    OBVIOUS
  <2>7. Within(g2, reached) /\ SameRest(gc, g2)
    <3>1. CASE Propagate
      <4>1. g2 = propagateall(gc)
        BY <3>1, <1>3, <2>6 DEF Propagate
      <4> QED
        BY <4>1, <2>4, <2>5, WithinAll
    <3>2. CASE UNCHANGED vars
      BY <3>2, <2>5, <2>6 DEF vars, SameRest
    <3> QED
      BY <3>1, <3>2, <1>3
  <2>8. reached \subseteq ReachableFrom(Roots(gc))'
    <3>1. PICK next : next = ReachableFrom(Roots(gc))'
      OBVIOUS
    <3>2. Roots(gc)' = Roots(gc)
      BY <2>1, <2>6, <2>7 DEF Roots, SameRest
    <3>3. \A o \in Object : Refers(o)' = Refers(o)
      <4>1. \A o \in Object : Contents(o)' = Contents(o)
        BY <2>1 DEF Contents, IsOpen, Closed
      <4>2. \A o \in Object : Strong(o)' = Strong(o)
        BY <2>1, <4>1, StrongStays
      <4> QED
        BY <2>1, <4>2 DEF Refers, Strings
    <3>4. Roots(gc) \subseteq next /\ ClosedUnder(next)' /\ \A p \in next : Refers(p)' \subseteq next
      BY <2>2, <3>1, <3>2, ReachableLeastNext
    <3>5. next \in SUBSET Object
      BY <3>4 DEF ClosedUnder
    <3>6. \A p \in next : Refers(p) \subseteq next
      BY <3>3, <3>4, <3>5
    <3> QED
      BY <2>2, <2>3, <3>1, <3>4, <3>5, <3>6, ReachableLeast
  <2>9. Marked(gc)' = Marked(g2) /\ WeakOf(Object)' = WeakOf(Object)
    BY <2>1, <2>6 DEF Marked, iswhite, WeakOf
  <2> QED
    BY <2>6, <2>7, <2>8, <2>9 DEF Within
<1>4. ASSUME Atomic PROVE FALSE
  <2>1. PICK g : g = MarkRest(gc)
    OBVIOUS
  <2>2. /\ gc.state = "propagate" /\ ~ gc.closing /\ gc.gray = {}
        /\ gc' = [StartSweep(g) EXCEPT !.mark = Flipped(g)]
    BY <1>4, <2>1, Zenon DEF Atomic, atomic
  <2>3. HeapType /\ g \in Collectors
    BY <2>1, <2>2, MarkedRest DEF IInv, TypeOK, Phase
  <2>4. StartSweep(g) \in Collectors /\ StartSweep(g).state = "sweepstring"
    BY <2>3, StartSweepFields
  <2> QED
    BY <2>2, <2>4 DEF Collectors
<1>5. ASSUME Sweep PROVE FALSE
  <2>1. /\ gc.state \in {"sweepstring", "sweep"} /\ HeapType /\ gc \in Collectors
        /\ \/ gc' = [gc EXCEPT !.state = "sweep"]
           \/ gc' = [gc EXCEPT !.state = "finalize"]
           \/ \E set : set \subseteq gc.strings \union gc.unswept /\ gc' = Swept(gc, set)
    BY <1>5, Zenon DEF Sweep, FirstOf, IInv, TypeOK
  <2>2. ASSUME NEW set, set \subseteq gc.strings \union gc.unswept, gc' = Swept(gc, set)
        PROVE  gc'.state = gc.state
    <3>1. set \in SUBSET Object
      BY <2>1, <2>2 DEF Collectors
    <3> QED
      BY <2>1, <2>2, <3>1, SweptFields
  <2> QED
    BY <2>1, <2>2 DEF Collectors
<1>6. ASSUME Finalize PROVE FALSE
  <2>1. CASE gc.tmudata = <<>>
    BY <2>1, <1>6 DEF Finalize, IInv, TypeOK, Collectors
  <2>2. CASE gc.tmudata # <<>>
    BY <2>2, <1>6, Finalizer DEF Finalize, IInv
  <2> QED
    BY <2>1, <2>2
<1>7. CASE Script
  BY <1>2, <1>7, ScriptFull
<1>8. CASE Next
  BY <1>2, <1>3, <1>4, <1>5, <1>6, <1>7, <1>8, PropagateFull, Zenon DEF Next, Collector, Propagate
<1>9. CASE UNCHANGED vars
  <2>1. gc' = gc
    BY <1>9 DEF vars
  <2> QED
    BY <2>1, <1>3, <1>9
<1> QED
  BY <1>8, <1>9

(* The atomic step condemns what is not marked then, but for some strings. *)
LEMMA FullCondemns ==
  ASSUME IInv, FullMarks, Atomic, gc.full, NEW o \in exists, ~ isdead(gc', o)
  PROVE  o \in ReachableFrom({Main, Globals, running} \union Range(gc'.tmudata))
<1>1. PICK g : g = MarkRest(gc)
  OBVIOUS
<1>2. /\ gc.state = "propagate" /\ ~ gc.closing /\ gc.gray = {}
      /\ gc' = [StartSweep(g) EXCEPT !.mark = Flipped(g)]
  BY <1>1, Zenon DEF Atomic, atomic
<1>3. /\ HeapType /\ gc \in Collectors /\ Listing(gc) /\ Finalizing(gc) /\ o \in Object
      /\ Roots(gc) \in SUBSET Object
  BY <1>2, RootsType DEF IInv, TypeOK, HeapType, Running, Marking
<1>4. g \in Collectors /\ Range(gc.tmudata) \subseteq Range(g.tmudata)
  BY <1>1, <1>2, MarkedRest DEF Phase
<1>5. gc'.tmudata = g.tmudata /\ gc'.mark = Flipped(g)
  <2>1. PICK s : s = StartSweep(g)
    OBVIOUS
  <2>2. s \in Collectors /\ s.tmudata = g.tmudata
    BY <2>1, <1>3, <1>4, StartSweepFields
  <2> QED
    BY <2>1, <2>2, <1>2 DEF Collectors
<1>6. PICK roots, reached : /\ roots = {Main, Globals, running} \union Range(g.tmudata)
                            /\ reached = ReachableFrom(roots)
  OBVIOUS
<1>7. roots \in SUBSET Object /\ Roots(gc) \subseteq roots
  <2>1. Range(g.tmudata) \subseteq Object
    BY <1>4 DEF Collectors, Range
  <2> QED
    BY <2>1, <1>3, <1>4, <1>6 DEF Roots
<1>8. /\ roots \subseteq reached /\ ClosedUnder(reached)
      /\ \A p \in reached : Refers(p) \subseteq reached
  BY <1>6, <1>7, ReachableLeast
<1>9. ReachableFrom(Roots(gc)) \subseteq reached
  <2>1. Roots(gc) \subseteq reached /\ reached \in SUBSET Object
    BY <1>7, <1>8 DEF ClosedUnder
  <2> QED
    BY <2>1, <1>3, <1>8, ReachableLeast
<1>10. Within(gc, reached)
  <2>1. Lists(gc) \subseteq Marked(gc)
    BY <1>3 DEF Listing, Lists, Marked, iswhite, Collectors
  <2> QED
    BY <2>1, <1>2, <1>3, <1>9 DEF FullMarks, Within
<1>11. Within(g, reached)
  <2>1. running \in reached /\ Range(g.tmudata) \subseteq reached
    BY <1>6, <1>8
  <2> QED
    BY <2>1, <1>1, <1>8, <1>10, WithinRest
<1>12. Flipped(g)[o] # "dead"
  BY <1>5 DEF isdead
<1>13. CASE o \in StringMarks(g)
  <2>1. PICK t \in g.weak : kind[o] = "string" /\ o \in {node[t].key, node[t].val}
    BY <1>13 DEF StringMarks, Of
  <2>2. t \in reached /\ kind[t] \in {"weakkeys", "weakvalues"} /\ t \in Object
    BY <1>11 DEF Within, Lists, WeakOf
  <2>3. o \in Refers(t)
    BY <2>1, <2>2, <1>3, StrongCases DEF Refers, Strings
  <2> QED
    BY <2>2, <2>3, <1>5, <1>6, <1>8
<1>14. CASE o \notin StringMarks(g)
  <2>1. g.mark[o] \notin {"white", "dead"}
    BY <1>3, <1>12, <1>14 DEF Flipped
  <2> QED
    BY <2>1, <1>3, <1>5, <1>6, <1>11 DEF Within, Marked, iswhite
<1> QED
  BY <1>13, <1>14

(* While a full collection goes on, only Atomic ends its mark phase, and   *)
(* only Finalize ends it.                                                  *)
LEMMA FullGoesOn ==
  ASSUME IInv, Next, gc.full, ~ Finalize
  PROVE  gc'.full /\ (~ Atomic /\ gc.state = "propagate" => gc'.state = "propagate")
<1>1. HeapType /\ gc \in Collectors
  BY DEF IInv, TypeOK
<1>2. CASE Start
  <2>1. gc.state = "pause"
    BY <1>2 DEF Start
  <2>2. PICK g1, roots :
          /\ g1 = [gc EXCEPT !.state = "propagate", !.gray = {}, !.grayagain = {}, !.weak = {}]
          /\ roots = {Main, Globals}
    OBVIOUS
  <2>3. g1 \in Collectors /\ g1.full
    BY <2>2, <1>1 DEF Collectors
  <2>4. gc' = markvalues(g1, roots)
    BY <2>2, <1>2, Zenon DEF Start, markroot
  <2>5. SameRest(g1, gc')
    BY <2>3, <2>4, MarkValues
  <2> QED
    BY <2>1, <2>3, <2>5 DEF SameRest
<1>3. CASE Propagate
  <2>1. gc' = propagateall(gc)
    BY <1>3 DEF Propagate
  <2>2. SameRest(gc, gc')
    BY <2>1, <1>1, PropagateAll
  <2> QED
    BY <2>2 DEF SameRest
<1>4. CASE Atomic
  <2>1. PICK g : g = MarkRest(gc)
    OBVIOUS
  <2>2. /\ gc.state = "propagate" /\ ~ gc.closing /\ gc.gray = {}
        /\ gc' = [StartSweep(g) EXCEPT !.mark = Flipped(g)]
    BY <1>4, <2>1, Zenon DEF Atomic, atomic
  <2>3. g \in Collectors /\ g.full
    BY <2>1, <2>2, MarkedRest DEF Phase
  <2>4. PICK s : s = StartSweep(g)
    OBVIOUS
  <2>5. s \in Collectors /\ s.full
    BY <2>3, <2>4, <1>1, StartSweepFields
  <2> QED
    BY <2>2, <2>4, <2>5, <1>4 DEF Collectors
<1>5. CASE Sweep
  <2>1. /\ gc.state \in {"sweepstring", "sweep"}
        /\ \/ \E next : gc' = [gc EXCEPT !.state = next]
           \/ \E set : set \subseteq gc.strings \union gc.unswept /\ gc' = Swept(gc, set)
    BY <1>5, Zenon DEF Sweep, FirstOf
  <2>2. ASSUME NEW set, set \subseteq gc.strings \union gc.unswept, gc' = Swept(gc, set)
        PROVE  gc'.full = gc.full
    <3>1. set \in SUBSET Object
      BY <1>1, <2>2 DEF Collectors
    <3> QED
      BY <1>1, <2>2, <3>1, SweptFields
  <2> QED
    BY <1>1, <2>1, <2>2 DEF Collectors
<1>6. CASE Script
  <2>1. gc' = gc \/ CallFinalizer
    BY <1>6, Zenon DEF Script, New, Intern, Closure, GetTable, GetUpval, Drop, Close, Yield,
                       SetUpval, Resume, SetTable, SetEnv, FullGC, BeginClose, CloseState,
                       CloseNew, Runs
  <2>2. ASSUME CallFinalizer PROVE gc'.full = gc.full /\ gc'.state = gc.state
    BY <2>2, <1>1 DEF CallFinalizer, makewhite, Paint, Collectors
  <2> QED
    BY <2>1, <2>2
<1> QED
  BY <1>2, <1>3, <1>4, <1>5, <1>6 DEF Next, Collector

(* A full collection keeps only what the scripts can reach, or could from  *)
(* the userdata that wait for their finalizers, and frees all the rest     *)
(* before it ends.                                                         *)
THEOREM FullCollectionsCollect == Spec => FullCollects
<1>1. Init => FullMarks
  BY DEF Init, GCInit, FullMarks
<1>2. IInv /\ FullMarks /\ [Next]_vars => FullMarks'
  BY FullMarksStep
<1>3. IInv /\ FullMarks /\ [Next]_vars =>
        [gc.full =>
           /\ gc.state = "propagate" /\ gc'.state # "propagate" =>
                \A o \in exists :
                  isdead(gc', o) \/
                    o \in ReachableFrom({Main, Globals, running} \union Range(gc'.tmudata))
           /\ ~ gc'.full => \A o \in exists : ~ isdead(gc, o)]_vars
  <2> SUFFICES ASSUME IInv, FullMarks, Next, gc.full
               PROVE  /\ gc.state = "propagate" /\ gc'.state # "propagate" =>
                           \A o \in exists :
                             isdead(gc', o) \/
                               o \in ReachableFrom({Main, Globals, running} \union Range(gc'.tmudata))
                      /\ ~ gc'.full => \A o \in exists : ~ isdead(gc, o)
    OBVIOUS
  <2>1. CASE Finalize
    <3>1. gc.state = "finalize" /\ ~ gc.closing
      BY <2>1 DEF Finalize
    <3>2. exists \subseteq Object
      BY DEF IInv, TypeOK, HeapType
    <3> QED
      BY <3>1, <3>2, NothingCondemned
  <2>2. CASE Atomic
    BY <2>2, FullCondemns, FullGoesOn DEF Atomic, Finalize
  <2>3. CASE ~ Finalize /\ ~ Atomic
    BY <2>3, FullGoesOn
  <2> QED
    BY <2>1, <2>2, <2>3
<1> QED
  BY CollectorInvariant, <1>1, <1>2, <1>3, PTL DEF Spec, FullCollects
=============================================================================
