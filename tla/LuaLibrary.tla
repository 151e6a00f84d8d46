----------------------------- MODULE LuaLibrary -----------------------------
(***************************************************************************)
(* Calls of Lua's string and table libraries (lstrlib.c, ltablib.c), each  *)
(* with its result.                                                        *)
(***************************************************************************)
EXTENDS LuaStrings

(* The table library's insert, remove and sort work on a list in the       *)
(* table a: a function on 0 .. some length that is nil past the n elements,*)
(* as the library finds it with lua_rawgeti.                               *)
nil == 0
Swap(a, i, j) == [a EXCEPT ![i] = a[j], ![j] = a[i]]
Shift(a, i, j) == [a EXCEPT ![i] = a[j]]

(* aux_getn: the border of a list without holes.                           *)
getn(a) == Max({0} \union {i \in DOMAIN a : i > 0 /\ a[i] # nil})

(* Elements move up from the last to the place, each over the one above.   *)
tinsert(a, pos, v) ==
  LET e == Max({getn(a) + 1, pos})
      moved == FoldLeft(LAMBDA b, i : Shift(b, e + 1 - i, e - i), a, [k \in 1 .. e - pos |-> k])
  IN [moved EXCEPT ![pos] = v]

tremove(a, pos) ==
  LET e == getn(a)
      moved == FoldLeft(LAMBDA b, i : Shift(b, pos + i - 1, pos + i), a, [k \in 1 .. e - pos |-> k])
  IN IF pos \notin 1 .. e THEN [a |-> a, value |-> nil]
     ELSE [a |-> [moved EXCEPT ![e] = nil], value |-> a[pos]]
-----------------------------------------------------------------------------
(* sort.  The comparison is an order: the set lt of the pairs it holds of, *)
(* and whether it takes a nil, which is there outside the list: lua_less-  *)
(* than, and a function that looks into what it gets, raise an error.      *)
Sorting(a) == [a |-> a, raised |-> "no"]
Raise(a, why) == [a |-> a, raised |-> why]
Less(order, x, y) == <<x, y>> \in order.lt
Refuses(order, x, y) == ~order.nils /\ nil \in {x, y}

(* From one side of the partition to the next element on its wrong side.   *)
RECURSIVE Up(_, _, _, _, _), Down(_, _, _, _, _)
Up(a, i, u, p, order) ==
  CASE Refuses(order, a[i], p) -> Raise(a, "attempt to compare nil")
    [] ~Refuses(order, a[i], p) /\ ~Less(order, a[i], p) -> [at |-> i, raised |-> "no"]
    [] OTHER -> IF i > u THEN Raise(a, "invalid order function") ELSE Up(a, i + 1, u, p, order)
Down(a, j, l, p, order) ==
  CASE Refuses(order, p, a[j]) -> Raise(a, "attempt to compare nil")
    [] ~Refuses(order, p, a[j]) /\ ~Less(order, p, a[j]) -> [at |-> j, raised |-> "no"]
    [] OTHER -> IF j < l THEN Raise(a, "invalid order function") ELSE Down(a, j - 1, l, p, order)

RECURSIVE Partition(_, _, _, _, _, _, _)
Partition(a, i, j, l, u, p, order) ==
  LET up == Up(a, i + 1, u, p, order)
      down == Down(a, j - 1, l, p, order)
  IN CASE up.raised # "no" -> Raise(a, up.raised)
       [] up.raised = "no" /\ down.raised # "no" -> Raise(a, down.raised)
       [] OTHER -> IF down.at < up.at THEN [a |-> a, raised |-> "no", i |-> up.at]
                   ELSE Partition(Swap(a, up.at, down.at), up.at, down.at, l, u, p, order)

(* The first, the middle and the last element in order.                    *)
Ends(a, l, u, order) == IF Less(order, a[u], a[l]) THEN Swap(a, l, u) ELSE a
MedianOfTwo(a, l, u, order) ==
  LET b == Ends(a, l, u, order)
      i == (l + u) \div 2
  IN IF Less(order, b[i], b[l]) THEN Swap(b, i, l) ELSE b
Median(a, l, u, order) ==
  LET b == Ends(a, l, u, order)
      i == (l + u) \div 2
  IN CASE Less(order, b[i], b[l]) -> Swap(b, i, l)
       [] OTHER -> IF Less(order, b[u], b[i]) THEN Swap(b, i, u) ELSE b

RECURSIVE auxsort(_, _, _, _)
auxsort(a, l, u, order) ==
  LET b == Median(a, l, u, order)
      middle == (l + u) \div 2
      split == Partition(Swap(b, middle, u - 1), l, u - 1, l, u, b[middle], order)
      c == Swap(split.a, u - 1, split.i)
      left == <<l, split.i - 1>>
      right == <<split.i + 1, u>>
      small == IF split.i - l < u - split.i THEN left ELSE right
      large == IF small = left THEN right ELSE left
      one == auxsort(c, small[1], small[2], order)
  IN CASE l >= u -> Sorting(a)
       [] u - l = 1 -> Sorting(Ends(a, l, u, order))
       [] u - l = 2 -> Sorting(b)
       [] OTHER -> IF split.raised # "no" THEN Raise(split.a, split.raised)
                   ELSE IF one.raised # "no" THEN one
                   ELSE auxsort(one.a, large[1], large[2], order)
sort(a, order) == auxsort(a, 1, getn(a), order)
-----------------------------------------------------------------------------
(* What sort is for: lt a strict weak order.                               *)
WeakOrder(lt, V) ==
  /\ \A x \in V : <<x, x>> \notin lt
  /\ \A x, y, z \in V : <<x, y>> \in lt /\ <<y, z>> \in lt => <<x, z>> \in lt
  /\ \A x, y, z \in V : <<x, z>> \in lt => <<x, y>> \in lt \/ <<y, z>> \in lt
SameElements(a, b) ==
  \A x \in Range(a) \union Range(b) :
    Cardinality({i \in DOMAIN a : a[i] = x}) = Cardinality({i \in DOMAIN b : b[i] = x})
List(a) == [i \in 1 .. getn(a) |-> a[i]]
-----------------------------------------------------------------------------

VARIABLES call,     \* the function called and its arguments
          result    \* <<>> before the call returns, then <<what it returned>>

libVars == <<call, result>>

(* A list in a table, with the nil before and some of those after it.      *)
Table(s, room) == [i \in 0 .. Len(s) + room |-> IF i \in DOMAIN s THEN s[i] ELSE nil]

Answer(fn, value) == call.fn = fn /\ result = <<>> /\ result' = <<value>> /\ UNCHANGED call

CallFind == Answer("find", str_find(call.s, call.p, call.init, call.plain))
CallMatch == Answer("match", str_match(call.s, call.p, call.init))
CallGsub == Answer("gsub", [gsub |-> str_gsub(call.s, call.p, call.repl, call.max_s),
                            gmatch |-> gmatch(call.s, call.p)])
CallSort == Answer("sort", sort(Table(call.list, 2), call.order))
CallInsert ==
  LET a == tinsert(Table(call.list, call.pos), call.pos, call.value)
  IN Answer("insert", [a |-> a, removed |-> tremove(a, call.pos)])

LibNext == CallFind \/ CallMatch \/ CallGsub \/ CallSort \/ CallInsert
Returned(fn) == call.fn = fn /\ result # <<>>
-----------------------------------------------------------------------------
FromInit(s, init) ==
  IF init < 0 THEN Max({1, Len(s) + 1 + init}) ELSE Min({Max({1, init}), Len(s) + 1})
OneError(values) == IF Raised(values) THEN <<Error>> ELSE values

(* A search gives the first place where the pattern matches, the longest   *)
(* or shortest match its repetitions ask for, and the captures of that     *)
(* match and no other (lstrlib.c:365); a plain search the first occurrence *)
(* (lstrlib.c:444).                                                        *)
Occurrences(s, p, from) ==
  {i \in from .. Len(s) + 1 - Len(p) : SubSeq(s, i, i + Len(p) - 1) = p}
MatchIsFirst ==
  (Returned("find") \/ Returned("match")) =>
    LET from == FromInit(call.s, call.init)
        at == Min(Occurrences(call.s, call.p, from))
    IN CASE call.plain -> result[1] =
              IF Occurrences(call.s, call.p, from) = {} THEN <<Nil>>
              ELSE <<<<"number", at>>, <<"number", at + Len(call.p) - 1>>>>
         [] OTHER -> OneError(result[1]) = OneError(Found(call.s, call.items, from, call.fn = "find"))

(* A replacement string is given by its parts.                             *)
PartOf(part, captures, whole) ==
  CASE part.kind = "char" -> <<"string", <<part.c>>>>
    [] part.kind = "end" -> <<"string", <<NUL>>>>
    [] OTHER -> IF part.n = 0 THEN whole
                ELSE IF part.n \in DOMAIN captures THEN captures[part.n] ELSE Error
Written(parts, captures, whole) ==
  LET values == [k \in DOMAIN parts |-> PartOf(parts[k], captures, whole)]
  IN IF Raised(values) THEN Error
     ELSE <<"string", FlattenSeq([k \in DOMAIN values |-> Characters(values[k])])>>
Given(value, whole) ==
  CASE value \in {Nil, False} -> whole
    [] value[1] \in {"string", "number"} -> <<"string", Characters(value)>>
    [] OTHER -> Error
StandsFor(repl, captures, whole) ==
  CASE repl.type = "string" -> Written(repl.parts, captures, whole)
    [] repl.type = "table" -> Given(Entry(repl.entries, captures[1]), whole)
    [] repl.type = "function" -> Given(Entry(repl.entries, captures), whole)

(* Where the matches are: what find gives, each from behind the last.      *)
Span(at) == [from |-> at[1][2], to |-> at[2][2] + 1]
RECURSIVE Spans(_, _)
Behind(span, n) == <<span>> \o Spans(Max({span.from + 1, span.to}), n - 1)
Spans(from, n) ==
  IF n = 0 THEN <<>> ELSE Behind(Span(str_find(call.s, call.p, from, FALSE)), n)

RECURSIVE Spliced(_, _, _)
Spliced(spans, texts, from) ==
  IF spans = <<>> THEN SubSeq(call.s, from, Len(call.s))
  ELSE SubSeq(call.s, from, Head(spans).from - 1) \o Head(texts)[2]
         \o Spliced(Tail(spans), Tail(texts), Head(spans).to)
Replacing(matches, spans) ==
  [k \in DOMAIN spans |->
     StandsFor(call.repl, matches[k], String(call.s, spans[k].from, spans[k].to))]
Follows(gsub, spans, texts) ==
  gsub = IF Error \in Range(texts) THEN [text |-> <<>>, n |-> Thrown]
         ELSE [text |-> Spliced(spans, texts, 1), n |-> Len(spans)]
FollowsMatches(gsub, matches, spans) ==
  IF \E k \in DOMAIN matches : Raised(matches[k])
  THEN gsub.n = Thrown \/ call.repl.type # "function"
  ELSE Follows(gsub, spans, Replacing(matches, spans))

(* gsub replaces exactly the matches that gmatch gives, up to max_s, each  *)
(* with what its captures make of the replacement, and keeps the text      *)
(* between them; it raises an error when that is so of one of these        *)
(* replacements, and otherwise only when gmatch does (lstrlib.c:548, 583,  *)
(* 605, 644).                                                              *)
GsubFollowsGmatch ==
  Returned("gsub") =>
    LET n == Min({call.max_s, Len(result[1].gmatch)})
    IN FollowsMatches(result[1].gsub, SubSeq(result[1].gmatch, 1, n), Spans(1, n))

(* Whatever the order function says of elements, and of the nil past the   *)
(* last, sorting loses no element and gives none twice; and with a strict  *)
(* weak order of the elements it does not refuse, and sorts                *)
(* (ltablib.c:193).                                                        *)
SortsOrRefuses ==
  Returned("sort") =>
    /\ SameElements(Table(call.list, 2), result[1].a)
    /\ WeakOrder(call.order.lt, Range(call.list)) =>
         /\ result[1].raised = "no"
         /\ \A i, j \in DOMAIN call.list :
              i < j => ~Less(call.order, result[1].a[j], result[1].a[i])

(* insert moves up what stands from the place on and nothing else, and     *)
(* remove moves it back (ltablib.c:90, 118).                               *)
InsertMakesRoom ==
  Returned("insert") =>
    /\ call.pos <= Len(call.list) + 1 =>
         LET made == InsertAt(call.list, call.pos, call.value)
         IN \A i \in DOMAIN result[1].a : result[1].a[i] = IF i \in DOMAIN made THEN made[i] ELSE nil
    /\ call.pos <= Len(call.list) + 1 =>
         result[1].removed = [a |-> Table(call.list, call.pos), value |-> call.value]

(* The list functions keep the list.                                       *)
ListsKept == SortsOrRefuses /\ InsertMakesRoom
=============================================================================
