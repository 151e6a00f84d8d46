----------------------------- MODULE LuaStrings -----------------------------
(***************************************************************************)
(* Pattern matching of Lua's string library (lstrlib.c): find, match,      *)
(* gmatch and gsub over a subject and a pattern of characters.             *)
(*                                                                         *)
(* Positions count from 1, both in the subject and in the pattern; reading *)
(* the character after the last gives the NUL that ends a C string, and    *)
(* one further on is an error of the evaluation.  A match is tried in a    *)
(* match state ms, which it changes: the result r of a try is the position *)
(* r.at after it, or NULL, or Thrown for an error, and the state r.ms it   *)
(* leaves, also when it fails.                                             *)
(***************************************************************************)
EXTENDS Integers, SequencesExt

CONSTANT LUA_MAXCAPTURES
-----------------------------------------------------------------------------
NUL == "NUL"
L_ESC == "%"
SPECIALS == {"^", "$", "*", "+", "?", ".", "(", "[", "%", "-"}
Chars == <<NUL, " ", "$", "%", "(", ")", "*", "+", "-", ".", "0", "1", "2", "?", "A", "D",
           "[", "]", "^", "a", "b", "d", "f", "s", "x">>   \* in the order of their codes
uchar(c) == SelectInSeq(Chars, LAMBDA d : d = c)
Small == {"a", "b", "d", "f", "s", "x"}
Capital == [A |-> "a", D |-> "d"]
isdigit(c) == c \in {"0", "1", "2"}
Read(s, i) == IF i = Len(s) + 1 THEN NUL ELSE s[i]

NULL == 0
Thrown == -1
Yes(ms, at) == [at |-> at, ms |-> ms]
No(ms) == [at |-> NULL, ms |-> ms]
luaL_error(ms) == [at |-> Thrown, ms |-> ms]

CAP_UNFINISHED == -1
CAP_POSITION == -2
Start(s, p) == [src |-> s, pat |-> p, capture |-> <<>>]
P(ms, i) == Read(ms.pat, i)
S(ms, i) == Read(ms.src, i)
src_end(ms) == Len(ms.src) + 1
-----------------------------------------------------------------------------
(* Where the single-character class at p ends; NULL when it is malformed.  *)
RECURSIVE SetEnd(_, _)
SetEnd(ms, p) ==
  LET next == IF P(ms, p) = L_ESC /\ P(ms, p + 1) # NUL THEN p + 2 ELSE p + 1
  IN CASE P(ms, p) = NUL -> NULL
       [] P(ms, p) # NUL /\ P(ms, next) = "]" -> next + 1
       [] OTHER -> SetEnd(ms, next)
classend(ms, p) ==
  CASE P(ms, p) = L_ESC -> IF P(ms, p + 1) = NUL THEN NULL ELSE p + 2
    [] P(ms, p) = "[" -> SetEnd(ms, IF P(ms, p + 1) = "^" THEN p + 2 ELSE p + 1)
    [] OTHER -> p + 1

(* ctype.h, for the characters there are.                                  *)
Class == [a |-> Small \union DOMAIN Capital, d |-> {"0", "1", "2"}, s |-> {" "},
          x |-> {"0", "1", "2", "A", "D", "a", "b", "d", "f"}]
match_class(c, cl) ==
  CASE cl \in DOMAIN Class -> c \in Class[cl]
    [] cl \in DOMAIN Capital -> c \notin Class[Capital[cl]]
    [] OTHER -> cl = c

(* Whether the set from p to the ] at ec holds c: some part of it does.    *)
RECURSIVE InParts(_, _, _, _)
InParts(ms, c, p, ec) ==
  CASE p >= ec -> FALSE
    [] p < ec /\ P(ms, p) = L_ESC -> match_class(c, P(ms, p + 1)) \/ InParts(ms, c, p + 2, ec)
    [] p < ec /\ P(ms, p) # L_ESC /\ P(ms, p + 1) = "-" /\ p + 2 < ec ->
         \/ uchar(P(ms, p)) <= uchar(c) /\ uchar(c) <= uchar(P(ms, p + 2))
         \/ InParts(ms, c, p + 3, ec)
    [] OTHER -> P(ms, p) = c \/ InParts(ms, c, p + 1, ec)
matchbracketclass(ms, c, p, ec) ==
  IF P(ms, p + 1) = "^" THEN ~InParts(ms, c, p + 2, ec) ELSE InParts(ms, c, p + 1, ec)

singlematch(ms, c, p, ep) ==
  CASE P(ms, p) = "." -> TRUE
    [] P(ms, p) = L_ESC -> match_class(c, P(ms, p + 1))
    [] P(ms, p) = "[" -> matchbracketclass(ms, c, p, ep - 1)
    [] OTHER -> P(ms, p) = c
Matches(ms, s, p, ep) == s < src_end(ms) /\ singlematch(ms, S(ms, s), p, ep)

(* The first place where as many closing as opening characters have been.  *)
matchbalance(ms, s, p) ==
  LET Depth(i) == Cardinality({k \in s .. i : S(ms, k) = P(ms, p) /\ (k = s \/ P(ms, p) # P(ms, p + 1))})
                    - Cardinality({k \in s + 1 .. i : S(ms, k) = P(ms, p + 1)})
      ends == {i \in s + 1 .. src_end(ms) - 1 : Depth(i) = 0}
  IN CASE P(ms, p) = NUL \/ P(ms, p + 1) = NUL -> luaL_error(ms)
       [] OTHER -> IF S(ms, s) # P(ms, p) \/ ends = {} THEN No(ms) ELSE Yes(ms, Min(ends) + 1)
-----------------------------------------------------------------------------
RECURSIVE match(_, _, _), Fewer(_, _, _, _), min_expand(_, _, _, _)

(* As many repetitions as there are, then fewer and fewer.                 *)
Fewer(ms, s, i, ep) ==
  LET r == match(ms, s + i, ep + 1) IN
  IF r.at # NULL \/ i = 0 THEN r ELSE Fewer(r.ms, s, i - 1, ep)
max_expand(ms, s, p, ep) ==
  LET most == CHOOSE i \in 0 .. src_end(ms) - s :
                /\ \A k \in 0 .. i - 1 : Matches(ms, s + k, p, ep)
                /\ ~Matches(ms, s + i, p, ep)
  IN Fewer(ms, s, most, ep)
min_expand(ms, s, p, ep) ==
  LET r == match(ms, s, ep + 1) IN
  IF r.at # NULL \/ ~Matches(ms, s, p, ep) THEN r ELSE min_expand(r.ms, s + 1, p, ep)

(* A capture is opened and closed for the rest of the match, and taken     *)
(* back when that fails.                                                   *)
start_capture(ms, s, p, what) ==
  LET r == match([ms EXCEPT !.capture = Append(@, [init |-> s, len |-> what])], s, p) IN
  CASE Len(ms.capture) >= LUA_MAXCAPTURES -> luaL_error(ms)
    [] OTHER -> IF r.at = NULL THEN No([r.ms EXCEPT !.capture = Front(@)]) ELSE r

capture_to_close(ms) == SelectLastInSeq(ms.capture, LAMBDA c : c.len = CAP_UNFINISHED)
end_captureKeeps(ms, s, p) ==
  LET l == capture_to_close(ms) IN
  IF l = 0 THEN luaL_error(ms) ELSE match([ms EXCEPT !.capture[l].len = s - ms.capture[l].init], s, p)
end_capture(ms, s, p) ==
  LET l == capture_to_close(ms)
      r == match([ms EXCEPT !.capture[l].len = s - ms.capture[l].init], s, p)
  IN CASE l = 0 -> luaL_error(ms)
       [] OTHER -> IF r.at = NULL THEN No([r.ms EXCEPT !.capture[l].len = CAP_UNFINISHED]) ELSE r

(* %1 .. %9: the capture's characters again.  A position has a length no   *)
(* subject has left.                                                       *)
match_capture(ms, s, c) ==
  LET l == uchar(c) - uchar("0")
      at == ms.capture[l].init
      len == ms.capture[l].len
  IN CASE l \notin DOMAIN ms.capture -> luaL_error(ms)
       [] l \in DOMAIN ms.capture /\ ms.capture[l].len = CAP_UNFINISHED -> luaL_error(ms)
       [] OTHER -> IF /\ len # CAP_POSITION /\ src_end(ms) - s >= len
                      /\ SubSeq(ms.src, at, at + len - 1) = SubSeq(ms.src, s, s + len - 1)
                   THEN Yes(ms, s + len) ELSE No(ms)

Frontier(ms, s, p) ==
  LET ep == classend(ms, p)
      previous == IF s = 1 THEN NUL ELSE S(ms, s - 1)
  IN CASE P(ms, p) # "[" -> luaL_error(ms)
       [] P(ms, p) = "[" /\ ep = NULL -> luaL_error(ms)
       [] OTHER -> IF \/ matchbracketclass(ms, previous, p, ep - 1)
                      \/ ~matchbracketclass(ms, S(ms, s), p, ep - 1)
                   THEN No(ms) ELSE match(ms, s, ep)

(* One character class, with what says how often it is repeated.           *)
Single(ms, s, p) ==
  LET ep == classend(ms, p)
      m == Matches(ms, s, p, ep)
      once == match(ms, s + 1, ep + 1)
  IN CASE ep = NULL -> luaL_error(ms)
       [] ep # NULL /\ P(ms, ep) = "?" ->
            IF m /\ once.at # NULL THEN once
            ELSE match(IF m THEN once.ms ELSE ms, s, ep + 1)
       [] ep # NULL /\ P(ms, ep) = "*" -> max_expand(ms, s, p, ep)
       [] ep # NULL /\ P(ms, ep) = "+" -> IF m THEN max_expand(ms, s + 1, p, ep) ELSE No(ms)
       [] ep # NULL /\ P(ms, ep) = "-" -> min_expand(ms, s, p, ep)
       [] OTHER -> IF m THEN match(ms, s + 1, ep) ELSE No(ms)

Then(r, p) == IF r.at \in {NULL, Thrown} THEN r ELSE match(r.ms, r.at, p)
match(ms, s, p) ==
  LET c == P(ms, p) IN
  CASE c = NUL -> Yes(ms, s)
    [] c = "(" -> IF P(ms, p + 1) = ")" THEN start_capture(ms, s, p + 2, CAP_POSITION)
                  ELSE start_capture(ms, s, p + 1, CAP_UNFINISHED)
    [] c = ")" -> end_capture(ms, s, p + 1)
    [] c = L_ESC /\ P(ms, p + 1) = "b" -> Then(matchbalance(ms, s, p + 2), p + 4)
    [] c = L_ESC /\ P(ms, p + 1) = "f" -> Frontier(ms, s, p + 2)
    [] c = L_ESC /\ isdigit(P(ms, p + 1)) -> Then(match_capture(ms, s, P(ms, p + 1)), p + 2)
    [] c = "$" /\ P(ms, p + 1) = NUL -> IF s = src_end(ms) THEN Yes(ms, s) ELSE No(ms)
    [] OTHER -> Single(ms, s, p)
-----------------------------------------------------------------------------
(* What a match gives: <<"string", its characters>>, <<"number", n>> or    *)
(* <<"error">>.                                                            *)
String(s, i, j) == <<"string", SubSeq(s, i, j - 1)>>
Error == <<"error">>
push_onecapture(ms, i, s, e) ==
  IF i > Len(ms.capture) THEN IF i = 1 THEN String(ms.src, s, e) ELSE Error
  ELSE LET c == ms.capture[i] IN
       CASE c.len = CAP_UNFINISHED -> Error
         [] c.len = CAP_POSITION -> <<"number", c.init>>
         [] OTHER -> String(ms.src, c.init, c.init + c.len)
push_captures(ms, s, e, whole) ==
  LET n == IF ms.capture = <<>> /\ whole THEN 1 ELSE Len(ms.capture)
  IN [i \in 1 .. n |-> push_onecapture(ms, i, s, e)]
Raised(values) == Error \in Range(values)

posrelat(pos, len) == Max({0, IF pos < 0 THEN pos + len + 1 ELSE pos})

(* The first place from init on where all of s2 stands in s1: the first of *)
(* the l1 characters that is s2's first (memchr) has the rest after it, or *)
(* the search goes on behind it.                                           *)
RECURSIVE Scanned(_, _, _, _)
Scanned(s1, s2, init, l1) ==
  LET heads == {i \in init .. init + l1 - 1 : s1[i] = Head(s2)}
      at == Min(heads)
  IN CASE heads = {} -> NULL
       [] heads # {} /\ SubSeq(s1, at + 1, at + Len(s2) - 1) = Tail(s2) -> at
       [] OTHER -> Scanned(s1, s2, at + 1, l1 - (at + 1 - init))
lmemfind(s1, s2, init) ==
  LET l1 == Len(s1) + 1 - init
  IN CASE s2 = <<>> -> init
       [] s2 # <<>> /\ Len(s2) > l1 -> NULL
       [] OTHER -> Scanned(s1, s2, init, l1 - (Len(s2) - 1))

Anchor(p) == IF Read(p, 1) = "^" THEN 1 ELSE 0
RECURSIVE FirstMatch(_, _, _)
Tried(r, s, p, s1) ==
  IF r.at # NULL \/ s1 > Len(s) \/ Anchor(p) = 1 THEN [r |-> r, s |-> s1]
  ELSE FirstMatch(s, p, s1 + 1)
FirstMatch(s, p, s1) == Tried(match(Start(s, p), s1, 1 + Anchor(p)), s, p, s1)
Nil == <<"nil">>
False == <<"false">>
Plainly(s2, p) ==
  IF s2 = NULL THEN <<Nil>> ELSE <<<<"number", s2>>, <<"number", s2 + Len(p) - 1>>>>
Matched(m, find) ==
  LET ends == <<<<"number", m.s>>, <<"number", m.r.at - 1>>>>
  IN CASE m.r.at = NULL -> <<Nil>>
       [] m.r.at = Thrown -> <<Error>>
       [] OTHER -> (IF find THEN ends ELSE <<>>) \o push_captures(m.r.ms, m.s, m.r.at, ~find)
str_find_aux(s, p, pos, plain, find) ==
  LET init == Min({Max({posrelat(pos, Len(s)), 1}), Len(s) + 1})
  IN IF find /\ (plain \/ Range(p) \intersect SPECIALS = {}) THEN Plainly(lmemfind(s, p, init), p)
     ELSE Matched(FirstMatch(s, p, init), find)
str_find(s, p, pos, plain) == str_find_aux(s, p, pos, plain, TRUE)
str_match(s, p, pos) == str_find_aux(s, p, pos, FALSE, FALSE)

(* One step of the iterator gmatch returns, from where the last one ended: *)
(* the values it gives and where the next begins.  It knows no anchor.     *)
RECURSIVE gmatch_aux(_, _, _)
Iterated(r, s, p, src) ==
  CASE r.at = Thrown -> [values |-> <<Error>>, next |-> src]
    [] r.at = NULL -> gmatch_aux(s, p, src + 1)
    [] OTHER -> [values |-> push_captures(r.ms, src, r.at, TRUE),
                 next |-> IF r.at = src THEN src + 1 ELSE r.at]
gmatch_aux(s, p, src) ==
  IF src > Len(s) + 1 THEN [values |-> <<>>, next |-> src]
  ELSE Iterated(match(Start(s, p), src, 1), s, p, src)
RECURSIVE gmatchFrom(_, _, _)
Onward(step, s, p) ==
  IF step.values = <<>> THEN <<>>
  ELSE <<step.values>> \o IF Raised(step.values) THEN <<>> ELSE gmatchFrom(s, p, step.next)
gmatchFrom(s, p, src) == Onward(gmatch_aux(s, p, src), s, p)
gmatch(s, p) == gmatchFrom(s, p, 1)
-----------------------------------------------------------------------------
(* What is put in place of a match from s to e.  A string, in which %n     *)
(* stands for a capture and a % at the end for the NUL after it; a table   *)
(* looked up with the first capture; or a function called with all of      *)
(* them.  The entries of the last two are the values other than nil, and   *)
(* Error where the function raises one.                                    *)
Characters(v) == IF v[1] = "number" THEN <<ToString(v[2])>> ELSE v[2]
RECURSIVE add_s(_, _, _, _, _)
add_s(ms, s, e, news, i) ==
  LET c == Read(news, i + 1)
      value == IF c = "0" THEN String(ms.src, s, e)
               ELSE push_onecapture(ms, uchar(c) - uchar("0"), s, e)
      rest == add_s(ms, s, e, news, i + 2)
  IN CASE i > Len(news) -> <<"string", <<>>>>
       [] i <= Len(news) /\ news[i] # L_ESC ->
            LET after == add_s(ms, s, e, news, i + 1) IN
            IF after = Error THEN Error ELSE <<"string", <<news[i]>> \o after[2]>>
       [] i <= Len(news) /\ news[i] = L_ESC /\ ~isdigit(c) ->
            IF rest = Error THEN Error ELSE <<"string", <<c>> \o rest[2]>>
       [] OTHER -> IF Error \in {value, rest} THEN Error
                   ELSE <<"string", Characters(value) \o rest[2]>>
Entry(entries, key) == IF key \in DOMAIN entries THEN entries[key] ELSE Nil
add_value(ms, s, e, repl) ==
  LET args == IF repl.type = "table" THEN <<push_onecapture(ms, 1, s, e)>>
              ELSE push_captures(ms, s, e, TRUE)
      value == IF Raised(args) THEN Error
               ELSE Entry(repl.entries, IF repl.type = "table" THEN args[1] ELSE args)
  IN CASE repl.type = "string" -> add_s(ms, s, e, repl.news, 1)
       [] repl.type # "string" /\ value \in {Nil, False} -> String(ms.src, s, e)
       [] repl.type # "string" /\ value[1] \in {"string", "number"} ->
            <<"string", Characters(value)>>
       [] OTHER -> Error

RECURSIVE gsubFrom(_, _, _, _, _, _, _)
Advance(r, value, s, p, repl, max_s, src, b, n) ==
  LET failed == [text |-> <<>>, n |-> Thrown]
      b1 == IF r.at = NULL THEN b ELSE b \o value[2]
      n1 == IF r.at = NULL THEN n ELSE n + 1
      kept == IF src <= Len(s) THEN <<s[src]>> ELSE <<>>
  IN IF r.at = Thrown \/ (r.at # NULL /\ value = Error) THEN failed
     ELSE IF r.at > src THEN IF Anchor(p) = 1 THEN [text |-> b1 \o SubSeq(s, r.at, Len(s)), n |-> n1]
                             ELSE gsubFrom(s, p, repl, max_s, r.at, b1, n1)
     ELSE IF src > Len(s) \/ Anchor(p) = 1
          THEN [text |-> b1 \o SubSeq(s, src, Len(s)), n |-> n1]
     ELSE gsubFrom(s, p, repl, max_s, src + 1, b1 \o kept, n1)
Replaced(r, s, p, repl, max_s, src, b, n) ==
  Advance(r, add_value(r.ms, src, r.at, repl), s, p, repl, max_s, src, b, n)
gsubFrom(s, p, repl, max_s, src, b, n) ==
  IF n >= max_s THEN [text |-> b \o SubSeq(s, src, Len(s)), n |-> n]
  ELSE Replaced(match(Start(s, p), src, 1 + Anchor(p)), s, p, repl, max_s, src, b, n)
str_gsubNoLast(s, p, repl, max_s) ==
  gsubFrom(s, p, repl, Min({max_s, Len(s)}), 1, <<>>, 0)
str_gsub(s, p, repl, max_s) == gsubFrom(s, p, repl, max_s, 1, <<>>, 0)
-----------------------------------------------------------------------------
(* What the manual's section 5.4.1 says a pattern matches, without a       *)
(* matcher: a pattern is a sequence of items, and Ways lists every way of  *)
(* matching it from a place on, the preferred one first.                   *)

(* An item and its text in a pattern.  Sets hold the characters a class    *)
(* stands for.                                                             *)
Letters == {"a", "b", "d", "f", "s", "x", "A", "D"}
One(text, set, rep) == [kind |-> "one", text |-> text \o rep, set |-> set,
                        rep |-> IF rep = <<>> THEN "1" ELSE rep[1]]
Repetitions == {<<>>, <<"?">>, <<"*">>, <<"+">>, <<"-">>}
Classes == {
  <<<<"a">>, {"a"}>>, <<<<".">>, Range(Chars)>>, <<<<"%", "a">>, Letters>>,
  <<<<"%", "D">>, Range(Chars) \ {"0", "1", "2"}>>, <<<<"%", ".">>, {"."}>>,
  <<<<"[", "a", "b", "]">>, {"a", "b"}>>, <<<<"[", "^", "a", "]">>, Range(Chars) \ {"a"}>>,
  <<<<"[", "a", "-", "d", "]">>, {"a", "b", "d"}>>, <<<<"[", "]", "a", "]">>, {"]", "a"}>>,
  <<<<"[", "%", "d", "b", "]">>, {"0", "1", "2", "b"}>>,
  <<<<"[", "a", "-", "]">>, {"a", "-"}>>}
Singles(classes, reps) == {One(c[1], c[2], r) : c \in classes, r \in reps}
Mark(kind, text) == [kind |-> kind, text |-> text]
Open == Mark("open", <<"(">>)
Close == Mark("close", <<")">>)
Position == Mark("position", <<"(", ")">>)
Back(n) == [kind |-> "back", text |-> <<"%", ToString(n)>>, n |-> n]
Balance(x, y) == [kind |-> "balance", text |-> <<"%", "b", x, y>>, from |-> x, to |-> y]
Edge(class) == [kind |-> "frontier", text |-> <<"%", "f">> \o class[1], set |-> class[2]]
End == Mark("end", <<"$">>)
TextOf(items) == FoldLeft(LAMBDA text, item : text \o item.text, <<>>, items)
-----------------------------------------------------------------------------
(* A capture: from where to where, [from, to], with to 0 while it is open  *)
(* and -1 for a position.  A way is where it ends and its captures, or     *)
(* Wrong when the pattern turns out to be wrong there.                     *)
Wrong == [at |-> Thrown]
Opened(caps) == {k \in DOMAIN caps : caps[k].to = 0}
Same(s, i, j, k) == k + (j - i) <= Len(s) + 1 /\ SubSeq(s, i, j - 1) = SubSeq(s, k, k + (j - i) - 1)
Run(s, i, set) == Max({n \in 0 .. Len(s) + 1 - i : \A k \in i .. i + n - 1 : s[k] \in set})
Counts(rep, run) ==
  CASE rep = "1" -> IF run > 0 THEN <<1>> ELSE <<>>
    [] rep = "?" -> IF run > 0 THEN <<1, 0>> ELSE <<0>>
    [] rep = "*" -> [n \in 1 .. run + 1 |-> run + 1 - n]
    [] rep = "+" -> [n \in 1 .. run |-> run + 1 - n]
    [] rep = "-" -> [n \in 1 .. run + 1 |-> n - 1]
Nested(s, i, k, x, y) ==
  Cardinality({m \in i .. k : s[m] = x}) - Cardinality({m \in i .. k : s[m] = y})

RECURSIVE Ways(_, _, _, _)
Ways(s, items, i, caps) ==
  LET item == Head(items)
      rest == Tail(items)
      counts == Counts(item.rep, Run(s, i, item.set))
      balanced == {k \in i + 1 .. Len(s) : s[k] = item.to /\ Nested(s, i, k, item.from, item.to) = 0}
      here == IF i > Len(s) THEN NUL ELSE s[i]
      before == IF i = 1 THEN NUL ELSE s[i - 1]
      c == caps[item.n]
  IN CASE items = <<>> -> <<[at |-> i, caps |-> caps]>>
       [] items # <<>> /\ item.kind = "one" ->
            FlattenSeq([n \in DOMAIN counts |-> Ways(s, rest, i + counts[n], caps)])
       [] items # <<>> /\ item.kind \in {"open", "position"} ->
            IF Len(caps) = LUA_MAXCAPTURES THEN <<Wrong>>
            ELSE Ways(s, rest, i, Append(caps, [from |-> i, to |-> IF item.kind = "open" THEN 0 ELSE -1]))
       [] items # <<>> /\ item.kind = "close" ->
            IF Opened(caps) = {} THEN <<Wrong>>
            ELSE Ways(s, rest, i, [caps EXCEPT ![Max(Opened(caps))].to = i])
       [] items # <<>> /\ item.kind = "back" ->
            IF item.n \notin DOMAIN caps \ Opened(caps) THEN <<Wrong>>
            ELSE IF c.to > 0 /\ Same(s, c.from, c.to, i) THEN Ways(s, rest, i + c.to - c.from, caps)
            ELSE <<>>
       [] items # <<>> /\ item.kind = "balance" ->
            IF here = item.from /\ balanced # {} THEN Ways(s, rest, Min(balanced) + 1, caps) ELSE <<>>
       [] items # <<>> /\ item.kind = "frontier" ->
            IF before \notin item.set /\ here \in item.set THEN Ways(s, rest, i, caps) ELSE <<>>
       [] items # <<>> /\ item.kind = "end" -> IF i = Len(s) + 1 THEN <<[at |-> i, caps |-> caps]>> ELSE <<>>

Captured(s, caps, i, e, whole) ==
  IF caps = <<>> /\ whole THEN <<String(s, i, e)>>
  ELSE [k \in DOMAIN caps |->
         CASE caps[k].to = 0 -> Error
           [] caps[k].to = -1 -> <<"number", caps[k].from>>
           [] OTHER -> String(s, caps[k].from, caps[k].to)]

(* The first way from the first place that has one.                        *)
Found(s, items, init, find) ==
  LET ways == [i \in init .. Len(s) + 1 |-> Ways(s, items, i, <<>>)]
      at == {i \in DOMAIN ways : ways[i] # <<>>}
      first == Head(ways[Min(at)])
  IN CASE at = {} -> <<Nil>>
       [] OTHER -> IF first.at = Thrown THEN <<Error>>
                   ELSE (IF find THEN <<<<"number", Min(at)>>, <<"number", first.at - 1>>>> ELSE <<>>)
                          \o Captured(s, first.caps, Min(at), first.at, ~find)
=============================================================================
