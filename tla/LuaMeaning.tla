----------------------------- MODULE LuaMeaning -----------------------------
(***************************************************************************)
(* What a Lua program means and how it is written: the abstract            *)
(* specification of the compiler and the virtual machine, from the Lua     *)
(* reference manual (src/lua-5.1.4/doc/manual.html, 2.4-2.6).  A program   *)
(* is a tree; it is evaluated directly, with a cell for each local         *)
(* variable, and written as the tokens the parser reads, with the          *)
(* parentheses that the precedences of the manual (2.5.6) call for and no  *)
(* others.                                                                 *)
(***************************************************************************)
EXTENDS LuaParser

(* State of an evaluation: the cells of local variables, tables, functions *)
(* made so far, calls noted by "f" and whether an error has ended it.      *)
NothingDone ==
  [cells |-> <<>>, log |-> <<>>, err |-> FALSE,
   heap |-> <<Str(<<"f">>) :> FunctionRef(1) @@ Str(<<"count">>) :> FunctionRef(2)>>,
   fns |-> [i \in DOMAIN CFunctions |-> [c |-> CFunctions[i]]]]

(* An environment: the cell of each visible local, the extra arguments.    *)
NoLocals == [vars |-> <<>>, dots |-> <<>>]

Val(s, v) == [s |-> s, v |-> <<v>>]
Err(s) == [s |-> [s EXCEPT !.err = TRUE], v |-> <<NIL>>]
First(v) == IF v = <<>> THEN NIL ELSE v[1]
Nth(v, i) == IF i <= Len(v) THEN v[i] ELSE NIL
Adjust(v, n) == [i \in 1 .. n |-> Nth(v, i)]

Bind(names, values, r, s) ==
  [r |-> [r EXCEPT !.vars = [i \in {names[j] : j \in DOMAIN names} |->
            Len(s.cells) + SelectLastInSeq(names, LAMBDA x : x = i)] @@ @],
   s |-> [s EXCEPT !.cells = @ \o Adjust(values, Len(names))]]

Index(t, k, s) == IF ttype(t) = "table" THEN Val(s, Get(s.heap[t[2]], k)) ELSE Err(s)
SetIndex(t, k, v, s) ==
  IF ttype(t) = "table" /\ k # NIL THEN [s EXCEPT !.heap[t[2]] = Assigned(@, k, v)]
  ELSE [s EXCEPT !.err = TRUE]

Binary(op, a, b, s) ==
  LET x == luaV_tonumber(a)
      y == luaV_tonumber(b)
      Ordered(c) == IF Comparable(a, b) THEN Val(s, Bool(c)) ELSE Err(s)
      Opcode == ("+" :> "ADD") @@ ("-" :> "SUB") @@ ("*" :> "MUL") @@ ("/" :> "DIV") @@ ("%" :> "MOD")
                  @@ ("^" :> "POW")
  IN CASE op = "==" -> Val(s, Bool(a = b))
       [] op = "~=" -> Val(s, Bool(a # b))
       [] op = "<" -> Ordered(luaV_lessthan(a, b))
       [] op = "<=" -> Ordered(lessequal(a, b))
       [] op = ">" -> Ordered(luaV_lessthan(b, a))
       [] op = ">=" -> Ordered(lessequal(b, a))
       [] op = ".." -> IF {ttype(a), ttype(b)} \subseteq {"number", "string"}
                       THEN Val(s, Str(tostring(a) \o tostring(b))) ELSE Err(s)
       [] OTHER -> IF ttype(x) = "number" /\ ttype(y) = "number"
                   THEN Val(s, Num(luai_num(Opcode[op], x[2], y[2]))) ELSE Err(s)

Unary(op, a, s) ==
  LET x == luaV_tonumber(a)
  IN CASE op = "not" -> Val(s, Bool(l_isfalse(a)))
       [] op = "-" -> IF ttype(x) = "number" THEN Val(s, Num(-x[2])) ELSE Err(s)
       [] op = "#" -> CASE ttype(a) = "table" -> Val(s, Num(luaH_getn(s.heap[a[2]])))
                        [] ttype(a) = "string" -> Val(s, Num(Len(a[2])))
                        [] OTHER -> Err(s)

RECURSIVE Eval(_, _, _), Run(_, _, _, _), While(_, _, _, _), Repeat(_, _, _, _),
          ForNum(_, _, _, _, _, _), ForIn(_, _, _, _, _, _)
One(e, r, s) == LET x == Eval(e, r, s) IN [s |-> x.s, v |-> First(x.v)]

(* A list of expressions: only the last one may give several values.       *)
EvalList(es, r, s) ==
  LET Next(x, i) == LET y == Eval(es[i], r, x.s)
                    IN [s |-> y.s, v |-> x.v \o IF i < Len(es) THEN <<First(y.v)>> ELSE y.v]
  IN FoldLeft(Next, [s |-> s, v |-> <<>>], [i \in 1 .. Len(es) |-> i])

Returned(x) == [s |-> x.s, v |-> IF x.sig = "return" THEN x.v ELSE <<>>]
Call(f, args, s) ==
  LET fn == s.fns[f[2]]
      extra == SubSeq(args, Len(fn.params) + 1, Len(args))
      n == Len(extra)
      arg == [k \in {Num(i) : i \in {j \in 1 .. n : extra[j] # NIL}} |-> extra[k[2]]]
                @@ Str(<<"n">>) :> Num(n)
      s1 == IF fn.vararg = "arg" THEN [s EXCEPT !.heap = Append(@, arg)] ELSE s
      names == IF fn.vararg = "arg" THEN Append(fn.params, "arg") ELSE fn.params
      values == Adjust(args, Len(fn.params)) \o <<TableRef(Len(s1.heap))>>
      b == Bind(names, values, [fn.env EXCEPT !.dots = extra], s1)
  IN IF s.err \/ ttype(f) # "function" THEN Err(s)
     ELSE IF "c" \in DOMAIN fn
     THEN [s |-> IF fn.c = "f" THEN [s EXCEPT !.log = Append(@, [i \in DOMAIN args |-> Shown(args[i])])]
                 ELSE s,
           v |-> CResults(fn.c, args)]
     ELSE Returned(Run(fn.body, 1, b.r, b.s))

NewFunction(fn, r, s) ==
  [s |-> [s EXCEPT !.fns = Append(@, [params |-> fn.params, vararg |-> fn.vararg, body |-> fn.body,
                                      env |-> r])],
   v |-> <<FunctionRef(Len(s.fns) + 1)>>]

(* The items of a constructor; the last may give a list of values.         *)
Items(items, r, s0) ==
  LET id == Len(s0.heap)
      OneItem(x, i) ==
        LET k == One(items[i][2], r, x.s)
            v == One(items[i][3], r, k.s)
            list == Eval(items[i][2], r, x.s)
            new == IF i < Len(items) THEN <<First(list.v)>> ELSE list.v
            StoreItem(s, j) == SetIndex(TableRef(id), Num(x.n + j), new[j], s)
        IN IF items[i][1] = "field"
           THEN [s |-> SetIndex(TableRef(id), k.v, v.v, v.s), n |-> x.n]
           ELSE [s |-> FoldLeft(StoreItem, list.s, [j \in 1 .. Len(new) |-> j]), n |-> x.n + Len(new)]
  IN FoldLeft(OneItem, [s |-> s0, n |-> 0], [i \in 1 .. Len(items) |-> i]).s

Eval(e, r, s) ==
  LET a == One(e[2], r, s)
      b == One(e[3], r, a.s)
      args == EvalList(e[3], r, a.s)
      method == Index(a.v, Str(<<e[3]>>), a.s)
      margs == EvalList(e[4], r, method.s)
      x == One(e[3], r, s)
      y == One(e[4], r, x.s)
      T == [s EXCEPT !.heap = Append(@, <<>>)]
  IN CASE s.err -> Err(s)
       [] e[1] = "nil" -> Val(s, NIL)
       [] e[1] \in {"true", "false"} -> Val(s, Bool(e[1] = "true"))
       [] e[1] = "number" -> Val(s, Num(e[2]))
       [] e[1] = "string" -> Val(s, Str(<<e[2]>>))
       [] e[1] = "..." -> [s |-> s, v |-> r.dots]
       [] e[1] = "name" -> IF e[2] \in DOMAIN r.vars THEN Val(s, s.cells[r.vars[e[2]]])
                           ELSE Index(TableRef(1), Str(<<e[2]>>), s)
       [] e[1] = "index" -> IF b.s.err THEN Err(b.s) ELSE Index(a.v, b.v, b.s)
       [] e[1] \in {"call", "split call"} -> Call(a.v, args.v, args.s)
       [] e[1] = "method" -> IF a.s.err \/ method.s.err THEN Err(method.s)
                             ELSE Call(First(method.v), <<a.v>> \o margs.v, margs.s)
       [] e[1] = "function" -> NewFunction(e[2], r, s)
       [] e[1] = "table" -> Val(Items(e[2], r, T), TableRef(Len(T.heap)))
       [] e[1] = "paren" -> Val(a.s, a.v)
       [] e[1] = "unary" -> IF x.s.err THEN Err(x.s) ELSE Unary(e[2], x.v, x.s)
       [] e[1] = "binary" /\ e[2] \in {"and", "or"} ->
            IF l_isfalse(x.v) = (e[2] = "and") THEN Val(x.s, x.v) ELSE Val(y.s, y.v)
       [] OTHER -> IF y.s.err THEN Err(y.s) ELSE Binary(e[2], x.v, y.v, y.s)
-----------------------------------------------------------------------------
(* Statements: sig is "", "break" or "return" with the values v.           *)
Went(r, s) == [r |-> r, s |-> s, sig |-> "", v |-> <<>>]
Body(stats, r, s) == [Run(stats, 1, r, s) EXCEPT !.r = r]

Store(target, v, r, s) ==
  CASE target.k = "cell" -> [s EXCEPT !.cells[target.at] = v]
    [] target.k = "index" -> SetIndex(target.t, target.i, v, s)

Target(e, r, s) ==
  LET t == One(e[2], r, s)
      i == One(e[3], r, t.s)
  IN IF e[1] = "index" THEN [s |-> i.s, at |-> [k |-> "index", t |-> t.v, i |-> i.v]]
     ELSE IF e[2] \in DOMAIN r.vars THEN [s |-> s, at |-> [k |-> "cell", at |-> r.vars[e[2]]]]
     ELSE [s |-> s, at |-> [k |-> "index", t |-> TableRef(1), i |-> Str(<<e[2]>>)]]

Assign(targets, es, r, s) ==
  LET n == Len(targets)
      NextOne(x, i) == LET t == Target(targets[i], r, x.s) IN [s |-> t.s, at |-> Append(x.at, t.at)]
      T == FoldLeft(NextOne, [s |-> s, at |-> <<>>], [i \in 1 .. n |-> i])
      x == EvalList(es, r, T.s)
      One_(st, i) == Store(T.at[i], Nth(x.v, i), r, st)
  IN IF x.s.err THEN x.s ELSE FoldLeft(One_, x.s, [i \in 1 .. n |-> n + 1 - i])

Loop(x, again) ==
  CASE x.s.err \/ x.sig = "return" -> x
    [] x.sig = "break" -> [x EXCEPT !.sig = ""]
    [] OTHER -> again

While(e, stats, r, s) ==
  LET c == One(e, r, s)
      x == Body(stats, r, c.s)
  IN IF c.s.err \/ l_isfalse(c.v) THEN Went(r, c.s) ELSE Loop(x, While(e, stats, r, x.s))

(* The condition sees the locals of the body.                              *)
Repeat(stats, e, r, s) ==
  LET x == Run(stats, 1, r, s)
      c == One(e, x.r, x.s)
  IN Loop([x EXCEPT !.r = r],
          IF c.s.err \/ ~l_isfalse(c.v) THEN Went(r, c.s) ELSE Repeat(stats, e, r, c.s))

ForNum(x, i, limit, step, fr, s) ==
  LET b == Bind(<<x>>, <<Num(i)>>, fr.r, s)
      turn == [Body(fr.body, b.r, b.s) EXCEPT !.r = fr.r]
  IN IF IF step > 0 THEN i <= limit ELSE limit <= i
     THEN Loop(turn, ForNum(x, i + step, limit, step, fr, turn.s)) ELSE Went(fr.r, s)

ForIn(names, f, state, control, fr, s) ==
  LET c == Call(f, <<state, control>>, s)
      b == Bind(names, c.v, fr.r, c.s)
      turn == [Body(fr.body, b.r, b.s) EXCEPT !.r = fr.r]
  IN IF c.s.err \/ First(c.v) = NIL THEN Went(fr.r, c.s)
     ELSE Loop(turn, ForIn(names, f, state, First(c.v), fr, turn.s))

Exec(st, r, s) ==
  LET list == EvalList(st[3], r, s)
      b == Bind(st[2], list.v, r, list.s)
      c == One(st[2], r, s)
      n == [i \in 1 .. 3 |-> luaV_tonumber(Nth(Append(list.v, Num(1)), i))]
      own == Bind(<<st[2]>>, <<NIL>>, r, s)
      fn == NewFunction(st[3], own.r, own.s)
      made == NewFunction(st[3], r, s)
      fr == [r |-> r, body |-> st[4]]
  IN CASE st[1] = "local" -> Went(b.r, b.s)
       [] st[1] = "assign" -> Went(r, Assign(st[2], st[3], r, s))
       [] st[1] = "call" -> Went(r, Eval(st[2], r, s).s)
       [] st[1] = "do" -> Body(st[2], r, s)
       [] st[1] = "while" -> While(st[2], st[3], r, s)
       [] st[1] = "repeat" -> Repeat(st[2], st[3], r, s)
       [] st[1] = "if" -> IF c.s.err THEN Went(r, c.s)
                          ELSE Body(IF l_isfalse(c.v) THEN st[4] ELSE st[3], r, c.s)
       [] st[1] = "for" -> IF list.s.err \/ \E i \in 1 .. 3 : ttype(n[i]) # "number"
                           THEN Went(r, [list.s EXCEPT !.err = TRUE])
                           ELSE ForNum(st[2], n[1][2], n[2][2], n[3][2], fr, list.s)
       [] st[1] = "for in" ->
            ForIn(st[2], Nth(list.v, 1), Nth(list.v, 2), Nth(list.v, 3), fr, list.s)
       [] st[1] = "local function" ->
            Went(own.r, [fn.s EXCEPT !.cells[own.r.vars[st[2]]] = fn.v[1]])
       [] st[1] = "function" -> Went(r, Store(Target(st[2], r, s).at, made.v[1], r, made.s))
       [] st[1] = "return" -> LET x == EvalList(st[2], r, s)
                              IN [r |-> r, s |-> x.s, sig |-> "return", v |-> x.v]
       [] st[1] = "break" -> [Went(r, s) EXCEPT !.sig = "break"]

Run(stats, i, r, s) ==
  LET x == Exec(stats[i], r, s)
  IN IF i > Len(stats) THEN Went(r, s)
     ELSE IF x.s.err \/ x.sig # "" THEN x ELSE Run(stats, i + 1, x.r, x.s)

(* What a program does: the calls of "f" and what it returns, or an error. *)
Meaning(program) ==
  LET x == Run(program, 1, NoLocals, NothingDone)
      values == IF x.sig = "return" THEN x.v ELSE <<>>
  IN [log |-> x.s.log, failed |-> x.s.err,
      results |-> IF x.s.err THEN <<>> ELSE [i \in DOMAIN values |-> Shown(values[i])]]
-----------------------------------------------------------------------------
(* A program as the tokens of its text.                                    *)

(* The manual's precedences, from low to high (2.5.6).                     *)
Level ==
  ("or" :> 1) @@ ("and" :> 2) @@ [op \in {"<", ">", "<=", ">=", "~=", "=="} |-> 3]
    @@ (".." :> 4) @@ [op \in {"+", "-"} |-> 5] @@ [op \in {"*", "/", "%"} |-> 6] @@ ("^" :> 8)
UnaryLevel == 7
RightAssociative == {"..", "^"}

LevelOf(e) ==
  CASE e[1] = "binary" -> Level[e[2]] [] e[1] = "unary" -> UnaryLevel [] OTHER -> 9

Words(ws) == [i \in DOMAIN ws |-> Token(ws[i])]
Enclosed(open, ts, close) == <<Token(open)>> \o ts \o <<Token(close)>>
List(parts) ==
  FoldLeft(LAMBDA ts, p : IF ts = <<>> THEN p ELSE ts \o <<Token(",")>> \o p, <<>>, parts)
Names(xs) == List([i \in DOMAIN xs |-> <<Name(xs[i])>>])

RECURSIVE Text(_), Block(_)
Texts(es) == List([i \in DOMAIN es |-> Text(es[i])])
Within(e, needs) == IF needs THEN Enclosed("(", Text(e), ")") ELSE Text(e)
Prefix(e) == Within(e, e[1] \notin {"name", "index", "call", "split call", "method", "paren"})

(* One string or table as the only argument is written without parentheses.*)
Args(es) ==
  IF Len(es) = 1 /\ es[1][1] \in {"string", "table"} THEN Text(es[1])
  ELSE Enclosed("(", Texts(es), ")")

InNewLine(ts) == [ts EXCEPT ![1].first = TRUE]

Function(fn, params) ==
  Enclosed("(", List([i \in DOMAIN params |-> <<Name(params[i])>>]
                       \o IF fn.vararg = "no" THEN <<>> ELSE <<Words(<<"...">>)>>), ")")
    \o Block(fn.body) \o Words(<<"end">>)

Item(i) ==
  CASE i[1] = "field" /\ i[2][1] = "string" ->
         <<Name(i[2][2]), Token("=")>> \o Text(i[3])
    [] i[1] = "field" /\ i[2][1] # "string" ->
         Enclosed("[", Text(i[2]), "]") \o Words(<<"=">>) \o Text(i[3])
    [] i[1] = "item" -> Text(i[2])

Text(e) ==
  CASE e[1] \in {"nil", "true", "false", "..."} -> Words(<<e[1]>>)
    [] e[1] = "number" -> <<Number(e[2])>>
    [] e[1] = "string" -> <<String(<<e[2]>>)>>
    [] e[1] = "name" -> <<Name(e[2])>>
    [] e[1] = "index" /\ e[3][1] = "string" -> Prefix(e[2]) \o <<Token("."), Name(e[3][2])>>
    [] e[1] = "index" /\ e[3][1] # "string" -> Prefix(e[2]) \o Enclosed("[", Text(e[3]), "]")
    [] e[1] = "call" -> Prefix(e[2]) \o Args(e[3])
    [] e[1] = "split call" -> Prefix(e[2]) \o InNewLine(Args(e[3]))
    [] e[1] = "method" -> Prefix(e[2]) \o <<Token(":"), Name(e[3])>> \o Args(e[4])
    [] e[1] = "function" -> Words(<<"function">>) \o Function(e[2], e[2].params)
    [] e[1] = "table" -> Enclosed("{", List([i \in DOMAIN e[2] |-> Item(e[2][i])]), "}")
    [] e[1] = "paren" -> Enclosed("(", Text(e[2]), ")")
    [] e[1] = "unary" -> Words(<<e[2]>>) \o Within(e[3], LevelOf(e[3]) < UnaryLevel)
    [] e[1] = "binary" ->
         LET here == Level[e[2]]
             left == LevelOf(e[3])
             right == LevelOf(e[4])
             rassoc == e[2] \in RightAssociative
         IN Within(e[3], left < here \/ (left = here /\ rassoc))
              \o Words(<<e[2]>>)
              \o Within(e[4], e[4][1] # "unary" /\ (right < here \/ (right = here /\ ~rassoc)))

(* A method is declared with its self parameter left out.                  *)
Declared(st) ==
  LET self == st[3].params # <<>> /\ st[3].params[1] = "self" /\ st[2][1] = "index"
  IN IF self THEN Prefix(st[2][2]) \o <<Token(":"), Name(st[2][3][2])>>
                    \o Function(st[3], Tail(st[3].params))
     ELSE Text(st[2]) \o Function(st[3], st[3].params)

RECURSIVE Else(_)
Else(rest) ==
  CASE rest = <<>> -> Words(<<"end">>)
    [] Len(rest) = 1 /\ rest[1][1] = "if" ->
         Words(<<"elseif">>) \o Text(rest[1][2]) \o Words(<<"then">>) \o Block(rest[1][3]) \o Else(rest[1][4])
    [] OTHER -> Words(<<"else">>) \o Block(rest) \o Words(<<"end">>)

Statement(st) ==
  CASE st[1] = "local" ->
         Words(<<"local">>) \o Names(st[2])
           \o IF st[3] = <<>> THEN <<>> ELSE Words(<<"=">>) \o Texts(st[3])
    [] st[1] = "assign" -> Texts(st[2]) \o Words(<<"=">>) \o Texts(st[3])
    [] st[1] = "call" -> Text(st[2]) \o Words(<<";">>)
    [] st[1] = "do" -> Enclosed("do", Block(st[2]), "end")
    [] st[1] = "while" -> Words(<<"while">>) \o Text(st[2]) \o Enclosed("do", Block(st[3]), "end")
    [] st[1] = "repeat" -> Enclosed("repeat", Block(st[2]), "until") \o Text(st[3])
    [] st[1] = "if" ->
         Words(<<"if">>) \o Text(st[2]) \o Words(<<"then">>) \o Block(st[3]) \o Else(st[4])
    [] st[1] = "for" -> <<Token("for"), Name(st[2]), Token("=")>> \o Texts(st[3])
                          \o Enclosed("do", Block(st[4]), "end")
    [] st[1] = "for in" -> Words(<<"for">>) \o Names(st[2]) \o Words(<<"in">>) \o Texts(st[3])
                             \o Enclosed("do", Block(st[4]), "end")
    [] st[1] = "local function" ->
         <<Token("local"), Token("function"), Name(st[2])>> \o Function(st[3], st[3].params)
    [] st[1] = "function" -> Words(<<"function">>) \o Declared(st)
    [] st[1] = "return" -> Words(<<"return">>) \o Texts(st[2])
    [] st[1] = "break" -> Words(<<"break">>)

Block(program) == FoldLeft(LAMBDA ts, st : ts \o Statement(st), <<>>, program)
=============================================================================
