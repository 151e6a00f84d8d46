---------------------------- MODULE LuaPrograms ----------------------------
(***************************************************************************)
(* Families of programs for the compiler: trees of LuaMeaning.  A family   *)
(* varies one construct in every way its size allows and shows what came   *)
(* of it by what is returned and by the calls of "f".  No program depends  *)
(* on an order the reference manual leaves undefined.                      *)
(***************************************************************************)
EXTENDS Integers, Sequences

CONST(w) == <<w>>
N(n) == <<"number", n>>
S(s) == <<"string", s>>
V(x) == <<"name", x>>
At(t, k) == <<"index", t, k>>
CallOf(g, args) == <<"call", g, args>>
F(args) == CallOf(V("f"), args)
Split(g, args) == <<"split call", g, args>>   \* its arguments begin a line
Bin(op, x, y) == <<"binary", op, x, y>>
Un(op, x) == <<"unary", op, x>>
Paren(x) == <<"paren", x>>
Table(items) == <<"table", items>>
Item1(x) == <<"item", x>>
FieldOf(k, x) == <<"field", k, x>>
Lambda(params, vararg, stats) == <<"function", [params |-> params, vararg |-> vararg, body |-> stats]>>

Local(names, es) == <<"local", names, es>>
Set(targets, es) == <<"assign", targets, es>>
Do(e) == <<"call", e>>
Return(es) == <<"return", es>>
If(c, yes, no) == <<"if", c, yes, no>>
WhileDo(c, stats) == <<"while", c, stats>>
RepeatUntil(stats, c) == <<"repeat", stats, c>>
ForDo(x, es, stats) == <<"for", x, es, stats>>
ForInDo(xs, es, stats) == <<"for in", xs, es, stats>>
Break == <<"break">>

a == V("a")
b == V("b")
i == V("i")
t == V("t")
x == V("x")
Incr(v) == Set(<<v>>, <<Bin("+", v, N(1))>>)
-----------------------------------------------------------------------------
(* and, or, not and comparisons, as a value and as a condition.            *)
Atoms == {CONST("nil"), CONST("true"), CONST("false"), N(1), a, F(<<N(2)>>), Bin("<", b, N(3))}
Pairs(es, fs) == {Bin(op, e, g) : op \in {"and", "or"}, e \in es, g \in fs}
Nots(es) == {Un("not", e) : e \in es}
Few == {CONST("nil"), CONST("true"), a, F(<<N(2)>>), Bin("<", b, N(3))}
Logic1 == Atoms \union Nots(Atoms) \union Pairs(Atoms, Atoms)
Logic2 == Pairs(Pairs(Few, Few), Few) \union Pairs(Few, Pairs(Few, Few)) \union Nots(Pairs(Few, Few))

Values(e) ==
  {<<Return(<<e>>)>>, <<Return(<<b, e>>)>>, <<Local(<<"x">>, <<e>>), Return(<<x, a>>)>>,
   <<Set(<<a>>, <<e>>), Return(<<a, b>>)>>, <<Set(<<V("g")>>, <<e>>), Return(<<V("g")>>)>>,
   <<Do(F(<<N(1), e>>))>>, <<Return(<<Table(<<Item1(e)>>)>>)>>,
   <<Return(<<Bin("==", e, N(1))>>)>>, <<Return(<<At(Table(<<FieldOf(e, N(3))>>), b)>>)>>}
Tests(e) ==
  {<<If(e, <<Do(F(<<N(1)>>))>>, <<Do(F(<<N(2)>>))>>)>>,
   <<If(e, <<Do(F(<<N(1)>>))>>, <<If(b, <<Return(<<>>)>>, <<>>)>>), Return(<<a>>)>>,
   <<WhileDo(e, <<Do(F(<<N(1)>>)), Break>>), Return(<<b>>)>>,
   <<RepeatUntil(<<Incr(b), If(Bin(">", b, N(4)), <<Break>>, <<>>)>>, e), Return(<<b>>)>>}
WithLocals(program) == <<Local(<<"a", "b">>, <<CONST("nil"), N(2)>>)>> \o program
Conditions(es) == {WithLocals(program) : program \in UNION {Values(e) \union Tests(e) : e \in es}}
LogicPrograms == Conditions(Logic1)
  \union {WithLocals(program) : program \in UNION {
            {<<Return(<<e>>)>>, <<Set(<<a>>, <<e>>), Return(<<a, b>>)>>,
             <<If(e, <<Do(F(<<N(1)>>))>>, <<Do(F(<<N(2)>>))>>)>>} : e \in Logic2}}

(* A conjunction of constants, the first operand made by two operators.    *)
Constants == {CONST("nil"), CONST("true"), CONST("false"), N(1)}
DeepPrograms ==
  {<<Return(<<Bin("and", Bin(op2, Bin(op1, u, v), w), z)>>)>> :
     op1 \in {"and", "or"}, op2 \in {"and", "or"},
     u \in Constants, v \in Constants, w \in Constants, z \in Constants}
-----------------------------------------------------------------------------
(* Several targets, one of them possibly used in the index of another.     *)
Targets == {a, i, At(t, i), At(t, N(1)), At(t, S("x")), V("g")}
Exprs == {i, N(3), CONST("nil"), At(t, i), F(<<i, N(2)>>)}
Lists == {<<e>> : e \in Exprs} \union {<<e, g>> : e \in Exprs, g \in Exprs}
           \union {<<i, F(<<i>>), e>> : e \in Exprs}
Distinct ==
  {<<u, v>> \in Targets \X Targets : u # v /\ {u, v} # {At(t, i), At(t, N(1))}}
AssignPrograms ==
  {<<Local(<<"t", "i", "a">>, <<Table(<<Item1(N(5)), Item1(N(6))>>), N(1), N(2)>>),
     Set(p, es), Return(<<At(t, N(1)), At(t, N(2)), At(t, S("x")), i, a>>)>> :
   p \in Distinct \union {<<u, At(t, i), i>> : u \in {V("g"), a}},
   es \in Lists}
-----------------------------------------------------------------------------
(* Loops, whose bodies make closures over their locals and may be left.    *)
Closing(v) == Set(<<At(t, v)>>, <<Lambda(<<>>, "no", <<Incr(x), Return(<<x, v>>)>>)>>)
Plain(v) == Do(F(<<v, x>>))
Leave == If(Bin("==", x, N(2)), <<Break>>, <<>>)
Bodies(v) ==
  {<<Local(<<"x">>, <<v>>)>> \o do \o leave : do \in {<<Plain(v)>>, <<Closing(v)>>}, leave \in {<<>>, <<Leave>>}}
Loops ==
  {<<ForDo("i", es, stats)>> : stats \in Bodies(i),
     es \in {<<N(1), N(3)>>, <<N(3), N(1)>>, <<N(3), N(1), Un("-", N(1))>>, <<N(1), N(5), N(2)>>,
             <<N(1), S("a")>>, <<S("2"), b>>}}
  \union {<<ForInDo(<<"i">>, <<V("count"), N(2), N(0)>>, stats)>> : stats \in Bodies(i)}
  \union {<<ForInDo(<<"i", "j">>,
                    <<Lambda(<<"s", "c">>, "no",
                             <<If(Bin("<", V("c"), V("s")),
                                  <<Return(<<Bin("+", V("c"), N(1)), V("s")>>)>>, <<>>)>>), N(2), N(0)>>,
                    Append(stats, Do(F(<<V("j")>>))))>> : stats \in Bodies(i)}
  \union {<<WhileDo(Bin("<", b, N(4)), stats \o after)>> :
            stats \in {<<Local(<<"x">>, <<b>>), Incr(b), do>> : do \in {Plain(b), Closing(x)}},
            after \in {<<>>, <<Leave>>, <<Do(F(<<>>))>>}}
  \union {<<RepeatUntil(<<Local(<<"x">>, <<b>>), Incr(b), do>> \o leave, Bin("==", x, N(3)))>> :
            do \in {Plain(b), Closing(x)}, leave \in {<<>>, <<Leave>>}}
LoopPrograms ==
  {<<Local(<<"t", "b">>, <<Table(<<>>), N(1)>>)>> \o loop \o
     <<Return(<<b, Bin("and", At(t, N(1)), CallOf(At(t, N(1)), <<>>)),
                Bin("and", At(t, N(2)), CallOf(At(t, N(2)), <<>>)),
                Bin("and", At(t, N(1)), CallOf(At(t, N(1)), <<>>))>>)>> : loop \in Loops}
-----------------------------------------------------------------------------
(* Functions, their arguments and results, called in every way.            *)
Dots == CONST("...")
arg == V("arg")
Functions ==
  {Lambda(params, "no", stats) : params \in {<<>>, <<"a">>, <<"a", "b">>},
     stats \in {<<>>, <<Return(<<a, b>>)>>, <<Return(<<F(<<a>>)>>)>>, <<Return(<<Paren(F(<<a, b>>))>>)>>}}
  \union {Lambda(params, "dots", stats) : params \in {<<>>, <<"a">>},
     stats \in {<<Return(<<Dots>>)>>, <<Return(<<Dots, a>>)>>, <<Return(<<Paren(Dots)>>)>>,
                <<Local(<<"x", "b">>, <<Dots>>), Return(<<b, x, a>>)>>,
                <<Return(<<F(<<a, Dots>>)>>)>>, <<Set(<<a, V("g")>>, <<Dots>>), Return(<<a, V("g")>>)>>}}
  \union {Lambda(params, "arg", <<Return(<<At(arg, S("n")), At(arg, N(1)), a>>)>>) : params \in {<<>>, <<"a">>}}
Arguments1 == {<<>>, <<N(1)>>, <<N(1), CONST("nil"), N(3)>>, <<F(<<N(1), N(2)>>)>>}
g1(args) == CallOf(x, args)
FunctionPrograms ==
  {<<Local(<<"x">>, <<fn>>), use>> : fn \in Functions,
     use \in UNION {{Return(<<g1(args)>>), Return(<<g1(args), N(9)>>), Return(<<N(9), g1(args)>>),
                     Do(F(<<g1(args)>>)), Return(<<Table(<<Item1(g1(args))>>)>>)} : args \in Arguments1}}
  \union {<<Local(<<"x">>, <<fn>>), Local(<<"a", "b">>, <<g1(args)>>), Return(<<b, a>>)>> :
            fn \in Functions, args \in Arguments1}
-----------------------------------------------------------------------------
(* Table constructors: the last item may give a list of values.            *)
Entries == {Item1(N(7)), Item1(F(<<N(1), N(2)>>)), FieldOf(S("x"), N(8)), FieldOf(S("a"), F(<<>>))}
Constructors ==
  {<<>>} \union {<<e>> : e \in Entries}
    \union {<<e, g>> : e \in Entries, g \in {Item1(N(6)), Item1(F(<<N(1), N(2)>>)), FieldOf(N(9), i)}}
    \union {<<Item1(N(1)), Item1(N(2)), Item1(N(3)), e, g>> :
              e \in Entries, g \in {Item1(N(6)), Item1(F(<<N(1), N(2)>>)), FieldOf(N(9), i)}}
    \union {<<Item1(N(1)), Item1(N(2)), Item1(N(3)), Item1(i), Item1(N(5)), Item1(Paren(F(<<N(1), N(2)>>)))>>}
TablePrograms ==
  {<<Local(<<"i">>, <<N(4)>>), Local(<<"t">>, <<Table(c)>>),
     Return(<<Un("#", t), At(t, N(1)), At(t, N(2)), At(t, N(4)), At(t, N(5)), At(t, S("x")), At(t, S("a"))>>)>> :
   c \in Constructors}
-----------------------------------------------------------------------------
(* Arithmetic, concatenation and comparison, folded or not.                *)
Numbers == {N(0), N(2), b}
ArithPrograms ==
  {<<Local(<<"b">>, <<N(3)>>), Return(<<e, b>>)>> :
   e \in {Bin(p, u, Bin(q, v, w)) : p \in {"+", "-", "*", "/", "%"}, q \in {"+", "-", "*", "/", "%", "^"},
                                    u \in Numbers, v \in Numbers, w \in Numbers}
      \union {Bin(q, Bin(p, u, v), w) : p \in {"+", "-", "*", "/", "%", "^"}, q \in {"+", "-", "*", "/", "%"},
                                    u \in Numbers, v \in Numbers, w \in Numbers}
      \union {Bin("^", u, Un("-", v)) : u \in Numbers, v \in Numbers}
      \union {Un(op, Bin(p, u, v)) : op \in {"-", "not", "#"}, p \in {"^", "+"}, u \in Numbers, v \in Numbers}
      \union {Bin("^", u, Bin("^", v, w)) : u \in {N(2), b}, v \in {N(2)}, w \in {N(2), b}}
      \union {Bin("^", Bin("^", u, v), w) : u \in {N(2), b}, v \in {N(2)}, w \in {N(2), b}}}
Strings == {S("a"), S(""), b, x}
StringPrograms ==
  {<<Local(<<"b", "x">>, <<N(3), S("x")>>), Return(<<e>>)>> :
   e \in {Bin("..", u, Bin("..", v, w)) : u \in Strings, v \in Strings, w \in Strings \union {CONST("nil")}}
      \union {Bin("..", Bin("..", u, v), w) : u \in Strings, v \in Strings, w \in {S("a"), b}}
      \union {Bin(op, u, v) : op \in {"<", "<=", ">", ">=", "==", "~="}, u \in Strings \union {N(3)},
                              v \in Strings \union {N(3)}}
      \union {Bin("+", u, S("2")) : u \in Strings} \union {Un("#", u) : u \in Strings}
      \union {Un("-", u) : u \in {S("2"), S("a")}}}
-----------------------------------------------------------------------------
(* Methods, and functions nested three deep that share their variables.    *)
o == V("o")
self == V("self")
Count == Lambda(<<>>, "no", <<Incr(a), Return(<<a>>)>>)
OtherPrograms ==
  {<<Local(<<"o">>, <<Table(<<FieldOf(S("x"), N(1))>>)>>),
     <<"function", At(o, S("a")), [params |-> <<"self", "b">>, vararg |-> "no",
        body |-> <<Set(<<At(self, S("x"))>>, <<b>>), Return(<<self>>)>>]>>,
     Return(<<At(e, S("x")), At(o, S("x"))>>)>> :
     e \in {<<"method", o, "a", <<N(2)>>>>, <<"method", <<"method", o, "a", <<N(2)>>>>, "a", <<F(<<N(4)>>)>>>>,
            <<"method", o, "b", <<>>>>, CallOf(At(o, S("a")), <<o, S("n")>>)}}
  \union
  {<<Local(<<"a">>, <<N(1)>>),
     <<"local function", "x", [params |-> <<"b">>, vararg |-> "no",
        body |-> <<If(Bin("<", N(0), b), <<Return(<<e>>)>>, <<>>), Return(<<a>>)>>]>>,
     Local(<<"i", "t">>, <<Count, Count>>),
     Return(<<CallOf(i, <<>>), CallOf(t, <<>>), CallOf(x, <<N(2)>>)>>)>> :
     e \in {CallOf(x, <<Bin("-", b, N(1))>>), Bin("+", CallOf(x, <<Bin("-", b, N(1))>>), a),
            CallOf(Lambda(<<>>, "no", <<Set(<<a>>, <<Bin("*", b, a)>>), Return(<<a, b>>)>>), <<>>)}}
  \union
  {<<Local(<<"a", "b">>, <<N(1), N(2)>>),
     Return(<<CallOf(Lambda(<<>>, "no", <<Return(<<CallOf(Lambda(<<>>, "no", <<Incr(a), Return(<<a, b>>)>>), <<>>), e>>)>>),
                     <<>>)>>)>> : e \in {a, b}}
  \union
  {<<Local(<<"a">>, <<N(1)>>), <<"do", <<Local(<<"a", "b">>, <<a, a>>), Incr(a), e, Set(<<x>>, <<a>>)>>>>,
     Return(<<a, x, F(<<i>>)>>)>> : e \in {Do(F(<<S("x")>>)), Do(F(<<Table(<<>>)>>)), Set(<<i>>, <<Count>>),
                                        Do(CallOf(Count, <<>>)), <<"do", <<Local(<<"a">>, <<>>), Set(<<b>>, <<a>>)>>>>}}
-----------------------------------------------------------------------------
(* Programs at the limits of the compiler.                                 *)
RECURSIVE Nested(_), Chain(_)
Nested(n) == IF n = 0 THEN N(1) ELSE Paren(Nested(n - 1))
Chain(n) == IF n = 0 THEN N(1) ELSE Bin("+", F(<<N(1)>>), Chain(n - 1))
Ones(n) == [k \in 1 .. n |-> N(k)]
Letters == <<"a", "b", "c", "d", "e", "g", "h", "i", "j", "k">>
LimitPrograms ==
  {<<Return(<<Nested(n)>>)>> : n \in 7 .. 11}
    \union {<<Return(<<Chain(n)>>)>> : n \in {2, 4, 6}}
    \union {<<Do(F(Ones(n)))>> : n \in 9 .. 14}
    \union {<<Local(SubSeq(Letters, 1, n), Ones(n)), Return(<<a>>)>> : n \in 8 .. 10}
    \union {<<Local(SubSeq(Letters, 1, n), Ones(n)),
              Return(<<Lambda(<<>>, "no", <<Return(<<F([k \in 1 .. n |-> V(Letters[k])])>>)>>)>>)>> : n \in 1 .. 5}
    \union {<<Local(<<"a">>, <<N(1)>>), WhileDo(Bin("<", a, N(2)), <<Incr(a), Do(F(Ones(8))), Do(F(Ones(n)))>>), Return(<<a>>)>> :
              n \in 0 .. 5}

(* Calls whose arguments begin a line: the manual forbids them to begin    *)
(* with a parenthesis (2.5.8).  In a list item that is a name the line     *)
(* break before it goes unnoticed.                                         *)
SplitIn(e) == {<<Do(e)>>, <<Return(<<e>>)>>, <<Local(<<"a">>, <<e>>), Do(F(<<a>>))>>, <<Do(F(<<e, N(1)>>))>>}
InTable(e) == {<<Return(<<At(Table(<<e>>), N(1))>>)>>, <<Return(<<At(Table(<<Item1(N(1)), e>>), N(2))>>)>>}
SplitArgs == {<<>>, <<N(1)>>, <<N(1), F(<<N(2)>>)>>}
RefusedPrograms ==
  UNION {SplitIn(Split(g, args)) : g \in {V("f"), F(<<S("x")>>), At(V("f"), N(1))}, args \in SplitArgs}
    \union UNION {InTable(e) : e \in {FieldOf(N(1), Split(V("f"), <<N(2)>>)), Item1(Split(F(<<S("x")>>), <<N(3)>>)),
                                    Item1(Paren(Split(V("f"), <<>>))), Item1(Split(At(V("f"), N(1)), <<>>))}}
SplitPrograms ==
  RefusedPrograms
    \union UNION {SplitIn(Split(V("f"), <<e>>)) : e \in {S("x"), Table(<<Item1(N(1))>>)}}
    \union UNION {InTable(Item1(Split(V("f"), args))) : args \in SplitArgs}

AllPrograms ==
  LogicPrograms \union AssignPrograms \union LoopPrograms \union FunctionPrograms
    \union TablePrograms \union ArithPrograms \union StringPrograms \union OtherPrograms
    \union LimitPrograms \union SplitPrograms
=============================================================================
