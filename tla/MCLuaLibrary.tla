---------------------------- MODULE MCLuaLibrary ----------------------------
(***************************************************************************)
(* The scanner on short texts, and the string and table libraries on small *)
(* arguments: in a run either is active.                                   *)
(***************************************************************************)
EXTENDS LuaLibrary

VARIABLES source, current, linenumber, lastline, t, lookahead, consumed
scanVars == <<source, current, linenumber, lastline, t, lookahead, consumed>>
Lexer == INSTANCE LuaLexer WITH MAX_INT <- 5

Over(C, n) == UNION {[1 .. m -> C] : m \in 0 .. n}
Texts(begin, C, n) == {begin \o s : s \in Over(C, n)}
Sources == UNION {
  Texts(<<>>, {"-", "[", "=", "]", "\n", "a"}, 4),
  Texts(<<"-", "-", "[">>, {"[", "=", "]", "\n"}, 5),
  Texts(<<"[", "[">>, {"[", "]", "\r", "\n"}, 5),
  Texts(<<"[", "=", "[">>, {"[", "]", "=", "\n"}, 5),
  Texts(<<"a">>, {"1", ".", "e", "+", " "}, 4),
  Texts(<<>>, {"1", "0", ".", "e", "+"}, 5),
  Texts(<<"0">>, {"x", "e", "1", ".", "_"}, 4),
  Texts(<<"\"">>, {"\"", "'", "\\", "\n", "\r", "n"}, 4),
  Texts(<<"'", "\\">>, {"'", "\\", "1", "6"}, 5),
  Texts(<<>>, {"<", "=", "~", ".", "a", " "}, 4),
  Texts(<<>>, {"i", "f", "1", "-", "\n"}, 4)}

A(rep) == One(<<"a">>, {"a"}, rep)
Dot(rep) == One(<<".">>, Range(Chars), rep)
B(rep) == One(<<"b">>, {"b"}, rep)
Second == {A(<<>>), A(<<"*">>), A(<<"-">>), Dot(<<>>), Dot(<<"*">>), Dot(<<"-">>), B(<<>>)}
Marks == {Open, Close, Position, Dot(<<"*">>), A(<<"-">>), B(<<>>), Back(1)}
NoEmpty(w) == \A n \in 1 .. Len(w) - 1 : ~(w[n] = Open /\ w[n + 1] = Close)
Repeats == {<<Open>> \o w \o <<Close, Back(1), End>> : w \in {<<Dot(<<"-">>)>>, <<A(<<"+">>)>>}}
Brackets == {c \in Classes : c[1][1] = "["}

Find(fn, s, items, init) ==
  [fn |-> fn, s |-> s, p |-> TextOf(items), items |-> items, init |-> init, plain |-> FALSE]
Searches ==
  \/ \E s \in Over({"a", "b", "1"}, 3) \union {<<"]", "-">>, <<"d", ".">>},
        i \in Singles(Classes, Repetitions) : call = Find("find", s, <<i>>, 1)
  \/ \E s \in Over({"a", "b", "1"}, 3), i \in Singles(Classes \ Brackets, Repetitions),
        j \in Second : call = Find("match", s, <<i, j>>, -2)
  \/ \E s \in Over({"a", "b"}, 3), w \in UNION {[1 .. n -> Marks] : n \in 1 .. 4} \union Repeats :
        NoEmpty(w) /\ call = Find("match", s, w, 1)
  \/ \E s \in Over({"a", "b"}, 3), c \in Brackets, r \in Repetitions :
        call = Find("find", s, <<Edge(c), Dot(r)>>, 2)
  \/ \E s \in Over({"a", "b"}, 5), w \in {<<Balance("a", "b"), End>>, <<Balance("a", "b"), Dot(<<"-">>)>>,
        <<Balance("a", "a")>>} : call = Find("match", s, w, 1)
  \/ \E s \in Over({"a", "b"}, 4), p \in Over({"a", "b"}, 3), init \in -2 .. 5 :
        call = [fn |-> "find", s |-> s, p |-> p, items |-> <<>>, init |-> init, plain |-> TRUE]

Replace(s, p, repl, max_s) == [fn |-> "gsub", s |-> s, p |-> p, repl |-> repl, max_s |-> max_s]
Char(c) == [kind |-> "char", c |-> c, text |-> <<c>>]
Escaped(c) == [kind |-> "char", c |-> c, text |-> <<"%", c>>]
Capture(n) == [kind |-> "capture", n |-> n, text |-> <<"%", ToString(n)>>]
Dangling == [kind |-> "end", text |-> <<"%">>]
Text(parts) == [type |-> "string", parts |-> parts, news |-> TextOf(parts)]
Entries(type, f) == [type |-> type, entries |-> f]
Values == {<<"nil">>, <<"false">>, <<"true">>, <<"number", 2>>, <<"string", <<"x", "x">>>>}
Letter(c) == <<"string", <<c>>>>
Replacements ==
  \/ \E s \in Over({"a", "b"}, 2), p \in Over({"%", "[", "]", "^", "a", "-", "(", ")"}, 4) :
        /\ p # <<>> => Head(p) # "^"
        /\ call = Replace(s, p, Text(<<Capture(0)>>), 4)
  \/ \E s \in Over({"a", "b"}, 2), p \in Over({"(", ")", "a", "."}, 4), m \in {1, 4},
        parts \in {<<Capture(1)>>, <<Char("x"), Capture(2)>>, <<Escaped("a"), Dangling>>} :
        call = Replace(s, p, Text(parts), m)
  \/ \E s \in Over({"a", "b"}, 3), i \in Singles(Classes \ Brackets, Repetitions), m \in 0 .. 4,
        parts \in {<<>>, <<Char("x")>>} : call = Replace(s, TextOf(<<i>>), Text(parts), m)
  \/ \E s \in Over({"a", "b"}, 3), w \in {<<A(<<>>)>>, <<Open, Dot(<<>>), Close>>, <<Position, A(<<"-">>)>>,
        <<Open, A(<<>>), Close, Open, Dot(<<>>), Close>>, <<Open, Dot(<<>>)>>}, m \in {1, 4} :
        \/ \E a, p \in Values :
             call = Replace(s, TextOf(w), Entries("table",
                            Letter("a") :> a @@ <<"number", 2>> :> p), m)
        \/ \E a, p \in Values \union {Error} :
             call = Replace(s, TextOf(w), Entries("function",
                            <<Letter("a")>> :> a @@ <<Letter("a"), Letter("b")>> :> p
                              @@ <<<<"number", 2>>>> :> p), m)

(* Every relation is tried, so the values may be named in their order.     *)
Sort(list, lt, nils) == [fn |-> "sort", list |-> list, order |-> [lt |-> lt, nils |-> nils]]
Orders ==
  \/ \E list \in {<<1>> \o s : s \in Over(1 .. 3, 3)}, lt \in SUBSET ((1 .. 3) \X (1 .. 3)) :
        call = Sort(list, lt, FALSE)
  \/ \E list \in Over(1 .. 2, 7), lt \in SUBSET ((1 .. 2) \X (1 .. 2)) : call = Sort(list, lt, FALSE)
  \/ \E list \in {<<1>> \o s : s \in Over(1 .. 2, 4)}, lt \in SUBSET ((0 .. 2) \X (0 .. 2)) :
        call = Sort(list, lt, TRUE)
Inserts ==
  \E list \in Over(1 .. 2, 3), pos \in 1 .. 5 :
     call = [fn |-> "insert", list |-> list, pos |-> pos, value |-> 3]

NoCall == call = [fn |-> "none"] /\ result = <<>>
Idle == Lexer!LexInit(<<>>) /\ NoCall
Init ==
  \/ (\E s \in Sources : Lexer!LexInit(s)) /\ NoCall
  \/ Lexer!LexInit(<<>>) /\ result = <<>> /\ (Searches \/ Replacements \/ Orders \/ Inserts)
Next ==
  \/ call.fn = "none" /\ Lexer!LexNext /\ UNCHANGED libVars
  \/ LibNext /\ UNCHANGED scanVars
-----------------------------------------------------------------------------
(* The scanner hands out the words of the text and counts its lines.       *)
TokensAreLongest == Lexer!TokensAreLongest /\ Lexer!LinesCounted
=============================================================================
