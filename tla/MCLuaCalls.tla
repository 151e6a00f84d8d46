----------------------------- MODULE MCLuaCalls -----------------------------
(* LuaCalls for TLC: a C stack of four calls and room for four frames,     *)
(* which overflow within a few steps.  The scripts are one of protected    *)
(* calls and closures, one of a coroutine with closures, two of two        *)
(* coroutines that resume each other, from nested functions or with        *)
(* errors, and one of a coroutine with a handler.                          *)
EXTENDS LuaCalls, TLC

CONSTANTS c1, c2

Script(captures, calls) == [captures |-> captures, calls |-> calls]

MCScripts ==
  {Script(1, {<<"L">>, <<"error">>, <<"pcall">>, <<"pcall", "L">>, <<"xpcall", "L", "H">>}),
   Script(1, {<<"L">>, <<"yield">>, <<"resume", c1>>, <<"wrap", c1>>}),
   Script(0, {<<"L">>, <<"yield">>, <<"resume", c1>>, <<"resume", c2>>}),
   Script(1, {<<"error">>, <<"yield">>} \union
             {<<f, co>> : f \in {"resume", "wrap"}, co \in {c1, c2}}),
   Script(0, {<<"yield">>, <<"pcall", "yield">>, <<"xpcall", "L", "H">>, <<"resume", c1>>})}
=============================================================================
