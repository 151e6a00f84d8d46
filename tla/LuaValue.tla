------------------------------ MODULE LuaValue ------------------------------
(***************************************************************************)
(* Lua values and the primitive operations on them that the code generator *)
(* (constant folding), the virtual machine and the meaning of a program    *)
(* share (luaconf.h, lobject.c, lvm.c).  Numbers are integers: "/" rounds  *)
(* down and a division by zero or a negative power gives Inf.  A string is *)
(* the sequence of its pieces, a literal or a numeral each.                *)
(***************************************************************************)
EXTENDS Integers, Sequences, SequencesExt, TLC

NIL == <<"nil">>
Bool(b) == <<"boolean", b>>
Num(n) == <<"number", n>>
Str(pieces) == <<"string", pieces>>
TableRef(id) == <<"table", id>>
FunctionRef(id) == <<"function", id>>

ttype(v) == v[1]
l_isfalse(v) == v \in {NIL, Bool(FALSE)}
Inf == 1000

ArithOps == {"ADD", "SUB", "MUL", "DIV", "MOD", "POW"}
luai_num(op, a, b) ==
  CASE op = "ADD" -> a + b
    [] op = "SUB" -> a - b
    [] op = "MUL" -> a * b
    [] op = "DIV" -> IF b = 0 THEN Inf ELSE a \div b
    [] op = "MOD" -> IF b = 0 THEN Inf ELSE a - (a \div b) * b
    [] op = "POW" -> CASE b < 0 -> Inf [] b = 0 -> 1 [] b > 0 -> a ^ b

luaO_rawequalObj(v, w) == v = w

tostring(v) == IF ttype(v) = "number" THEN <<ToString(v[2])>> ELSE v[2]

(* Strings are compared piece by piece, in the order of the pieces' names. *)
Collation == <<"", "a", "b", "n", "x">>
l_strcmp(v, w) ==
  LET Key(s) == [i \in 1 .. Len(s) |-> SelectInSeq(Collation, LAMBDA p : p = s[i])]
      a == Key(v)
      b == Key(w)
      differ == {i \in 1 .. Min({Len(a), Len(b)}) : a[i] # b[i]}
  IN IF differ = {} THEN Len(a) - Len(b) ELSE a[Min(differ)] - b[Min(differ)]

Numerals == 0 .. 9
luaV_tonumber(v) ==
  IF ttype(v) = "string" /\ \E n \in Numerals : v[2] = <<ToString(n)>>
  THEN Num(CHOOSE n \in Numerals : v[2] = <<ToString(n)>>) ELSE v

Comparable(v, w) == ttype(v) = ttype(w) /\ ttype(v) \in {"number", "string"}
luaV_lessthan(v, w) == IF ttype(v) = "number" THEN v[2] < w[2] ELSE l_strcmp(v[2], w[2]) < 0
lessequal(v, w) == IF ttype(v) = "number" THEN v[2] <= w[2] ELSE l_strcmp(v[2], w[2]) <= 0

(* Tables: the keys with a value. *)
Get(h, key) == IF key \in DOMAIN h THEN h[key] ELSE NIL
(* Assigning nil removes the key: whether its node stays cannot be seen.   *)
Assigned(h, key, v) ==
  IF v = NIL THEN [k \in DOMAIN h \ {key} |-> h[k]] ELSE key :> v @@ h

(* The border of the tables of these programs, which have no holes.        *)
luaH_getn(h) == Max({0} \union {k[2] : k \in {q \in DOMAIN h : ttype(q) = "number"}})

CFunctions == <<"f", "count">>
(* What a logged value shows: which table or function it is does not.      *)
Shown(v) == IF ttype(v) \in {"table", "function"} THEN <<ttype(v)>> ELSE v

(* The C functions; `count' is called with a limit and the last value.     *)
CResults(c, args) ==
  CASE c = "f" -> args
    [] c = "count" -> IF args[2][2] < args[1][2] THEN <<Num(args[2][2] + 1)>> ELSE <<NIL>>
=============================================================================
