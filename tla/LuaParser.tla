----------------------------- MODULE LuaParser -----------------------------
(***************************************************************************)
(* The recursive-descent parser of the Lua compiler (lparser.c).  The      *)
(* state S of the parser holds the tokens still to be read and the         *)
(* FuncStates of the functions being compiled, the innermost one last.     *)
(* An error keeps its message and drops the tokens that are left, so that  *)
(* every rule still active ends: luaY_parser then has no function.  Rules  *)
(* for expressions return [ls, e].                                         *)
(***************************************************************************)
EXTENDS LuaCode

CONSTANTS LUAI_MAXVARS, LUAI_MAXUPVALUES, LUAI_MAXCCALLS

(* A token, its value, and whether its line begins with it.                *)
Token(t) == [t |-> t, first |-> FALSE]
Name(x) == [t |-> "<name>", v |-> x, first |-> FALSE]
Number(n) == [t |-> "<number>", v |-> n, first |-> FALSE]
String(s) == [t |-> "<string>", v |-> s, first |-> FALSE]
EOS == Token("<eof>")

open_func ==
  [code |-> <<>>, k |-> <<>>, p |-> <<>>, upvalues |-> <<>>,
   jpc |-> NO_JUMP, lasttarget |-> -1, freereg |-> 0, nactvar |-> 0, actvar |-> <<>>,
   bl |-> <<>>, maxstacksize |-> 2, numparams |-> 0, is_vararg |-> {},
   error |-> "", failed |-> FALSE]

Fs(S) == Last(S.fs)
Tok(S) == Head(S.toks).t
Lookahead(S) == S.toks[2].t
(* When the token before it is consumed, linenumber is already its own.    *)
luaX_lookahead(S) == IF Len(S.toks) > 1 THEN [S EXCEPT !.toks[2].first = FALSE] ELSE S
luaX_next(S) == IF Len(S.toks) > 1 THEN [S EXCEPT !.toks = Tail(@)] ELSE S
luaX_syntaxerror(S, msg) ==
  [S EXCEPT !.error = IF @ = "" THEN msg ELSE @, !.toks = <<EOS>>]
check(S, c) == IF Tok(S) = c THEN S ELSE luaX_syntaxerror(S, c \o " expected")
checknext(S, c) == luaX_next(check(S, c))
testnext(S, c) == IF Tok(S) = c THEN luaX_next(S) ELSE S
check_condition(S, c, msg) == IF c THEN S ELSE luaX_syntaxerror(S, msg)
luaY_checklimit(S, v, l) == check_condition(S, v <= l, "too many")

(* The code generator's result put back, and the error it may have met.    *)
Put(S, F) ==
  LET S1 == [S EXCEPT !.fs[Len(S.fs)] = F]
  IN IF F.error = "" THEN S1 ELSE luaX_syntaxerror(S1, F.error)
On(S, r) == [ls |-> Put(S, r.fs), e |-> r.e]
Failed(S) == S.error # ""
Expr(S, e) == [ls |-> S, e |-> e]
-----------------------------------------------------------------------------
(* Local variables, upvalues and blocks.                                   *)
new_localvar(S, name, n) ==
  LET F == Fs(S)
      i == F.nactvar + n
  IN luaY_checklimit(Put(S, [F EXCEPT !.actvar = Append(SubSeq(@, 1, i), name)]),
                     i + 1, LUAI_MAXVARS)
NewLocals(S, names) ==
  FoldLeft(LAMBDA T, i : new_localvar(T, names[i], i - 1), S, [i \in 1 .. Len(names) |-> i])

adjustlocalvars(S, nvars) == Put(S, [Fs(S) EXCEPT !.nactvar = @ + nvars])

searchvar(F, n) == SelectLastInSubSeq(F.actvar, 1, F.nactvar, LAMBDA x : x = n) - 1

markupval(F, level) ==
  LET at == {b \in DOMAIN F.bl : F.bl[b].nactvar <= level}
  IN IF at = {} THEN F ELSE [F EXCEPT !.bl[Max(at)].upval = TRUE]

UpvalueIndex(F, v) == SelectInSeq(F.upvalues, LAMBDA u : u = [k |-> v.k, info |-> v.info])
indexupvalue(F, v) ==
  IF UpvalueIndex(F, v) > 0 THEN F
  ELSE [F EXCEPT !.upvalues = Append(@, [k |-> v.k, info |-> v.info]),
                 !.failed = @ \/ v.k \notin {"VLOCAL", "VUPVAL"}]

RECURSIVE singlevaraux(_, _, _, _)
singlevaraux(S, level, n, base) ==
  LET F == S.fs[level]
      v == searchvar(F, n)
      outer == singlevaraux(S, level - 1, n, FALSE)
      G == indexupvalue(outer.ls.fs[level], outer.e)
  IN IF level = 0 THEN Expr(S, init_exp("VGLOBAL", NO_REG))
     ELSE IF v >= 0
     THEN Expr([S EXCEPT !.fs[level] = IF base THEN F ELSE markupval(F, v)], init_exp("VLOCAL", v))
     ELSE IF outer.e.k = "VGLOBAL" THEN outer
     ELSE Expr(luaY_checklimit([outer.ls EXCEPT !.fs[level] = G], Len(G.upvalues), LUAI_MAXUPVALUES),
               init_exp("VUPVAL", UpvalueIndex(G, outer.e) - 1))

codestring(S, s) ==
  Expr(Put(S, addk(Fs(S), Str(s))), init_exp("VK", Constant(Fs(S), Str(s))))

str_checkname(S) == IF Tok(S) = "<name>" THEN Head(S.toks).v ELSE ""
checkname(S) == codestring(checknext(S, "<name>"), <<str_checkname(S)>>)

singlevar(S) ==
  LET n == str_checkname(S)
      var == singlevaraux(checknext(S, "<name>"), Len(S.fs), n, TRUE)
      global == codestring(var.ls, <<n>>)
  IN IF var.e.k = "VGLOBAL" THEN Expr(global.ls, [var.e EXCEPT !.info = global.e.info]) ELSE var

adjust_assign(S, nvars, nexps, e) ==
  LET F == Fs(S)
      extra == nvars - nexps
      more == Max({extra + 1, 0})
      Open == luaK_setreturns(F, e, more)
      Closed == IF e.k = "VVOID" THEN F ELSE luaK_exp2nextreg(F, e).fs
  IN Put(S, IF hasmultret(e.k)
            THEN IF more > 1 THEN luaK_reserveregs(Open, more - 1) ELSE Open
            ELSE IF extra > 0
            THEN luaK_nil(luaK_reserveregs(Closed, extra), Closed.freereg, extra)
            ELSE Closed)

enterlevel(S) == luaY_checklimit([S EXCEPT !.level = @ + 1], S.level + 1, LUAI_MAXCCALLS)
leavelevel(S) == [S EXCEPT !.level = @ - 1]

enterblock(F, isbreakable) ==
  lua_assert([F EXCEPT !.bl = Append(@, [breaklist |-> NO_JUMP, isbreakable |-> isbreakable,
                                         nactvar |-> F.nactvar, upval |-> FALSE])],
             F.freereg = F.nactvar)

leaveblock(F) ==
  LET bl == Last(F.bl)
      G == [F EXCEPT !.bl = Front(@), !.nactvar = bl.nactvar]
      H == IF bl.upval THEN luaK_code(G, "CLOSE", bl.nactvar, 0, 0) ELSE G
  IN luaK_patchtohere([lua_assert(H, ~bl.isbreakable \/ ~bl.upval) EXCEPT !.freereg = bl.nactvar],
                      bl.breaklist)
-----------------------------------------------------------------------------
(* Functions.                                                              *)
Proto(F) ==
  [code |-> F.code, k |-> F.k, p |-> F.p, nups |-> Len(F.upvalues),
   maxstacksize |-> F.maxstacksize, numparams |-> F.numparams, is_vararg |-> F.is_vararg]

(* The function that is left: what failed in it stays known.                *)
close_func(S) ==
  LET F == luaK_ret([Fs(S) EXCEPT !.nactvar = 0], 0, 0)
  IN [S EXCEPT !.fs = Front(@), !.closed = F,
               !.failed = @ \/ F.failed \/ F.bl # <<>>]

pushclosure(S, func) ==
  LET F == Fs(S)
      G == luaK_code([F EXCEPT !.p = Append(@, Proto(func))], "CLOSURE", 0, Len(F.p), 0)
      Capture(H, u) ==
        luaK_code(H, IF u.k = "VLOCAL" THEN "MOVE" ELSE "GETUPVAL", 0, u.info, 0)
  IN Expr(Put(S, FoldLeft(Capture, G, func.upvalues)), init_exp("VRELOCABLE", Pc(F)))

RECURSIVE Parameters(_, _)
Parameters(S, n) ==
  LET dots == new_localvar(luaX_next(S), "arg", n)
      named == new_localvar(luaX_next(S), str_checkname(S), n)
  IN CASE Tok(S) = "..." ->
            [ls |-> Put(dots, [Fs(dots) EXCEPT !.is_vararg = {"HASARG", "NEEDSARG", "ISVARARG"}]),
             n |-> n + 1]
       [] Tok(S) = "<name>" ->
            IF Tok(named) = "," THEN Parameters(luaX_next(named), n + 1)
            ELSE [ls |-> named, n |-> n + 1]
       [] OTHER -> [ls |-> luaX_syntaxerror(S, "<name> or '...' expected"), n |-> n]

parlist(S) ==
  LET r == IF Tok(S) = ")" THEN [ls |-> S, n |-> 0] ELSE Parameters(S, 0)
      F == Fs(adjustlocalvars(r.ls, r.n))
      arg == IF "HASARG" \in F.is_vararg THEN 1 ELSE 0
  IN Put(r.ls, luaK_reserveregs([F EXCEPT !.numparams = F.nactvar - arg], F.nactvar))
-----------------------------------------------------------------------------
(* Expressions.                                                            *)
RECURSIVE subexpr(_, _), chunk(_), primaryexp(_), ListItems(_, _, _), Suffixed(_, _), Operators(_, _, _)
expr(S) == subexpr(S, 0)

body(S, needself) ==
  LET opened == checknext([S EXCEPT !.fs = Append(@, open_func)], "(")
      self == IF needself THEN adjustlocalvars(new_localvar(opened, "self", 0), 1) ELSE opened
      closed == close_func(checknext(chunk(checknext(parlist(self), ")")), "end"))
  IN IF Failed(closed) THEN Expr(closed, init_exp("VVOID", 0)) ELSE pushclosure(closed, closed.closed)

field(S, v) ==
  LET any == On(S, luaK_exp2anyreg(Fs(S), v))
      key == checkname(luaX_next(any.ls))
  IN On(key.ls, luaK_indexed(Fs(key.ls), any.e, key.e))

yindex(S) ==
  LET v == expr(luaX_next(S))
      val == On(v.ls, luaK_exp2val(Fs(v.ls), v.e))
  IN Expr(checknext(val.ls, "]"), val.e)

(* A table constructor: cc has the register t of the table, the last item  *)
(* v read, the counts of items and how many are still to be stored.        *)
recfield(S, cc) ==
  LET key == IF Tok(S) = "<name>" THEN checkname(S) ELSE yindex(S)
      after == checknext(key.ls, "=")
      rk == luaK_exp2RK(Fs(after), key.e)
      val == expr(Put(after, rk.fs))
      rv == luaK_exp2RK(Fs(val.ls), val.e)
      F == luaK_code(rv.fs, "SETTABLE", cc.t, RK(rk.e), RK(rv.e))
  IN [ls |-> Put(val.ls, [F EXCEPT !.freereg = Fs(S).freereg]), cc |-> [cc EXCEPT !.nh = @ + 1]]

listfield(S, cc) ==
  LET item == expr(S)
  IN [ls |-> item.ls, cc |-> [cc EXCEPT !.v = item.e, !.na = @ + 1, !.tostore = @ + 1]]

closelistfield(S, cc) ==
  LET F == luaK_exp2nextreg(Fs(S), cc.v).fs
      full == cc.tostore = LFIELDS_PER_FLUSH
  IN IF cc.v.k = "VVOID" THEN [ls |-> S, cc |-> cc]
     ELSE [ls |-> Put(S, IF full THEN luaK_setlist(F, cc.t, cc.na, cc.tostore) ELSE F),
           cc |-> [cc EXCEPT !.v.k = "VVOID", !.tostore = IF full THEN 0 ELSE @]]

lastlistfield(F, cc) ==
  CASE cc.tostore = 0 -> F
    [] cc.tostore > 0 /\ hasmultret(cc.v.k) ->
         luaK_setlist(luaK_setreturns(F, cc.v, LUA_MULTRET), cc.t, cc.na, LUA_MULTRET)
    [] OTHER ->
         luaK_setlist(IF cc.v.k = "VVOID" THEN F ELSE luaK_exp2nextreg(F, cc.v).fs,
                      cc.t, cc.na, cc.tostore)

ItemsFrom(S, cc) ==
  LET c == closelistfield(S, cc)
      T == IF Tok(S) = "<name>" THEN luaX_lookahead(c.ls) ELSE c.ls
      r == IF Tok(S) = "[" \/ (Tok(S) = "<name>" /\ Lookahead(S) = "=")
           THEN recfield(T, c.cc) ELSE listfield(T, c.cc)
  IN IF Tok(S) = "}" THEN [ls |-> S, cc |-> cc]
     ELSE IF Tok(r.ls) \in {",", ";"} THEN ListItems(luaX_next(r.ls), r.cc, TRUE)
     ELSE r

ListItems(S, cc, start) ==
  ItemsFrom(Put(S, lua_assert(Fs(S), start /\ (cc.v.k = "VVOID" \/ cc.tostore > 0))), cc)

constructor(S) ==
  LET pc == Pc(Fs(S))
      t == On(S, luaK_exp2nextreg(luaK_code(Fs(S), "NEWTABLE", 0, 0, 0), init_exp("VRELOCABLE", pc)))
      cc == [t |-> t.e.info, v |-> init_exp("VVOID", 0), na |-> 0, nh |-> 0, tostore |-> 0]
      r == ListItems(checknext(t.ls, "{"), cc, TRUE)
      end == checknext(r.ls, "}")
      F == lastlistfield(Fs(end), r.cc)
      na == IF hasmultret(r.cc.v.k) /\ r.cc.tostore > 0 THEN r.cc.na - 1 ELSE r.cc.na
  IN Expr(Put(end, SetArg(SetArg(F, pc, "B", na), pc, "C", r.cc.nh)), t.e)

(* explist1 and the number of expressions it has read.                     *)
RECURSIVE MoreExprs(_, _)
MoreExprs(r, n) ==
  IF Tok(r.ls) # "," THEN [ls |-> r.ls, e |-> r.e, n |-> n]
  ELSE MoreExprs(expr(Put(luaX_next(r.ls), luaK_exp2nextreg(Fs(r.ls), r.e).fs)), n + 1)
explist1(S) == MoreExprs(expr(S), 1)

(* A ( in a new line might begin a statement as well.                      *)
Arguments(S) ==
  LET inner == luaX_next(S)
      list == explist1(inner)
      none == Expr(inner, init_exp("VVOID", 0))
      args == IF Tok(inner) = ")" THEN none
              ELSE Expr(Put(list.ls, luaK_setreturns(Fs(list.ls), list.e, LUA_MULTRET)), list.e)
      string == codestring(S, Head(S.toks).v)
  IN CASE Tok(S) = "(" ->
            IF Head(S.toks).first THEN Expr(luaX_syntaxerror(S, "ambiguous syntax"), none.e)
            ELSE Expr(checknext(args.ls, ")"), args.e)
       [] Tok(S) = "{" -> constructor(S)
       [] Tok(S) = "<string>" -> Expr(luaX_next(string.ls), string.e)
       [] OTHER -> Expr(luaX_syntaxerror(S, "function arguments expected"), init_exp("VVOID", 0))

funcargs(S, f) ==
  LET args == Arguments(S)
      base == f.info
      F == lua_assert(Fs(args.ls), f.k = "VNONRELOC")
      G == IF args.e.k = "VVOID" \/ hasmultret(args.e.k) THEN F ELSE luaK_exp2nextreg(F, args.e).fs
      nparams == IF hasmultret(args.e.k) THEN LUA_MULTRET ELSE G.freereg - (base + 1)
  IN IF Failed(args.ls) THEN args
     ELSE Expr(Put(args.ls, [luaK_code(G, "CALL", base, nparams + 1, 2) EXCEPT !.freereg = base + 1]),
               init_exp("VCALL", Pc(G)))

prefixexp(S) ==
  LET inner == expr(luaX_next(S))
      closed == checknext(inner.ls, ")")
  IN CASE Tok(S) = "(" -> IF Failed(closed) THEN Expr(closed, inner.e)
                          ELSE On(closed, luaK_dischargevars(Fs(closed), inner.e))
       [] Tok(S) = "<name>" -> singlevar(S)
       [] OTHER -> Expr(luaX_syntaxerror(S, "unexpected symbol"), init_exp("VVOID", 0))

Suffixed(S, v) ==
  LET any == On(S, luaK_exp2anyreg(Fs(S), v))
      key == yindex(any.ls)
      indexed == On(key.ls, luaK_indexed(Fs(key.ls), any.e, key.e))
      method == checkname(luaX_next(S))
      self == On(method.ls, luaK_self(Fs(method.ls), v, method.e))
      next == On(S, luaK_exp2nextreg(Fs(S), v))
      More(r) == Suffixed(r.ls, r.e)
  IN CASE Tok(S) = "." -> More(field(S, v))
       [] Tok(S) = "[" -> More(indexed)
       [] Tok(S) = ":" -> More(funcargs(self.ls, self.e))
       [] Tok(S) \in {"(", "<string>", "{"} -> More(funcargs(next.ls, next.e))
       [] OTHER -> Expr(S, v)

primaryexp(S) == LET v == prefixexp(S) IN Suffixed(v.ls, v.e)

simpleexp(S) ==
  LET F == Fs(S)
      word == Tok(S)
      Constants == ("nil" :> "VNIL") @@ ("true" :> "VTRUE") @@ ("false" :> "VFALSE")
      string == codestring(S, Head(S.toks).v)
      dots == check_condition(S, F.is_vararg # {}, "cannot use '...' outside a vararg function")
      Vararg == luaK_code([F EXCEPT !.is_vararg = @ \ {"NEEDSARG"}], "VARARG", 0, 1, 0)
  IN CASE word = "<number>" ->
            Expr(luaX_next(S), [init_exp("VKNUM", 0) EXCEPT !.nval = Head(S.toks).v])
       [] word = "<string>" -> Expr(luaX_next(string.ls), string.e)
       [] word \in DOMAIN Constants -> Expr(luaX_next(S), init_exp(Constants[word], 0))
       [] word = "..." -> Expr(luaX_next(Put(dots, Vararg)), init_exp("VVARARG", Pc(F)))
       [] word = "{" -> constructor(S)
       [] word = "function" -> body(luaX_next(S), FALSE)
       [] OTHER -> primaryexp(S)

Priority ==
  [op \in {"+", "-"} |-> <<6, 6>>] @@ [op \in {"*", "/", "%"} |-> <<7, 7>>]
    @@ ("^" :> <<10, 9>>) @@ (".." :> <<5, 4>>)
    @@ [op \in {"~=", "==", "<", "<=", ">", ">="} |-> <<3, 3>>]
    @@ ("and" :> <<2, 2>>) @@ ("or" :> <<1, 1>>)
UNARY_PRIORITY == 8

(* The operators after operand v that bind tighter than `limit'.           *)
Operators(S, v, limit) ==
  LET op == Tok(S)
      left == On(luaX_next(S), luaK_infix(Fs(S), op, v))
      right == subexpr(left.ls, Priority[op][2])
      whole == On(right.ls, luaK_posfix(Fs(right.ls), op, left.e, right.e))
  IN IF op \notin DOMAIN Priority \/ Priority[op][1] <= limit THEN Expr(S, v)
     ELSE IF Failed(right.ls) THEN right ELSE Operators(whole.ls, whole.e, limit)

subexpr(S, limit) ==
  LET S1 == enterlevel(S)
      uop == Tok(S1)
      operand == subexpr(luaX_next(S1), UNARY_PRIORITY)
      v == IF uop \notin {"not", "-", "#"} THEN simpleexp(S1)
           ELSE IF Failed(operand.ls) THEN operand
           ELSE On(operand.ls, luaK_prefix(Fs(operand.ls), uop, operand.e))
      r == IF Failed(v.ls) THEN v ELSE Operators(v.ls, v.e, limit)
  IN Expr(leavelevel(r.ls), r.e)
-----------------------------------------------------------------------------
(* Statements.                                                             *)
block_follow(t) == t \in {"else", "elseif", "end", "until", "<eof>"}

block(S) ==
  LET inner == chunk(Put(S, enterblock(Fs(S), FALSE)))
      F == lua_assert(Fs(inner), Last(Fs(inner).bl).breaklist = NO_JUMP)
  IN Put(inner, leaveblock(F))

(* Mutant: the earlier targets keep using the local itself.                *)
check_conflictIgnored(S, lhs, v) == [ls |-> S, lhs |-> lhs]

(* A local v assigned after it was used in the index of an earlier target: *)
(* these then use a copy.                                                  *)
check_conflict(S, lhs, v) ==
  LET F == Fs(S)
      extra == F.freereg
      Safe(l) == IF l.k # "VINDEXED" THEN l
                 ELSE [l EXCEPT !.info = IF @ = v.info THEN extra ELSE @,
                                !.aux = IF @ = v.info THEN extra ELSE @]
      safe == [i \in DOMAIN lhs |-> Safe(lhs[i])]
      G == luaK_reserveregs(luaK_code(F, "MOVE", extra, v.info, 0), 1)
  IN [ls |-> IF safe # lhs THEN Put(S, G) ELSE S, lhs |-> safe]

(* The values, the last target first; only the last expression of a full   *)
(* list can go straight to its target.                                     *)
Stores(S, lhs) ==
  LET nvars == Len(lhs)
      r == explist1(S)
      Default(F, var) == luaK_storevar(F, var, init_exp("VNONRELOC", F.freereg - 1))
      A == adjust_assign(r.ls, nvars, r.n, r.e)
      Adjusted == [Fs(A) EXCEPT !.freereg = @ - Max({r.n - nvars, 0})]
      one == luaK_setoneret(Fs(r.ls), r.e)
      Direct == luaK_storevar(one.fs, Last(lhs), one.e)
  IN IF Failed(r.ls) THEN r.ls
     ELSE IF r.n # nvars THEN Put(A, FoldLeft(Default, Adjusted, Reverse(lhs)))
     ELSE Put(r.ls, FoldLeft(Default, Direct, Tail(Reverse(lhs))))

RECURSIVE assignment(_, _)
assignment(S, lhs) ==
  LET nv == primaryexp(luaX_next(S))
      c == IF nv.e.k = "VLOCAL" THEN check_conflict(nv.ls, lhs, nv.e)
           ELSE [ls |-> nv.ls, lhs |-> lhs]
  IN IF Last(lhs).k \notin {"VLOCAL", "VUPVAL", "VGLOBAL", "VINDEXED"}
     THEN luaX_syntaxerror(S, "syntax error")
     ELSE IF Tok(S) = ","
     THEN assignment(luaY_checklimit(c.ls, Len(lhs), LUAI_MAXCCALLS - c.ls.level),
                     Append(c.lhs, nv.e))
     ELSE Stores(checknext(S, "="), lhs)

cond(S) ==
  LET r == expr(S)
      v == [r.e EXCEPT !.k = IF @ = "VNIL" THEN "VFALSE" ELSE @]
      g == On(r.ls, luaK_goiftrue(Fs(r.ls), v))
  IN IF Failed(r.ls) THEN [ls |-> r.ls, exit |-> NO_JUMP] ELSE [ls |-> g.ls, exit |-> g.e.f]

breakstat(S) ==
  LET F == Fs(S)
      loops == {b \in DOMAIN F.bl : F.bl[b].isbreakable}
      b == Max(loops)
      upval == \E i \in b + 1 .. Len(F.bl) : F.bl[i].upval
      G == IF upval THEN luaK_code(F, "CLOSE", F.bl[b].nactvar, 0, 0) ELSE F
      H == luaK_concat(luaK_jump(G), G.bl[b].breaklist, Pc(G))
  IN IF loops = {} THEN luaX_syntaxerror(S, "no loop to break")
     ELSE Put(S, [H EXCEPT !.bl[b].breaklist = Joined(@, Pc(G))])

JumpBack(F, target) == luaK_patchlist(luaK_jump(F), Pc(F), target)

whilestat(S) ==
  LET c == cond(Put(luaX_next(S), luaK_getlabel(Fs(S))))
      B == block(checknext(Put(c.ls, enterblock(Fs(c.ls), TRUE)), "do"))
      E == checknext(Put(B, JumpBack(Fs(B), Pc(Fs(S)))), "end")
  IN Put(E, luaK_patchtohere(leaveblock(Fs(E)), c.exit))

repeatstat(S) ==
  LET start == Pc(Fs(S))
      B == Put(luaX_next(S), enterblock(enterblock(luaK_getlabel(Fs(S)), TRUE), FALSE))
      c == cond(checknext(chunk(B), "until"))
      F == Fs(c.ls)
      Plain == luaK_patchlist(leaveblock(F), c.exit, start)
      stop == breakstat(c.ls)
      Again == JumpBack(leaveblock(luaK_patchtohere(Fs(stop), c.exit)), start)
  IN IF Last(F.bl).upval THEN Put(stop, leaveblock(Again)) ELSE Put(c.ls, leaveblock(Plain))

exp1(S) == LET r == expr(S) IN Put(r.ls, luaK_exp2nextreg(Fs(r.ls), r.e).fs)

forbody(S, base, nvars, isnum) ==
  LET D == checknext(adjustlocalvars(S, 3), "do")
      prep == Pc(Fs(D))
      F == IF isnum THEN luaK_code(Fs(D), "FORPREP", base, NO_JUMP, 0) ELSE luaK_jump(Fs(D))
      V == adjustlocalvars(Put(D, enterblock(F, FALSE)), nvars)
      B == block(Put(V, luaK_reserveregs(Fs(V), nvars)))
      G == luaK_patchtohere(leaveblock(Fs(B)), prep)
      Numeric == luaK_patchlist(luaK_code(G, "FORLOOP", base, NO_JUMP, 0), Pc(G), prep + 1)
      List == JumpBack(luaK_code(G, "TFORLOOP", base, 0, nvars), prep + 1)
  IN Put(B, IF isnum THEN Numeric ELSE List)

fornum(S, varname) ==
  LET base == Fs(S).freereg
      vars == NewLocals(S, <<"(for index)", "(for limit)", "(for step)", varname>>)
      limit == exp1(checknext(exp1(checknext(vars, "=")), ","))
      F == Fs(limit)
      Step == luaK_reserveregs(luaK_code(addk(F, Num(1)), "LOADK", F.freereg, Constant(F, Num(1)), 0), 1)
  IN forbody(IF Tok(limit) = "," THEN exp1(luaX_next(limit)) ELSE Put(limit, Step), base, 1, TRUE)

RECURSIVE MoreNames(_, _)
MoreNames(S, n) ==
  IF Tok(S) # "," THEN [ls |-> S, n |-> n]
  ELSE LET T == luaX_next(S)
       IN MoreNames(new_localvar(checknext(T, "<name>"), str_checkname(T), n), n + 1)

forlist(S, indexname) ==
  LET base == Fs(S).freereg
      vars == MoreNames(NewLocals(S, <<"(for generator)", "(for state)", "(for control)", indexname>>), 4)
      list == explist1(checknext(vars.ls, "in"))
      A == adjust_assign(list.ls, 3, list.n, list.e)
  IN forbody(Put(A, luaK_checkstack(Fs(A), 3)), base, vars.n - 3, FALSE)

forstat(S) ==
  LET N == luaX_next(Put(S, enterblock(Fs(S), TRUE)))
      varname == str_checkname(N)
      T == checknext(N, "<name>")
      B == CASE Tok(T) = "=" -> fornum(T, varname)
             [] Tok(T) \in {",", "in"} -> forlist(T, varname)
             [] OTHER -> luaX_syntaxerror(T, "'=' or 'in' expected")
      E == checknext(B, "end")
  IN Put(E, leaveblock(Fs(E)))

test_then_block(S) ==
  LET c == cond(luaX_next(S)) IN [ls |-> block(checknext(c.ls, "then")), exit |-> c.exit]

(* What follows a then-block: flist has the jumps of its false condition,  *)
(* escapelist those of the blocks already executed.                        *)
RECURSIVE IfTail(_, _, _)
IfTail(S, flist, escapelist) ==
  LET F == Fs(S)
      J == luaK_patchtohere(luaK_concat(luaK_jump(F), escapelist, Pc(F)), flist)
      escapes == Joined(escapelist, Pc(F))
      next == test_then_block(Put(S, J))
      else == block(luaX_next(Put(S, J)))
  IN CASE Tok(S) = "elseif" -> IfTail(next.ls, next.exit, escapes)
       [] Tok(S) = "else" -> Put(else, luaK_patchtohere(Fs(else), escapes))
       [] OTHER -> Put(S, luaK_patchtohere(luaK_concat(F, escapelist, flist), Joined(escapelist, flist)))

ifstat(S) ==
  LET t == test_then_block(S) IN checknext(IfTail(t.ls, t.exit, NO_JUMP), "end")

localfunc(S) ==
  LET N == new_localvar(checknext(S, "<name>"), str_checkname(S), 0)
      v == init_exp("VLOCAL", Fs(N).freereg)
      b == body(adjustlocalvars(Put(N, luaK_reserveregs(Fs(N), 1)), 1), FALSE)
  IN Put(b.ls, luaK_storevar(Fs(b.ls), v, b.e))

localstat(S) ==
  LET names == MoreNames(new_localvar(checknext(S, "<name>"), str_checkname(S), 0), 1)
      r == IF Tok(names.ls) = "=" THEN explist1(luaX_next(names.ls))
           ELSE [ls |-> names.ls, e |-> init_exp("VVOID", 0), n |-> 0]
  IN IF Failed(r.ls) THEN r.ls ELSE adjustlocalvars(adjust_assign(r.ls, names.n, r.n, r.e), names.n)

RECURSIVE Fields(_, _)
Fields(S, v) ==
  LET r == field(S, v) IN IF Tok(S) = "." THEN Fields(r.ls, r.e) ELSE Expr(S, v)

funcstat(S) ==
  LET first == singlevar(luaX_next(S))
      name == Fields(first.ls, first.e)
      needself == Tok(name.ls) = ":"
      v == IF needself THEN field(name.ls, name.e) ELSE name
      b == body(v.ls, needself)
  IN Put(b.ls, luaK_storevar(Fs(b.ls), v.e, b.e))

exprstat(S) ==
  LET v == primaryexp(S)
  IN IF v.e.k = "VCALL" THEN Put(v.ls, SetArg(Fs(v.ls), v.e.info, "C", 1))
     ELSE assignment(v.ls, <<v.e>>)

retstat(S) ==
  LET T == luaX_next(S)
      r == explist1(T)
      F == Fs(r.ls)
      Open == luaK_setreturns(F, r.e, LUA_MULTRET)
      TailCall == lua_assert([Open EXCEPT !.code[r.e.info + 1].op = "TAILCALL"],
                          Code(F, r.e.info).A = F.nactvar)
      any == luaK_exp2anyreg(F, r.e)
      All == luaK_exp2nextreg(F, r.e).fs
  IN IF block_follow(Tok(T)) \/ Tok(T) = ";" THEN Put(T, luaK_ret(Fs(T), 0, 0))
     ELSE IF Failed(r.ls) THEN r.ls
     ELSE Put(r.ls,
              CASE hasmultret(r.e.k) ->
                     luaK_ret(IF r.e.k = "VCALL" /\ r.n = 1 THEN TailCall ELSE Open, F.nactvar, LUA_MULTRET)
                [] ~hasmultret(r.e.k) /\ r.n = 1 -> luaK_ret(any.fs, any.e.info, 1)
                [] OTHER -> luaK_ret(lua_assert(All, r.n = All.freereg - F.nactvar), F.nactvar, r.n))

statement(S) ==
  LET T == luaX_next(S)
      B == block(T)
  IN CASE Tok(S) = "if" -> ifstat(S)
       [] Tok(S) = "while" -> whilestat(S)
       [] Tok(S) = "do" -> checknext(B, "end")
       [] Tok(S) = "for" -> forstat(S)
       [] Tok(S) = "repeat" -> repeatstat(S)
       [] Tok(S) = "function" -> funcstat(S)
       [] Tok(S) = "local" -> IF Tok(T) = "function" THEN localfunc(luaX_next(T)) ELSE localstat(T)
       [] Tok(S) = "return" -> retstat(S)
       [] Tok(S) = "break" -> breakstat(T)
       [] OTHER -> exprstat(S)

RECURSIVE Statements(_)
Statements(S) ==
  LET T == testnext(statement(S), ";")
      G == Fs(T)
      F == lua_assert(G, G.maxstacksize >= G.freereg /\ G.freereg >= G.nactvar)
      Freed == Put(T, [F EXCEPT !.freereg = F.nactvar])
  IN IF block_follow(Tok(S)) THEN S
     ELSE IF Failed(T) THEN T
     ELSE IF Tok(S) \in {"return", "break"} THEN Freed
     ELSE Statements(Freed)

chunk(S) == leavelevel(Statements(enterlevel(S)))

(* The main function, the error if there is one, and what was noted.       *)
luaY_parser(tokens) ==
  LET main == [open_func EXCEPT !.is_vararg = {"ISVARARG"}]
      S == chunk([toks |-> Append(tokens, EOS), fs |-> <<main>>, level |-> 0, error |-> "",
                  closed |-> main, failed |-> FALSE])
      E == close_func(check(S, "<eof>"))
  IN [f |-> Proto(E.closed), error |-> E.error,
      failed |-> E.failed \/ E.closed.upvalues # <<>>]
=============================================================================
