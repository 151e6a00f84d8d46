------------------------------ MODULE LuaCode ------------------------------
(***************************************************************************)
(* The code generator of the Lua compiler (lcode.c).  An operator takes    *)
(* the FuncState F of the function being compiled and returns the new one, *)
(* or, where the C function also changes an expdesc, [fs, e].  Positions   *)
(* of instructions count from 0; a jump list is threaded through the jumps *)
(* themselves and known by its first one.                                  *)
(***************************************************************************)
EXTENDS LuaValue

CONSTANTS
  MAXSTACK,           \* registers a function may use
  MAXINDEXRK,         \* last constant an RK operand can name
  MAXARG_C,           \* largest operand C
  MAXARG_sBx,         \* longest jump
  LFIELDS_PER_FLUSH

NO_JUMP == -1
NO_REG == 255
LUA_MULTRET == -1
BITRK == 256
RKASK(i) == i + BITRK
ISK(x) == x >= BITRK
testTModes == {"EQ", "LT", "LE", "TEST", "TESTSET", "TFORLOOP"}

init_exp(k, i) == [k |-> k, info |-> i, aux |-> 0, nval |-> 0, t |-> NO_JUMP, f |-> NO_JUMP]
hasjumps(e) == e.t # e.f
hasmultret(k) == k \in {"VCALL", "VVARARG"}
isnumeral(e) == e.k = "VKNUM" /\ e.t = NO_JUMP /\ e.f = NO_JUMP

Pc(F) == Len(F.code)
Code(F, pc) == F.code[pc + 1]
SetArg(F, pc, arg, x) == [F EXCEPT !.code[pc + 1][arg] = x]
Error(F, msg) == [F EXCEPT !.error = IF @ = "" THEN msg ELSE @]
lua_assert(F, c) == [F EXCEPT !.failed = @ \/ (F.error = "" /\ ~c)]
Both(F, e) == [fs |-> F, e |-> e]
-----------------------------------------------------------------------------
(* Jump lists.                                                             *)
fixjump(F, pc, dest) ==
  LET offset == dest - (pc + 1)
  IN IF offset > MAXARG_sBx \/ -offset > MAXARG_sBx
     THEN Error(F, "control structure too long")
     ELSE SetArg(lua_assert(F, dest # NO_JUMP), pc, "B", offset)

getjump(F, pc) ==
  LET offset == Code(F, pc).B IN IF offset = NO_JUMP THEN NO_JUMP ELSE pc + 1 + offset

RECURSIVE Jumps(_, _)
Jumps(F, list) ==
  IF list = NO_JUMP THEN <<>> ELSE <<list>> \o Jumps(F, getjump(F, list))

getjumpcontrol(F, pc) ==
  IF pc >= 1 /\ Code(F, pc - 1).op \in testTModes THEN pc - 1 ELSE pc

need_value(F, list) ==
  \E j \in ToSet(Jumps(F, list)) : Code(F, getjumpcontrol(F, j)).op # "TESTSET"

(* The test before jump `node' gets register `reg' to put the value in, or *)
(* becomes a plain TEST when it needs none.                                *)
CanPatch(F, node) == Code(F, getjumpcontrol(F, node)).op = "TESTSET"
patchtestreg(F, node, reg) ==
  LET pc == getjumpcontrol(F, node)
      i == Code(F, pc)
  IN IF ~CanPatch(F, node) THEN F
     ELSE IF reg # NO_REG /\ reg # i.B THEN SetArg(F, pc, "A", reg)
     ELSE [F EXCEPT !.code[pc + 1] = [op |-> "TEST", A |-> i.B, B |-> 0, C |-> i.C]]

removevalues(F, list) ==
  FoldLeft(LAMBDA G, j : patchtestreg(G, j, NO_REG), F, Jumps(F, list))

patchlistaux(F, list, vtarget, reg, dtarget) ==
  FoldLeft(LAMBDA G, j : fixjump(patchtestreg(G, j, reg), j,
                                 IF CanPatch(G, j) THEN vtarget ELSE dtarget),
           F, Jumps(F, list))

luaK_getlabel(F) == [F EXCEPT !.lasttarget = Pc(F)]

(* luaK_concat(F, &l1, l2) leaves list l1 = Joined(l1, l2).                *)
Joined(l1, l2) == IF l1 = NO_JUMP THEN l2 ELSE l1
luaK_concat(F, l1, l2) ==
  IF l1 = NO_JUMP \/ l2 = NO_JUMP THEN F ELSE fixjump(F, Last(Jumps(F, l1)), l2)

luaK_patchtohere(F, list) ==
  LET G == luaK_getlabel(F)
  IN [luaK_concat(G, G.jpc, list) EXCEPT !.jpc = Joined(G.jpc, list)]

luaK_patchlist(F, list, target) ==
  IF target = Pc(F) THEN luaK_patchtohere(F, list)
  ELSE patchlistaux(lua_assert(F, target < Pc(F)), list, target, NO_REG, target)

dischargejpc(F) == [patchlistaux(F, F.jpc, Pc(F), NO_REG, Pc(F)) EXCEPT !.jpc = NO_JUMP]
-----------------------------------------------------------------------------
(* Instructions; B holds Bx and sBx too.                                   *)
luaK_code(F, op, a, b, c) ==
  LET G == dischargejpc(F)
  IN [G EXCEPT !.code = Append(@, [op |-> op, A |-> a, B |-> b, C |-> c])]

(* The jump is at position Pc(F) of the F before.                          *)
luaK_jump(F) ==
  LET G == luaK_code([F EXCEPT !.jpc = NO_JUMP], "JMP", 0, NO_JUMP, 0)
  IN luaK_concat(G, Pc(F), F.jpc)

(* Leaves its jump at position Pc(F) + 1.                                  *)
condjump(F, op, a, b, c) == luaK_jump(luaK_code(F, op, a, b, c))

luaK_ret(F, first, nret) == luaK_code(F, "RETURN", first, nret + 1, 0)

luaK_nil(F, from, n) ==
  LET here == Pc(F)
      Joins == Code(F, here - 1).op = "LOADNIL"
                 /\ Code(F, here - 1).A <= from /\ from <= Code(F, here - 1).B + 1
  IN IF here > F.lasttarget /\ here = 0 /\ from >= F.nactvar THEN F
     ELSE IF here > F.lasttarget /\ here > 0 /\ Joins
     THEN SetArg(F, here - 1, "B", Max({Code(F, here - 1).B, from + n - 1}))
     ELSE luaK_code(F, "LOADNIL", from, from + n - 1, 0)
-----------------------------------------------------------------------------
(* Registers and constants.                                                *)
(* Mutant: what is reserved now is taken for what the function needs.      *)
luaK_checkstackLast(F, n) ==
  IF F.freereg + n >= MAXSTACK THEN Error(F, "function or expression too complex")
  ELSE [F EXCEPT !.maxstacksize = Max({2, F.freereg + n})]

luaK_checkstack(F, n) ==
  LET newstack == F.freereg + n
  IN IF newstack <= F.maxstacksize THEN F
     ELSE IF newstack >= MAXSTACK THEN Error(F, "function or expression too complex")
     ELSE [F EXCEPT !.maxstacksize = newstack]

luaK_reserveregs(F, n) == [luaK_checkstack(F, n) EXCEPT !.freereg = @ + n]

freereg(F, reg) ==
  IF ISK(reg) \/ reg < F.nactvar THEN F
  ELSE lua_assert([F EXCEPT !.freereg = @ - 1], reg = F.freereg - 1)

freeexp(F, e) == IF e.k = "VNONRELOC" THEN freereg(F, e.info) ELSE F

(* addk: constant v is number Constant(F, v) of F, added if it is new.     *)
Constant(F, v) ==
  IF v \in ToSet(F.k) THEN SelectInSeq(F.k, LAMBDA c : c = v) - 1 ELSE Len(F.k)
addk(F, v) == IF v \in ToSet(F.k) THEN F ELSE [F EXCEPT !.k = Append(@, v)]
-----------------------------------------------------------------------------
(* Expressions.                                                            *)
luaK_setreturns(F, e, nresults) ==
  CASE e.k = "VCALL" -> SetArg(F, e.info, "C", nresults + 1)
    [] e.k = "VVARARG" ->
         luaK_reserveregs(SetArg(SetArg(F, e.info, "B", nresults + 1), e.info, "A", F.freereg), 1)
    [] OTHER -> F

luaK_setoneret(F, e) ==
  CASE e.k = "VCALL" ->
         Both(F, [e EXCEPT !.k = "VNONRELOC", !.info = Code(F, e.info).A])
    [] e.k = "VVARARG" -> Both(SetArg(F, e.info, "B", 2), [e EXCEPT !.k = "VRELOCABLE"])
    [] OTHER -> Both(F, e)

Relocable(F, e, op, b, c) ==
  Both(luaK_code(F, op, 0, b, c), [e EXCEPT !.k = "VRELOCABLE", !.info = Pc(F)])

luaK_dischargevars(F, e) ==
  CASE e.k = "VLOCAL" -> Both(F, [e EXCEPT !.k = "VNONRELOC"])
    [] e.k = "VUPVAL" -> Relocable(F, e, "GETUPVAL", e.info, 0)
    [] e.k = "VGLOBAL" -> Relocable(F, e, "GETGLOBAL", e.info, 0)
    [] e.k = "VINDEXED" ->
         Relocable(freereg(freereg(F, e.aux), e.info), e, "GETTABLE", e.info, e.aux)
    [] OTHER -> luaK_setoneret(F, e)

discharge2reg(F, e, reg) ==
  LET d == luaK_dischargevars(F, e)
      G == d.fs
      x == d.e
      number == Num(x.nval)
      Loaded ==
        CASE x.k = "VNIL" -> luaK_nil(G, reg, 1)
          [] x.k \in {"VFALSE", "VTRUE"} ->
               luaK_code(G, "LOADBOOL", reg, IF x.k = "VTRUE" THEN 1 ELSE 0, 0)
          [] x.k = "VK" -> luaK_code(G, "LOADK", reg, x.info, 0)
          [] x.k = "VKNUM" -> luaK_code(addk(G, number), "LOADK", reg, Constant(G, number), 0)
          [] x.k = "VRELOCABLE" -> SetArg(G, x.info, "A", reg)
          [] OTHER -> IF reg # x.info THEN luaK_code(G, "MOVE", reg, x.info, 0) ELSE G
  IN IF x.k \in {"VVOID", "VJMP"} THEN d
     ELSE Both(Loaded, [x EXCEPT !.k = "VNONRELOC", !.info = reg])

discharge2anyreg(F, e) ==
  IF e.k = "VNONRELOC" THEN Both(F, e)
  ELSE discharge2reg(luaK_reserveregs(F, 1), e, F.freereg)

code_label(F, a, b, jump) == luaK_code(luaK_getlabel(F), "LOADBOOL", a, b, jump)

(* The jumps of e that carry no value go to one of two LOADBOOLs, coded    *)
(* here; those that do go past them.                                       *)
exp2reg(F, e, reg) ==
  LET d == discharge2reg(F, e, reg)
      x == d.e
      t == IF x.k = "VJMP" THEN Joined(x.t, x.info) ELSE x.t
      G == IF x.k = "VJMP" THEN luaK_concat(d.fs, x.t, x.info) ELSE d.fs
      loads == need_value(G, t) \/ need_value(G, x.f)
      fj == IF x.k = "VJMP" THEN NO_JUMP ELSE Pc(G)
      H == IF x.k = "VJMP" THEN G ELSE luaK_jump(G)
      Labels == luaK_patchtohere(code_label(code_label(H, reg, 0, 1), reg, 1, 0), fj)
      p_f == IF loads THEN Pc(H) ELSE NO_JUMP
      p_t == IF loads THEN Pc(H) + 1 ELSE NO_JUMP
      J == luaK_getlabel(IF loads THEN Labels ELSE G)
      Final == patchlistaux(patchlistaux(J, x.f, Pc(J), reg, p_f), t, Pc(J), reg, p_t)
  IN Both(IF t # x.f THEN Final ELSE G, init_exp("VNONRELOC", reg))

luaK_exp2nextreg(F, e) ==
  LET d == luaK_dischargevars(F, e)
      G == freeexp(d.fs, d.e)
  IN exp2reg(luaK_reserveregs(G, 1), d.e, G.freereg)

luaK_exp2anyreg(F, e) ==
  LET d == luaK_dischargevars(F, e)
      x == d.e
  IN IF x.k = "VNONRELOC" /\ ~hasjumps(x) THEN d
     ELSE IF x.k = "VNONRELOC" /\ x.info >= d.fs.nactvar THEN exp2reg(d.fs, x, x.info)
     ELSE luaK_exp2nextreg(d.fs, x)

luaK_exp2val(F, e) ==
  IF hasjumps(e) THEN luaK_exp2anyreg(F, e) ELSE luaK_dischargevars(F, e)

(* The operand itself is RK of the expression luaK_exp2RK returns.         *)
RK(e) == IF e.k = "VK" THEN RKASK(e.info) ELSE e.info
luaK_exp2RK(F, e) ==
  LET d == luaK_exp2val(F, e)
      x == d.e
      v == CASE x.k = "VNIL" -> NIL
             [] x.k = "VKNUM" -> Num(x.nval)
             [] OTHER -> Bool(x.k = "VTRUE")
  IN IF x.k \in {"VKNUM", "VTRUE", "VFALSE", "VNIL"} /\ Len(d.fs.k) <= MAXINDEXRK
     THEN Both(addk(d.fs, v), [x EXCEPT !.k = "VK", !.info = Constant(d.fs, v)])
     ELSE IF x.k = "VK" /\ x.info <= MAXINDEXRK THEN d
     ELSE luaK_exp2anyreg(d.fs, x)

luaK_storevar(F, var, ex) ==
  LET any == luaK_exp2anyreg(F, ex)
      rk == luaK_exp2RK(F, ex)
  IN CASE var.k = "VLOCAL" -> exp2reg(freeexp(F, ex), ex, var.info).fs
       [] var.k = "VUPVAL" ->
            freeexp(luaK_code(any.fs, "SETUPVAL", any.e.info, var.info, 0), any.e)
       [] var.k = "VGLOBAL" ->
            freeexp(luaK_code(any.fs, "SETGLOBAL", any.e.info, var.info, 0), any.e)
       [] var.k = "VINDEXED" ->
            freeexp(luaK_code(rk.fs, "SETTABLE", var.info, var.aux, RK(rk.e)), rk.e)
       [] OTHER -> freeexp(lua_assert(F, FALSE), ex)

luaK_self(F, e, key) ==
  LET d == luaK_exp2anyreg(F, e)
      G == freeexp(d.fs, d.e)
      k == luaK_exp2RK(luaK_reserveregs(G, 2), key)
  IN Both(freeexp(luaK_code(k.fs, "SELF", G.freereg, d.e.info, RK(k.e)), k.e),
          [d.e EXCEPT !.k = "VNONRELOC", !.info = G.freereg])

luaK_indexed(F, t, k) ==
  LET r == luaK_exp2RK(F, k) IN Both(r.fs, [t EXCEPT !.k = "VINDEXED", !.aux = RK(r.e)])
-----------------------------------------------------------------------------
(* Conditions.                                                             *)
invertjump(F, e) ==
  LET pc == getjumpcontrol(F, e.info)
  IN SetArg(lua_assert(F, Code(F, pc).op \in testTModes \ {"TEST", "TESTSET"}),
            pc, "A", 1 - Code(F, pc).A)

(* A jump taken when e is `cond': it becomes number Pc(jumponcond) - 1.    *)
jumponcond(F, e, cond) ==
  LET d == discharge2anyreg(F, e)
  IN IF e.k = "VRELOCABLE" /\ Code(F, e.info).op = "NOT"
     THEN condjump([F EXCEPT !.code = Front(@)], "TEST", Code(F, e.info).B, 0, 1 - cond)
     ELSE condjump(freeexp(d.fs, d.e), "TESTSET", NO_REG, d.e.info, cond)

luaK_goiftrue(F, e) ==
  LET d == luaK_dischargevars(F, e)
      x == d.e
      none == x.k \in {"VK", "VKNUM", "VTRUE"}
      G == CASE none -> d.fs
             [] x.k = "VFALSE" -> luaK_jump(d.fs)
             [] x.k = "VJMP" -> invertjump(d.fs, x)
             [] OTHER -> jumponcond(d.fs, x, 0)
      pc == IF none THEN NO_JUMP ELSE IF x.k = "VJMP" THEN x.info ELSE Pc(G) - 1
  IN Both(luaK_patchtohere(luaK_concat(G, x.f, pc), x.t),
          [x EXCEPT !.f = Joined(x.f, pc), !.t = NO_JUMP])

luaK_goiffalse(F, e) ==
  LET d == luaK_dischargevars(F, e)
      x == d.e
      none == x.k \in {"VNIL", "VFALSE"}
      G == CASE none \/ x.k = "VJMP" -> d.fs
             [] x.k = "VTRUE" -> luaK_jump(d.fs)
             [] OTHER -> jumponcond(d.fs, x, 1)
      pc == IF none THEN NO_JUMP ELSE IF x.k = "VJMP" THEN x.info ELSE Pc(G) - 1
  IN Both(luaK_patchtohere(luaK_concat(G, x.t, pc), x.f),
          [x EXCEPT !.t = Joined(x.t, pc), !.f = NO_JUMP])

codenot(F, e) ==
  LET d == luaK_dischargevars(F, e)
      x == d.e
      any == discharge2anyreg(d.fs, x)
      n == CASE x.k \in {"VNIL", "VFALSE"} -> Both(d.fs, [x EXCEPT !.k = "VTRUE"])
             [] x.k \in {"VK", "VKNUM", "VTRUE"} -> Both(d.fs, [x EXCEPT !.k = "VFALSE"])
             [] x.k = "VJMP" -> Both(invertjump(d.fs, x), x)
             [] x.k \in {"VRELOCABLE", "VNONRELOC"} ->
                  Relocable(freeexp(any.fs, any.e), any.e, "NOT", any.e.info, 0)
             [] OTHER -> Both(lua_assert(d.fs, FALSE), x)
  IN Both(removevalues(removevalues(n.fs, n.e.t), n.e.f),
          [n.e EXCEPT !.t = n.e.f, !.f = n.e.t])
-----------------------------------------------------------------------------
(* Operators.                                                              *)
constfolding(op, e1, e2) ==
  /\ isnumeral(e1) /\ isnumeral(e2)
  /\ op \in ArithOps \union {"UNM"}
  /\ op \in {"DIV", "MOD"} => e2.nval # 0

Folded(op, e1, e2) ==
  [e1 EXCEPT !.nval = IF op = "UNM" THEN -e1.nval ELSE luai_num(op, e1.nval, e2.nval)]

codearith(F, op, e1, e2) ==
  LET d2 == IF op \in {"UNM", "LEN"} THEN Both(F, e2) ELSE luaK_exp2RK(F, e2)
      o2 == IF op \in {"UNM", "LEN"} THEN 0 ELSE RK(d2.e)
      d1 == luaK_exp2RK(d2.fs, e1)
      o1 == RK(d1.e)
      G == IF o1 > o2 THEN freeexp(freeexp(d1.fs, d1.e), d2.e)
           ELSE freeexp(freeexp(d1.fs, d2.e), d1.e)
  IN IF constfolding(op, e1, e2) THEN Both(F, Folded(op, e1, e2))
     ELSE Relocable(G, d1.e, op, o1, o2)

codecomp(F, op, cond, e1, e2) ==
  LET d1 == luaK_exp2RK(F, e1)
      d2 == luaK_exp2RK(d1.fs, e2)
      o1 == RK(d1.e)
      o2 == RK(d2.e)
      G == freeexp(freeexp(d2.fs, d2.e), d1.e)
      H == IF cond = 0 /\ op # "EQ" THEN condjump(G, op, 1, o2, o1)
           ELSE condjump(G, op, cond, o1, o2)
  IN Both(H, [d1.e EXCEPT !.k = "VJMP", !.info = Pc(H) - 1])

luaK_prefix(F, op, e) ==
  LET zero == init_exp("VKNUM", 0)
      any == luaK_exp2anyreg(F, e)
  IN CASE op = "not" -> codenot(F, e)
       [] op = "-" /\ isnumeral(e) -> codearith(F, "UNM", e, zero)
       [] op = "-" /\ ~isnumeral(e) -> codearith(any.fs, "UNM", any.e, zero)
       [] op = "#" -> codearith(any.fs, "LEN", any.e, zero)

ArithToken ==
  ("+" :> "ADD") @@ ("-" :> "SUB") @@ ("*" :> "MUL") @@ ("/" :> "DIV") @@ ("%" :> "MOD")
    @@ ("^" :> "POW")
CompareToken ==
  ("==" :> <<"EQ", 1>>) @@ ("~=" :> <<"EQ", 0>>) @@ ("<" :> <<"LT", 1>>)
    @@ ("<=" :> <<"LE", 1>>) @@ (">" :> <<"LT", 0>>) @@ (">=" :> <<"LE", 0>>)

luaK_infix(F, op, v) ==
  CASE op = "and" -> luaK_goiftrue(F, v)
    [] op = "or" -> luaK_goiffalse(F, v)
    [] op = ".." -> luaK_exp2nextreg(F, v)
    [] op \in DOMAIN ArithToken /\ isnumeral(v) -> Both(F, v)
    [] OTHER -> luaK_exp2RK(F, v)

(* A concatenation whose right operand is one joins it: one instruction    *)
(* then concatenates the whole run of registers.                           *)
Concatenated(F, e1, e2) ==
  LET d == luaK_exp2val(F, e2)
      x == d.e
      next == luaK_exp2nextreg(d.fs, x)
      G == lua_assert(d.fs, e1.info = Code(d.fs, x.info).B - 1)
  IN IF x.k = "VRELOCABLE" /\ Code(d.fs, x.info).op = "CONCAT"
     THEN Both(SetArg(freeexp(G, e1), x.info, "B", e1.info),
               [e1 EXCEPT !.k = "VRELOCABLE", !.info = x.info])
     ELSE codearith(next.fs, "CONCAT", e1, next.e)

luaK_posfix(F, op, e1, e2) ==
  LET d == luaK_dischargevars(F, e2)
      x == d.e
  IN CASE op = "and" -> Both(luaK_concat(lua_assert(d.fs, e1.t = NO_JUMP), x.f, e1.f),
                             [x EXCEPT !.f = Joined(x.f, e1.f)])
       [] op = "or" -> Both(luaK_concat(lua_assert(d.fs, e1.f = NO_JUMP), x.t, e1.t),
                            [x EXCEPT !.t = Joined(x.t, e1.t)])
       [] op = ".." -> Concatenated(F, e1, e2)
       [] op \in DOMAIN ArithToken -> codearith(F, ArithToken[op], e1, e2)
       [] OTHER -> codecomp(F, CompareToken[op][1], CompareToken[op][2], e1, e2)

luaK_setlist(F, base, nelems, tostore) ==
  LET c == (nelems - 1) \div LFIELDS_PER_FLUSH + 1
      b == IF tostore = LUA_MULTRET THEN 0 ELSE tostore
      G == IF c <= MAXARG_C THEN luaK_code(F, "SETLIST", base, b, c)
           ELSE luaK_code(luaK_code(F, "SETLIST", base, b, 0), "DATA", 0, c, 0)
  IN [lua_assert(G, tostore # 0) EXCEPT !.freereg = base + 1]
-----------------------------------------------------------------------------
(* The checks the Lua library makes on compiled code (ldebug.c), with the  *)
(* modes of the opcodes (lopcodes.c): luaG_checkcode accepts a function    *)
(* before it runs, luaG_checkopenop says which instructions may follow one *)
(* that leaves a variable number of values.                                *)
Mode(t, a, b, c, m) == [T |-> t, A |-> a, B |-> b, C |-> c, mode |-> m]
luaP_opmodes ==
  [op \in {"MOVE", "LOADNIL", "UNM", "NOT", "LEN"} |-> Mode(0, 1, "R", "N", "iABC")]
    @@ [op \in {"LOADK", "GETGLOBAL"} |-> Mode(0, 1, "K", "N", "iABx")]
    @@ [op \in {"LOADBOOL", "NEWTABLE", "CALL", "TAILCALL"} |-> Mode(0, 1, "U", "U", "iABC")]
    @@ [op \in {"GETUPVAL", "VARARG"} |-> Mode(0, 1, "U", "N", "iABC")]
    @@ [op \in {"GETTABLE", "SELF"} |-> Mode(0, 1, "R", "K", "iABC")]
    @@ ("SETGLOBAL" :> Mode(0, 0, "K", "N", "iABx"))
    @@ [op \in {"SETUPVAL", "RETURN"} |-> Mode(0, 0, "U", "N", "iABC")]
    @@ ("SETTABLE" :> Mode(0, 0, "K", "K", "iABC"))
    @@ [op \in ArithOps |-> Mode(0, 1, "K", "K", "iABC")]
    @@ ("CONCAT" :> Mode(0, 1, "R", "R", "iABC"))
    @@ ("JMP" :> Mode(0, 0, "R", "N", "iAsBx"))
    @@ [op \in {"EQ", "LT", "LE"} |-> Mode(1, 0, "K", "K", "iABC")]
    @@ [op \in {"TEST", "TESTSET"} |-> Mode(1, 1, "R", "U", "iABC")]
    @@ [op \in {"FORLOOP", "FORPREP"} |-> Mode(0, 1, "R", "N", "iAsBx")]
    @@ ("TFORLOOP" :> Mode(1, 0, "N", "U", "iABC"))
    @@ ("SETLIST" :> Mode(0, 0, "U", "U", "iABC"))
    @@ ("CLOSE" :> Mode(0, 0, "N", "N", "iABC"))
    @@ ("CLOSURE" :> Mode(0, 1, "U", "N", "iABx"))

luaG_checkopenop(i) == i.op \in {"CALL", "TAILCALL", "RETURN", "SETLIST"} /\ i.B = 0

precheck(pt) ==
  /\ pt.maxstacksize <= MAXSTACK
  /\ pt.numparams + (IF "HASARG" \in pt.is_vararg THEN 1 ELSE 0) <= pt.maxstacksize
  /\ "NEEDSARG" \in pt.is_vararg => "HASARG" \in pt.is_vararg
  /\ pt.code # <<>> /\ Last(pt.code).op = "RETURN"

checkreg(pt, reg) == reg < pt.maxstacksize
checkArgMode(pt, r, mode) ==
  CASE mode = "N" -> r = 0
    [] mode = "U" -> TRUE
    [] mode = "R" -> checkreg(pt, r)
    [] mode = "K" -> IF ISK(r) THEN r - BITRK < Len(pt.k) ELSE checkreg(pt, r)

(* A jump must not land on the count that follows a SETLIST.               *)
CheckArgs(pt, pc, i, m) ==
  CASE m.mode = "iABC" -> checkArgMode(pt, i.B, m.B) /\ checkArgMode(pt, i.C, m.C)
    [] m.mode = "iABx" -> m.B = "K" => i.B < Len(pt.k)
    [] m.mode = "iAsBx" ->
         /\ pc + 1 + i.B \in 0 .. Len(pt.code) - 1
         /\ Code(pt, pc + 1 + i.B).op # "DATA"

CheckOp(pt, pc, i) ==
  LET next == Code(pt, pc + 1)
  IN CASE i.op = "LOADBOOL" -> i.C = 1 => pc + 2 < Len(pt.code) /\ ~(next.op = "SETLIST" /\ next.C = 0)
       [] i.op \in {"GETUPVAL", "SETUPVAL"} -> i.B < pt.nups
       [] i.op \in {"GETGLOBAL", "SETGLOBAL"} -> ttype(pt.k[i.B + 1]) = "string"
       [] i.op = "SELF" -> checkreg(pt, i.A + 1)
       [] i.op = "CONCAT" -> i.B < i.C
       [] i.op = "TFORLOOP" -> i.C >= 1 /\ checkreg(pt, i.A + 2 + i.C)
       [] i.op \in {"FORLOOP", "FORPREP"} -> checkreg(pt, i.A + 3)
       [] i.op \in {"CALL", "TAILCALL"} ->
            /\ i.B # 0 => checkreg(pt, i.A + i.B - 1)
            /\ IF i.C = 0 THEN luaG_checkopenop(next) ELSE i.C > 1 => checkreg(pt, i.A + i.C - 2)
       [] i.op = "RETURN" -> i.B > 1 => checkreg(pt, i.A + i.B - 2)
       [] i.op = "SETLIST" -> /\ i.B > 0 => checkreg(pt, i.A + i.B)
                              /\ i.C = 0 => pc + 1 < Len(pt.code) - 1
       [] i.op = "CLOSURE" ->
            /\ i.B < Len(pt.p)
            /\ pc + pt.p[i.B + 1].nups < Len(pt.code)
            /\ \A j \in 1 .. pt.p[i.B + 1].nups : Code(pt, pc + j).op \in {"GETUPVAL", "MOVE"}
       [] i.op = "VARARG" ->
            /\ "ISVARARG" \in pt.is_vararg /\ "NEEDSARG" \notin pt.is_vararg
            /\ i.B = 0 => luaG_checkopenop(next)
            /\ checkreg(pt, i.A + i.B - 2)
       [] OTHER -> TRUE

(* symbexec with no register to trace looks at every instruction.          *)
luaG_checkcode(pt) ==
  /\ precheck(pt)
  /\ \A pc \in 0 .. Len(pt.code) - 1 :
       LET i == Code(pt, pc)
           m == luaP_opmodes[i.op]
       IN i.op # "DATA" =>
            /\ checkreg(pt, i.A)
            /\ CheckArgs(pt, pc, i, m)
            /\ m.T = 1 => pc + 2 < Len(pt.code) /\ Code(pt, pc + 1).op = "JMP"
            /\ CheckOp(pt, pc, i)
=============================================================================
