------------------------------- MODULE LuaVM -------------------------------
(***************************************************************************)
(* The virtual machine: luaV_execute of lvm.c, one action per opcode, with *)
(* the calls of ldo.c and the upvalues of lfunc.c it needs.  Metatables,   *)
(* errors that are caught, coroutines and hooks are not in it (LuaCalls    *)
(* has calls, errors and coroutines).  A slot is a position of the stack,  *)
(* from 0.  Closures are numbered in the order they are made: first the C  *)
(* functions "f", which notes its arguments and returns them, and "count", *)
(* an iterator, then the main function.                                    *)
(***************************************************************************)
EXTENDS LuaParser

VARIABLES
  proto,    \* what luaY_parser returned
  machine,  \* the lua_State
  outcome   \* "source", "running", "returned", "failed" or "syntax error"

vars == <<proto, machine, outcome>>

MainFunction == Len(CFunctions) + 1
Globals == 1   \* the table of global variables

Start ==
  [stack |-> <<FunctionRef(MainFunction)>>, top |-> 1, ci |-> <<>>, upvals |-> <<>>,
   closures |-> Append([i \in DOMAIN CFunctions |-> [c |-> CFunctions[i], path |-> <<>>, upvals |-> <<>>]],
                       [c |-> "", path |-> <<>>, upvals |-> <<>>]),
   heap |-> <<Str(<<"f">>) :> FunctionRef(1) @@ Str(<<"count">>) :> FunctionRef(2)>>,
   log |-> <<>>, failed |-> FALSE]

(* A prototype is known by its path: its index in each enclosing one.      *)
ProtoAt(path) == FoldLeft(LAMBDA p, i : p.p[i + 1], proto.f, path)
-----------------------------------------------------------------------------
(* Operators on a machine M.                                               *)
Slot(M, s) == IF s < Len(M.stack) THEN M.stack[s + 1] ELSE NIL
Nils(n) == [i \in 1 .. n |-> NIL]
SetSlot(M, s, v) ==
  IF s < Len(M.stack) THEN [M EXCEPT !.stack[s + 1] = v]
  ELSE [M EXCEPT !.stack = @ \o Nils(s - Len(@)) \o <<v>>]
SetSlots(M, s, values) == FoldLeft(LAMBDA N, i : SetSlot(N, s + i - 1, values[i]), M,
                                   [i \in 1 .. Len(values) |-> i])
Slots(M, from, to) == [i \in 1 .. Max({to - from, 0}) |-> Slot(M, from + i - 1)]

Frame(M) == Last(M.ci)
Closure(M) == M.closures[Slot(M, Frame(M).func)[2]]
P(M) == ProtoAt(Closure(M).path)
Reg(M, a) == Slot(M, Frame(M).base + a)
SetReg(M, a, v) == SetSlot(M, Frame(M).base + a, v)
RegOrK(M, x) == IF ISK(x) THEN P(M).k[x - BITRK + 1] ELSE Reg(M, x)
Jump(M, offset) == [M EXCEPT !.ci[Len(M.ci)].savedpc = @ + offset]
SetTop(M, top) == [M EXCEPT !.top = top]
Fail(M) == [M EXCEPT !.failed = TRUE]

luaV_gettable(M, t, key, a) ==
  IF ttype(t) = "table" THEN SetReg(M, a, Get(M.heap[t[2]], key)) ELSE Fail(M)
luaV_settable(M, t, key, v) ==
  IF ttype(t) = "table" /\ key # NIL THEN [M EXCEPT !.heap[t[2]] = Assigned(@, key, v)] ELSE Fail(M)

(* luaH_new: an empty table, and its value.                                *)
NewTable(M) == [M EXCEPT !.heap = Append(@, <<>>)]
Newest(M) == TableRef(Len(M.heap))

Arith(M, a, op, v, w) ==
  LET b == luaV_tonumber(v)
      c == luaV_tonumber(w)
  IN IF ttype(b) = "number" /\ ttype(c) = "number"
     THEN SetReg(M, a, Num(IF op = "UNM" THEN -b[2] ELSE luai_num(op, b[2], c[2]))) ELSE Fail(M)

(* The values, all strings or numbers, joined; each pass joins the last.   *)
luaV_concat(M, a, values) ==
  IF \A i \in DOMAIN values : ttype(values[i]) \in {"string", "number"}
  THEN SetReg(M, a, Str(FoldLeft(LAMBDA s, v : s \o tostring(v), <<>>, values))) ELSE Fail(M)

(* Upvalues: open ones live in a slot, closed ones have slot -1.           *)
UpValue(M, u) == IF M.upvals[u].slot >= 0 THEN Slot(M, M.upvals[u].slot) ELSE M.upvals[u].value
SetUpValue(M, u, v) ==
  IF M.upvals[u].slot >= 0 THEN SetSlot(M, M.upvals[u].slot, v)
  ELSE [M EXCEPT !.upvals[u].value = v]
OpenAt(M, s) == SelectInSeq(M.upvals, LAMBDA u : u.slot = s)
luaF_findupval(M, s) ==
  IF OpenAt(M, s) > 0 THEN M
  ELSE [M EXCEPT !.upvals = Append(@, [slot |-> s, value |-> NIL])]
luaF_close(M, level) ==
  [M EXCEPT !.upvals = [u \in DOMAIN @ |->
     IF @[u].slot >= level THEN [slot |-> -1, value |-> Slot(M, @[u].slot)] ELSE @[u]]]

(* Extra arguments stay below the base; the parameters move above them.    *)
ArgTable(M, p, nvar) ==
  LET extra == Slots(M, M.top - nvar, M.top)
      arg == [k \in {Num(i) : i \in {j \in 1 .. nvar : extra[j] # NIL}} |-> extra[k[2]]]
                @@ Str(<<"n">>) :> Num(nvar)
  IN IF "NEEDSARG" \in p.is_vararg THEN [M EXCEPT !.heap = Append(@, arg)] ELSE M
MoveFixed(M, p, actual) ==
  LET fixed == M.top - actual
      top == M.top + p.numparams
      moved == SetSlots(SetSlots(M, M.top, Slots(M, fixed, fixed + p.numparams)),
                        fixed, Nils(p.numparams))
  IN IF "NEEDSARG" \in p.is_vararg THEN SetTop(SetSlot(moved, top, Newest(M)), top + 1)
     ELSE SetTop(moved, top)
adjust_varargs(M, p, actual) ==
  LET missing == Max({p.numparams - actual, 0})
      padded == SetTop(SetSlots(M, M.top, Nils(missing)), M.top + missing)
  IN MoveFixed(ArgTable(padded, p, Max({actual - p.numparams, 0})), p, Max({actual, p.numparams}))

(* `res' gets as many results as were wanted, and top follows the last.    *)
luaD_poscall(M, firstResult) ==
  LET wanted == Frame(M).nresults
      res == Frame(M).func
      given == Slots(M, firstResult, M.top)
      n == IF wanted = LUA_MULTRET THEN Len(given) ELSE wanted
      results == [i \in 1 .. n |-> IF i <= Len(given) THEN given[i] ELSE NIL]
  IN SetTop([SetSlots(M, res, results) EXCEPT !.ci = Front(@)], res + n)

NewFrame(M, p, func, base, nresults) ==
  LET ci == [func |-> func, base |-> base, top |-> base + p.maxstacksize, nresults |-> nresults,
             savedpc |-> 0]
  IN SetTop([SetSlots(M, M.top, Nils(Max({ci.top - M.top, 0}))) EXCEPT !.ci = Append(@, ci)], ci.top)
LuaCall(M, func, nresults) ==
  LET p == ProtoAt(M.closures[Slot(M, func)[2]].path)
      fixed == SetTop(M, Min({M.top, func + 1 + p.numparams}))
      given == adjust_varargs(M, p, M.top - func - 1)
      arg == IF "NEEDSARG" \in p.is_vararg THEN 1 ELSE 0
  IN IF p.is_vararg = {} THEN NewFrame(fixed, p, func, func + 1, nresults)
     ELSE NewFrame(given, p, func, given.top - p.numparams - arg, nresults)

CCall(M, func, nresults) ==
  LET c == M.closures[Slot(M, func)[2]].c
      args == Slots(M, func + 1, M.top)
      results == CResults(c, args)
      ci == [func |-> func, base |-> func + 1, top |-> M.top, nresults |-> nresults, savedpc |-> 0]
      N == [M EXCEPT !.ci = Append(@, ci),
                     !.log = IF c = "f" THEN Append(@, [i \in DOMAIN args |-> Shown(args[i])]) ELSE @]
  IN luaD_poscall(SetTop(SetSlots(N, M.top, results), M.top + Len(results)), M.top)

IsC(M, func) ==
  ttype(Slot(M, func)) = "function" /\ M.closures[Slot(M, func)[2]].c # ""
luaD_precall(M, func, nresults) ==
  IF ttype(Slot(M, func)) # "function" THEN Fail(M)
  ELSE IF IsC(M, func) THEN CCall(M, func, nresults)
  ELSE LuaCall(M, func, nresults)

(* The new frame put in place of the previous one.                         *)
TailFrame(M) ==
  LET ci == M.ci[Len(M.ci) - 1]
      new == Last(M.ci)
      C == luaF_close(M, ci.base)
      size == M.top - new.func
      base == ci.func + (new.base - new.func)
  IN SetTop([SetSlots(C, ci.func, Slots(C, new.func, M.top))
               EXCEPT !.ci = Append(SubSeq(@, 1, Len(@) - 2),
                                    [ci EXCEPT !.base = base, !.top = ci.func + size, !.savedpc = 0])],
            ci.func + size)
-----------------------------------------------------------------------------
Init == machine = Start /\ outcome = "source"

(* luaD_protectedparser, of which `parsed' is what luaY_parser returns,     *)
(* then the call lua_pcall makes.                                          *)
Load(parsed) ==
  /\ outcome = "source"
  /\ proto' = parsed
  /\ outcome' = IF parsed.error = "" THEN "loaded" ELSE "syntax error"
  /\ UNCHANGED machine

Begin ==
  /\ outcome = "loaded"
  /\ machine' = LuaCall(machine, 0, LUA_MULTRET)
  /\ outcome' = "running"
  /\ UNCHANGED proto

Here == Code(P(machine), Frame(machine).savedpc)
M1 == Jump(machine, 1)   \* the pc is past the instruction when it executes
Ra == Frame(machine).base + Here.A

Executes(ops) == outcome = "running" /\ Here.op \in ops
Become(M) ==
  /\ machine' = M
  /\ outcome' = IF M.failed THEN "failed" ELSE IF M.ci = <<>> THEN "returned" ELSE "running"
  /\ UNCHANGED proto

OP_MOVE == Executes({"MOVE"}) /\ Become(SetReg(M1, Here.A, Reg(M1, Here.B)))
OP_LOADK == Executes({"LOADK"}) /\ Become(SetReg(M1, Here.A, P(M1).k[Here.B + 1]))
OP_LOADBOOL ==
  Executes({"LOADBOOL"}) /\ Become(SetReg(Jump(M1, Here.C), Here.A, Bool(Here.B = 1)))
OP_LOADNIL == Executes({"LOADNIL"}) /\ Become(SetSlots(M1, Ra, Nils(Here.B - Here.A + 1)))

OP_GETUPVAL ==
  Executes({"GETUPVAL"}) /\ Become(SetReg(M1, Here.A, UpValue(M1, Closure(M1).upvals[Here.B + 1])))
OP_SETUPVAL ==
  Executes({"SETUPVAL"}) /\ Become(SetUpValue(M1, Closure(M1).upvals[Here.B + 1], Reg(M1, Here.A)))
OP_GETGLOBAL ==
  /\ Executes({"GETGLOBAL"})
  /\ Become(luaV_gettable(M1, TableRef(Globals), P(M1).k[Here.B + 1], Here.A))
OP_SETGLOBAL ==
  /\ Executes({"SETGLOBAL"})
  /\ Become(luaV_settable(M1, TableRef(Globals), P(M1).k[Here.B + 1], Reg(M1, Here.A)))

OP_NEWTABLE ==
  LET N == NewTable(M1) IN Executes({"NEWTABLE"}) /\ Become(SetReg(N, Here.A, Newest(N)))
OP_GETTABLE ==
  /\ Executes({"GETTABLE"})
  /\ Become(luaV_gettable(M1, Reg(M1, Here.B), RegOrK(M1, Here.C), Here.A))
OP_SETTABLE ==
  /\ Executes({"SETTABLE"})
  /\ Become(luaV_settable(M1, Reg(M1, Here.A), RegOrK(M1, Here.B), RegOrK(M1, Here.C)))
(* The key is read after the object was copied.                            *)
OP_SELF ==
  /\ Executes({"SELF"})
  /\ LET N == SetReg(M1, Here.A + 1, Reg(M1, Here.B))
     IN Become(luaV_gettable(N, Reg(N, Here.B), RegOrK(N, Here.C), Here.A))
OP_SETLIST ==
  /\ Executes({"SETLIST"})
  /\ LET n == IF Here.B = 0 THEN machine.top - Ra - 1 ELSE Here.B
         N == IF Here.B = 0 THEN SetTop(M1, Frame(M1).top) ELSE M1
         c == IF Here.C = 0 THEN Code(P(M1), Frame(M1).savedpc).B ELSE Here.C
         first == (c - 1) * LFIELDS_PER_FLUSH
         Store(T, i) == luaV_settable(T, Reg(M1, Here.A), Num(first + i), Slot(M1, Ra + i))
     IN Become(FoldLeft(Store, IF Here.C = 0 THEN Jump(N, 1) ELSE N,
                        [i \in 1 .. n |-> n + 1 - i]))

OP_ARITH ==
  /\ Executes(ArithOps)
  /\ Become(Arith(M1, Here.A, Here.op, RegOrK(M1, Here.B), RegOrK(M1, Here.C)))
OP_UNM == Executes({"UNM"}) /\ Become(Arith(M1, Here.A, "UNM", Reg(M1, Here.B), Reg(M1, Here.B)))
OP_NOT == Executes({"NOT"}) /\ Become(SetReg(M1, Here.A, Bool(l_isfalse(Reg(M1, Here.B)))))
OP_LEN ==
  /\ Executes({"LEN"})
  /\ LET v == Reg(M1, Here.B)
     IN Become(CASE ttype(v) = "table" -> SetReg(M1, Here.A, Num(luaH_getn(M1.heap[v[2]])))
                 [] ttype(v) = "string" -> SetReg(M1, Here.A, Num(Len(v[2])))
                 [] OTHER -> Fail(M1))
OP_CONCAT ==
  /\ Executes({"CONCAT"})
  /\ Become(luaV_concat(M1, Here.A, [i \in 1 .. Here.C - Here.B + 1 |-> Reg(M1, Here.B + i - 1)]))

OP_JMP == Executes({"JMP"}) /\ Become(Jump(M1, Here.B))
(* A test that succeeds does the jump that follows it, else it skips it.   *)
DoJump(M) == Jump(M, Code(P(M), Frame(M).savedpc).B + 1)
OP_EQ ==
  /\ Executes({"EQ"})
  /\ LET v == RegOrK(M1, Here.B)
         w == RegOrK(M1, Here.C)
     IN Become(IF luaO_rawequalObj(v, w) = (Here.A = 1) THEN DoJump(M1) ELSE Jump(M1, 1))
OP_LT_LE ==
  /\ Executes({"LT", "LE"})
  /\ LET v == RegOrK(M1, Here.B)
         w == RegOrK(M1, Here.C)
         res == IF Here.op = "LT" THEN luaV_lessthan(v, w) ELSE lessequal(v, w)
     IN Become(IF ~Comparable(v, w) THEN Fail(M1)
               ELSE IF res = (Here.A = 1) THEN DoJump(M1) ELSE Jump(M1, 1))
OP_TEST ==
  /\ Executes({"TEST"})
  /\ Become(IF l_isfalse(Reg(M1, Here.A)) # (Here.C = 1) THEN DoJump(M1) ELSE Jump(M1, 1))
OP_TESTSET ==
  /\ Executes({"TESTSET"})
  /\ LET v == Reg(M1, Here.B)
     IN Become(IF l_isfalse(v) # (Here.C = 1) THEN DoJump(SetReg(M1, Here.A, v)) ELSE Jump(M1, 1))

Called(a, b) == IF b # 0 THEN SetTop(M1, a + b) ELSE M1
(* What is done with the state after a call, unless the call has failed.   *)
RestoreTop(M) == IF M.failed THEN M ELSE SetTop(M, Frame(M).top)
ReplaceFrame(M) == IF M.failed THEN M ELSE TailFrame(M)
OP_CALL ==
  /\ Executes({"CALL"})
  /\ LET N == luaD_precall(Called(Ra, Here.B), Ra, Here.C - 1)
     IN Become(IF IsC(machine, Ra) /\ Here.C > 0 THEN RestoreTop(N) ELSE N)
OP_TAILCALL ==
  /\ Executes({"TAILCALL"})
  /\ LET N == luaD_precall(Called(Ra, Here.B), Ra, LUA_MULTRET)
     IN Become(IF IsC(machine, Ra) THEN N ELSE ReplaceFrame(N))
(* What follows the call of a generator; its caller is at a TFORLOOP.      *)
TForNext(M) ==
  LET i == Code(P(M), Frame(M).savedpc - 1)
      cb == Frame(M).base + i.A + 3
      N == SetTop(M, Frame(M).top)
  IN IF M.failed THEN M
     ELSE IF Slot(N, cb) # NIL THEN DoJump(SetSlot(N, cb - 1, Slot(N, cb))) ELSE Jump(N, 1)
OP_TFORLOOP ==
  /\ Executes({"TFORLOOP"})
  /\ LET cb == Ra + 3
         N == luaD_precall(SetTop(SetSlots(M1, cb, Slots(M1, Ra, cb)), cb + 3), cb, Here.C)
     IN Become(IF IsC(machine, Ra) THEN TForNext(N) ELSE N)

InForLoop(M) == Code(P(M), Frame(M).savedpc - 1).op = "TFORLOOP"
OP_RETURN ==
  /\ Executes({"RETURN"})
  /\ LET R == IF Here.B # 0 THEN SetTop(M1, Ra + Here.B - 1) ELSE M1
         N == luaD_poscall(luaF_close(R, Frame(M1).base), Ra)
         again == Len(machine.ci) > 1
     IN Become(IF again /\ InForLoop(N) THEN TForNext(N)
               ELSE IF again /\ Frame(machine).nresults # LUA_MULTRET THEN SetTop(N, Frame(N).top)
               ELSE N)

OP_FORPREP ==
  /\ Executes({"FORPREP"})
  /\ LET v == [i \in 0 .. 2 |-> luaV_tonumber(Reg(M1, Here.A + i))]
         N == SetSlots(M1, Ra, <<Num(v[0][2] - v[2][2]), v[1], v[2]>>)
     IN Become(IF \A i \in 0 .. 2 : ttype(v[i]) = "number" THEN Jump(N, Here.B) ELSE Fail(M1))
OP_FORLOOP ==
  /\ Executes({"FORLOOP"})
  /\ LET step == Reg(M1, Here.A + 2)[2]
         idx == Reg(M1, Here.A)[2] + step
         limit == Reg(M1, Here.A + 1)[2]
         continues == IF 0 < step THEN idx <= limit ELSE limit <= idx
     IN Become(IF continues THEN Jump(SetReg(SetReg(M1, Here.A, Num(idx)), Here.A + 3, Num(idx)), Here.B)
               ELSE M1)
OP_CLOSE == Executes({"CLOSE"}) /\ Become(luaF_close(M1, Ra))
OP_CLOSURE ==
  /\ Executes({"CLOSURE"})
  /\ LET nup == P(M1).p[Here.B + 1].nups
         Captured(j) == Code(P(M1), Frame(M1).savedpc + j - 1)
         Find(N, j) == IF Captured(j).op = "GETUPVAL" THEN N
                       ELSE luaF_findupval(N, Frame(M1).base + Captured(j).B)
         N == FoldLeft(Find, M1, [j \in 1 .. nup |-> j])
         UpVal(j) == IF Captured(j).op = "GETUPVAL" THEN Closure(M1).upvals[Captured(j).B + 1]
                     ELSE OpenAt(N, Frame(M1).base + Captured(j).B)
         ncl == [c |-> "", path |-> Append(Closure(M1).path, Here.B), upvals |-> [j \in 1 .. nup |-> UpVal(j)]]
     IN Become(SetReg(Jump([N EXCEPT !.closures = Append(@, ncl)], nup), Here.A,
                      FunctionRef(Len(N.closures) + 1)))
OP_VARARG ==
  /\ Executes({"VARARG"})
  /\ LET n == Frame(M1).base - Frame(M1).func - P(M1).numparams - 1
         b == IF Here.B = 0 THEN n ELSE Here.B - 1
         extra == Slots(M1, Frame(M1).base - n, Frame(M1).base)
         N == SetSlots(M1, Ra, [j \in 1 .. b |-> IF j <= n THEN extra[j] ELSE NIL])
     IN Become(IF Here.B = 0 THEN SetTop(N, Ra + n) ELSE N)

luaV_execute ==
  \/ OP_MOVE \/ OP_LOADK \/ OP_LOADBOOL \/ OP_LOADNIL \/ OP_GETUPVAL \/ OP_SETUPVAL
  \/ OP_GETGLOBAL \/ OP_SETGLOBAL \/ OP_NEWTABLE \/ OP_GETTABLE \/ OP_SETTABLE \/ OP_SELF
  \/ OP_SETLIST \/ OP_ARITH \/ OP_UNM \/ OP_NOT \/ OP_LEN \/ OP_CONCAT \/ OP_JMP \/ OP_EQ
  \/ OP_LT_LE \/ OP_TEST \/ OP_TESTSET \/ OP_CALL \/ OP_TAILCALL \/ OP_RETURN \/ OP_FORPREP
  \/ OP_FORLOOP \/ OP_TFORLOOP \/ OP_CLOSE \/ OP_CLOSURE \/ OP_VARARG
=============================================================================
