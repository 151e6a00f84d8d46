-------------------------- MODULE LuaCallsProofs --------------------------
(***************************************************************************)
(* Proofs about LuaCalls, for any coroutines, scripts and limits: the      *)
(* steps of ldo.c and lbaselib.c on an accounted machine, then those of    *)
(* coroutines, the inductive invariant and the properties that follow      *)
(* from it.                                                                *)
(***************************************************************************)
EXTENDS LuaCallsAccounts

(* What a script calls is one or more values.                              *)
LEMMA CalleesAreValues ==
  ASSUME NEW callee \in Callees
  PROVE  callee \in Seq(Value) /\ Len(callee) \in Nat /\ Len(callee) >= 1
<1>1. \A x \in {"L", "H", "yield", "error", "xpcall", "pcall", "resume", "wrap"} \union Coroutine :
        x \in Value
  BY DEF Value
<1>2. \A c \in Simple : \E x \in {"L", "yield", "error", "pcall"} : c = <<x>>
  BY DEF Simple
<1>3. CASE callee \in Simple
  <2>1. PICK x \in {"L", "yield", "error", "pcall"} : callee = <<x>>
    BY <1>2, <1>3
  <2> QED BY <1>1, <2>1
<1>4. CASE callee = <<"xpcall", "L", "H">>
  BY <1>1, <1>4
<1>5. CASE callee \in {<<"pcall">> \o c : c \in Simple}
  <2>1. PICK c \in Simple : callee = <<"pcall">> \o c
    BY <1>5
  <2>2. PICK x \in {"L", "yield", "error", "pcall"} : c = <<x>>
    BY <1>2
  <2>3. /\ <<"pcall">> \in Seq(Value) /\ Len(<<"pcall">>) = 1
        /\ c \in Seq(Value) /\ Len(c) = 1
    BY <1>1, <2>2
  <2>4. callee \in Seq(Value) /\ Len(callee) = 1 + 1
    BY <2>1, <2>3, ConcatProperties
  <2> QED BY <2>4
<1>6. CASE callee \in {<<f, co>> : f \in {"resume", "wrap"}, co \in Coroutine}
  <2>1. PICK f \in {"resume", "wrap"}, co \in Coroutine : callee = <<f, co>>
    BY <1>6
  <2>2. f \in Value /\ co \in Value
    BY <1>1
  <2> HIDE DEF Value
  <2> QED BY ONLY <2>1, <2>2
<1> QED BY <1>3, <1>4, <1>5, <1>6 DEF Callees

(* A function and its arguments are pushed over what the frames need.      *)
LEMMA FunctionPushed ==
  ASSUME NEW m, NEW th, At(m, th), NEW values \in Seq(Value), Len(values) >= 1,
         NEW func, func = Len(m.thread[th].stack) + 1,
         NEW q, q = Push(m, th, values)
  PROVE  /\ Does(m, q, th) /\ At(q, th) /\ q.cs = m.cs /\ q.mode = m.mode
         /\ q.thread[th].ci = m.thread[th].ci
         /\ func \in 1 .. Len(q.thread[th].stack) /\ Fits(th, q.thread[th], q.cs, func - 1)
         /\ q.thread[th].stack[func] = values[1]
<1> DEFINE st == m.thread[th].stack
           st2 == q.thread[th].stack
<1>1. /\ Does(m, q, th) /\ At(q, th) /\ q.cs = m.cs /\ q.mode = m.mode
      /\ Restacked(m.thread[th], q.thread[th], m.thread[th].stack \o values)
      /\ Fits(th, q.thread[th], q.cs, Len(m.thread[th].stack))
  BY PushStep DEF Does
<1>2. q.thread[th].ci = m.thread[th].ci /\ st2 = st \o values
  BY <1>1 DEF Restacked
<1>3. st \in Seq(Value)
  BY TopIs DEF ThreadState
<1>4. func = Len(st) + 1
  OBVIOUS
<1> HIDE DEF st, st2
<1>5. /\ Len(st) \in Nat /\ Len(st2) = Len(st) + Len(values) /\ Len(values) \in Nat
      /\ \A j \in 1 .. Len(values) : st2[Len(st) + j] = values[j]
  BY <1>2, <1>3, PushedOn
<1>6. func \in 1 .. Len(st2) /\ func - 1 = Len(st)
  BY <1>4, <1>5
<1>7. st2[func] = values[1]
  <2>1. 1 \in 1 .. Len(values)
    BY <1>5
  <2> QED BY <1>4, <1>5, <2>1
<1> QED BY <1>1, <1>2, <1>6, <1>7 DEF st, st2

(* OP_CALL, OP_TAILCALL and a call through C push the function first.      *)
LEMMA CallPushed ==
  ASSUME NEW m, NEW th, At(m, th), m.mode = "run", m.cs # <<>>, Last(m.cs).kind = "execute",
         NEW callee \in Seq(Value), Len(callee) >= 1,
         NEW p, p = OneMore(luaD_precall(Push(m, th, callee), th, Len(m.thread[th].stack) + 1, 0))
  PROVE  Does(m, p, th) /\ ModeFits(p)
<1>1. PICK func, q : func = Len(m.thread[th].stack) + 1 /\ q = Push(m, th, callee)
  OBVIOUS
<1>2. /\ Does(m, q, th) /\ At(q, th) /\ q.cs = m.cs /\ q.mode = m.mode
      /\ func \in 1 .. Len(q.thread[th].stack) /\ Fits(th, q.thread[th], q.cs, func - 1)
  BY <1>1, FunctionPushed
<1>3. p = OneMore(luaD_precall(q, th, func, 0)) /\ 0 \in Int
  BY <1>1
<1>4. q.mode = "run" /\ q.cs # <<>> /\ Last(q.cs).kind = "execute"
  BY <1>2
<1>5. Does(q, p, th) /\ ModeFits(p)
  BY <1>2, <1>3, <1>4, CallInstruction
<1> QED BY <1>2, <1>5, DoesMore

(* The same for OP_TAILCALL.                                               *)
LEMMA TailPushed ==
  ASSUME NEW m, NEW th, At(m, th), m.mode = "run", m.cs # <<>>, Last(m.cs).kind = "execute",
         NEW callee \in Seq(Value), Len(callee) >= 1,
         NEW p, p = Replaced(luaD_precall(Push(m, th, callee), th, Len(m.thread[th].stack) + 1,
                                          LUA_MULTRET), th, Func(m.thread[th]))
  PROVE  Does(m, p, th) /\ ModeFits(p)
<1>1. PICK func, q : func = Len(m.thread[th].stack) + 1 /\ q = Push(m, th, callee)
  OBVIOUS
<1>2. /\ Does(m, q, th) /\ At(q, th) /\ q.cs = m.cs /\ q.mode = m.mode
      /\ func \in 1 .. Len(q.thread[th].stack) /\ Fits(th, q.thread[th], q.cs, func - 1)
      /\ q.thread[th].ci = m.thread[th].ci
  BY <1>1, FunctionPushed
<1>3. Func(q.thread[th]) = Func(m.thread[th])
  BY <1>2 DEF Func
<1>4. p = Replaced(luaD_precall(q, th, func, LUA_MULTRET), th, Func(q.thread[th]))
  BY <1>1, <1>3
<1>5. LUA_MULTRET \in Int /\ q.mode = "run" /\ q.cs # <<>> /\ Last(q.cs).kind = "execute"
  BY <1>2 DEF LUA_MULTRET
<1>6. Does(q, p, th) /\ ModeFits(p)
  BY <1>2, <1>4, <1>5, TailInstruction
<1> QED BY <1>2, <1>6, DoesMore

(* The same for luaD_call.                                                 *)
LEMMA MetaPushed ==
  ASSUME NEW m, NEW th, At(m, th), m.cs # <<>>, Last(m.cs).kind = "execute",
         NEW callee \in Seq(Value), Len(callee) >= 1,
         NEW p, p = luaD_call(Push(m, th, callee), th, Len(m.thread[th].stack) + 1, 1)
  PROVE  Does(m, p, th) /\ ModeFits(p)
<1>1. PICK func, q : func = Len(m.thread[th].stack) + 1 /\ q = Push(m, th, callee)
  OBVIOUS
<1>2. /\ Does(m, q, th) /\ At(q, th) /\ q.cs = m.cs
      /\ func \in 1 .. Len(q.thread[th].stack) /\ Fits(th, q.thread[th], q.cs, func - 1)
  BY <1>1, FunctionPushed
<1>3. p = luaD_call(q, th, func, 1) /\ 1 \in Int
  BY <1>1
<1>4. q.cs # <<>> /\ Last(q.cs).kind \in {"pcall", "errormsg", "execute"}
  BY <1>2
<1>5. Does(q, p, th) /\ Goes(p, th)
  BY <1>2, <1>3, <1>4, CallStep
<1>6. Does(m, p, th) /\ At(p, th)
  BY <1>2, <1>5, DoesMore DEF Does
<1> QED BY <1>5, <1>6, GoesFits

(* An error is raised, or a C function fails with its results.             *)
LEMMA RaiseFits ==
  ASSUME NEW m, NEW th, At(m, th), m.cs # <<>>,
         Last(m.cs).kind \in {"call", "execute", "cfun", "resume"}, NEW p, p = Raise(m, th)
  PROVE  Does(m, p, th) /\ ModeFits(p)
<1>1. /\ Does(m, p, th) /\ p.cs = m.cs /\ p.mode = "raise"
      /\ Fits(th, p.thread[th], p.cs, Len(p.thread[th].stack) - 1)
  BY RaiseStep
<1>2. Goes(p, th) /\ At(p, th)
  BY <1>1 DEF Goes, Does
<1> QED BY <1>1, <1>2, GoesFits

(* An error is thrown from where it may happen.                            *)
LEMMA ThrowFits ==
  ASSUME NEW m, NEW th, At(m, th), m.cs # <<>>, NEW errcode \in Errors,
         NEW p, p = Doing(m, errcode)
  PROVE  Does(m, p, th) /\ ModeFits(p)
<1>1. errcode \in Modes
  BY DEF Modes
<1>2. Does(m, p, th) /\ p.cs = m.cs /\ p.mode = errcode
  BY <1>1, DoingStep
<1>3. Goes(p, th) /\ At(p, th)
  BY <1>2 DEF Goes, Does
<1> QED BY <1>2, <1>3, GoesFits

(* A C function returns with one result.                                   *)
LEMMA FinishFits ==
  ASSUME NEW m, NEW th, At(m, th), m.cs # <<>>, Last(m.cs).kind = "cfun",
         NEW p, p = Resumed(luaD_poscall(Leave(m), th, <<"v">>))
  PROVE  Does(m, p, th) /\ ModeFits(p)
<1>1. PICK q : q = luaD_poscall(Leave(m), th, <<"v">>) /\ p = Resumed(q)
  OBVIOUS
<1>2. Does(m, q, th) /\ At(q, th)
  BY <1>1, FinishStep DEF Does
<1>3. Does(q, p, th) /\ ModeFits(p)
  BY <1>1, <1>2, ResumedStep
<1> QED BY <1>2, <1>3, DoesMore

(* auxresume reports a failure, as a result or as an error.                *)
LEMMA FailsFits ==
  ASSUME NEW m, NEW th, At(m, th), m.cs # <<>>, Last(m.cs).kind = "cfun", NEW name,
         NEW p, p = ResumeFails(m, th, name)
  PROVE  Does(m, p, th) /\ ModeFits(p)
<1>1. CASE name = "wrap"
  BY <1>1, RaiseFits DEF ResumeFails
<1>2. CASE name # "wrap"
  BY <1>2, FinishFits DEF ResumeFails
<1> QED BY <1>1, <1>2
-----------------------------------------------------------------------------
(* One field of the thread changes.                                        *)
Uncounted(m, th) == [m EXCEPT !.thread[th].nCcalls = @ - 1]
Unguarded(m, th, ef) == [m EXCEPT !.thread[th].errfunc = ef]

Kept(m, p, th) ==
  /\ Alters(m, p, th) /\ p.cs = m.cs /\ p.mode = m.mode
  /\ p.thread[th].stack = m.thread[th].stack /\ p.thread[th].ci = m.thread[th].ci
  /\ p.thread[th].open = m.thread[th].open
  /\ p.thread[th].baseCcalls = m.thread[th].baseCcalls

(* luaD_call takes itself off the count.                                   *)
LEMMA Uncounting ==
  ASSUME NEW m \in Machine, NEW th \in Threads, m.thread[th].nCcalls \in Nat \ {0},
         NEW p, p = Uncounted(m, th)
  PROVE  /\ Kept(m, p, th) /\ p.thread[th].nCcalls = m.thread[th].nCcalls - 1
         /\ p.thread[th].errfunc = m.thread[th].errfunc
<1> DEFINE t == m.thread[th]
           u == [t EXCEPT !.nCcalls = @ - 1]
<1>1. t \in ThreadState /\ m.cs \in Seq(Activation) /\ m.mode \in Modes
  BY DEF Machine
<1>2. p = Made(m, th, u, m.cs, m.mode)
  BY <1>1, Fields, Zenon DEF Made, Uncounted
<1>3. t.nCcalls - 1 \in Nat
  BY <1>1
<1>4. /\ u \in ThreadState /\ u.stack = t.stack /\ u.ci = t.ci /\ u.open = t.open
      /\ u.baseCcalls = t.baseCcalls /\ u.errfunc = t.errfunc /\ u.nCcalls = t.nCcalls - 1
      /\ u.status = t.status
  <2> HIDE DEF t
  <2> QED BY <1>1, <1>3 DEF ThreadState
<1> HIDE DEF u
<1>5. p \in Machine /\ p.thread[th] = u /\ p.cs = m.cs /\ p.mode = m.mode /\ Apart(m, p, th)
  BY <1>1, <1>2, <1>4, MadeIs DEF Apart
<1> QED BY <1>4, <1>5 DEF Kept, Alters

(* luaD_pcall puts the handler back.                                       *)
LEMMA Unguarding ==
  ASSUME NEW m \in Machine, NEW th \in Threads, NEW ef \in Nat, NEW p, p = Unguarded(m, th, ef)
  PROVE  /\ Kept(m, p, th) /\ p.thread[th].nCcalls = m.thread[th].nCcalls
         /\ p.thread[th].errfunc = ef
<1> DEFINE t == m.thread[th]
           u == [t EXCEPT !.errfunc = ef]
<1>1. t \in ThreadState /\ m.cs \in Seq(Activation) /\ m.mode \in Modes
  BY DEF Machine
<1>2. p = Made(m, th, u, m.cs, m.mode)
  BY <1>1, Fields, Zenon DEF Made, Unguarded
<1>4. /\ u \in ThreadState /\ u.stack = t.stack /\ u.ci = t.ci /\ u.open = t.open
      /\ u.baseCcalls = t.baseCcalls /\ u.errfunc = ef /\ u.nCcalls = t.nCcalls
      /\ u.status = t.status
  <2> HIDE DEF t
  <2> QED BY <1>1 DEF ThreadState
<1> HIDE DEF u
<1>5. p \in Machine /\ p.thread[th] = u /\ p.cs = m.cs /\ p.mode = m.mode /\ Apart(m, p, th)
  BY <1>1, <1>2, <1>4, MadeIs DEF Apart
<1> QED BY <1>4, <1>5 DEF Kept, Alters

(* An activation that leaves as it came.                                   *)
LEMMA KeptLeaves ==
  ASSUME NEW m, NEW th, At(m, th), m.cs # <<>>,
         Last(m.cs).kind \in {"call", "errormsg", "pcall"},
         NEW q, Kept(m, q, th),
         q.thread[th].nCcalls
           = IF Last(m.cs).kind = "call" THEN m.thread[th].nCcalls - 1 ELSE m.thread[th].nCcalls,
         q.thread[th].errfunc
           = IF Last(m.cs).kind = "pcall" THEN Last(m.cs).old_errfunc ELSE m.thread[th].errfunc,
         NEW p, p = Leave(q)
  PROVE  Does(m, p, th) /\ p.cs = Front(m.cs) /\ p.mode = m.mode /\ p.thread = q.thread
<1>1. q \in Machine /\ th \in Threads /\ q.cs # <<>> /\ Apart(m, q, th)
  BY TopIs DEF Kept, Alters
<1>2. Alters(q, p, th) /\ p.cs = Front(q.cs) /\ p.mode = q.mode /\ p.thread = q.thread
  BY <1>1, OtherwiseMade
<1>3. /\ p \in Machine /\ Apart(m, p, th) /\ p.cs = Front(m.cs) /\ p.mode = m.mode
      /\ p.thread[th].stack = m.thread[th].stack
      /\ p.thread[th].ci = m.thread[th].ci /\ p.thread[th].open = m.thread[th].open
      /\ p.thread[th].baseCcalls = m.thread[th].baseCcalls
      /\ p.thread[th].nCcalls = q.thread[th].nCcalls
      /\ p.thread[th].errfunc = q.thread[th].errfunc
  BY <1>1, <1>2 DEF Alters, Apart, Kept
<1>4. Does(m, p, th)
  BY <1>3, LeaveStep
<1> QED BY <1>2, <1>3, <1>4

(* The frame of the function that runs, as the actions name it.            *)
LEMMA OwnFrame ==
  ASSUME NEW m, NEW th, At(m, th), m.cs # <<>>, Last(m.cs).kind \in {"execute", "cfun"},
         NEW func, func = Func(m.thread[th])
  PROVE  /\ func \in 2 .. Len(m.thread[th].stack) /\ Len(m.thread[th].stack) \in Nat
         /\ IF Last(m.cs).kind = "execute"
            THEN func + 1 <= Len(m.thread[th].stack) /\ Fits(th, m.thread[th], m.cs, func + 1)
            ELSE Fits(th, m.thread[th], m.cs, func)
<1> DEFINE t == m.thread[th]
<1>1. func = t.ci[Len(t.ci)].func
  BY DEF Func, Last
<1>2. /\ func \in 2 .. Len(t.stack)
      /\ IF Last(m.cs).kind = "execute"
         THEN func + 1 <= Len(t.stack) /\ Fits(th, t, m.cs, func + 1)
         ELSE Fits(th, t, m.cs, func)
  BY <1>1, TopFrame
<1>3. Len(t.stack) \in Nat
  BY TopIs, ThreadFields
<1> QED BY <1>2, <1>3

(* The end of luaD_call.                                                   *)
LEMMA CallLeaves ==
  ASSUME NEW m, NEW th, At(m, th), m.cs # <<>>, Last(m.cs).kind = "call",
         NEW q, q = Resumed(Leave(Uncounted(m, th))),
         NEW p, p = IF q.mode = "run" THEN Cut(q, th, Func(m.thread[th]) + 1) ELSE q
  PROVE  Does(m, p, th) /\ ModeFits(p)
<1>1. PICK q1, q2 : q1 = Uncounted(m, th) /\ q2 = Leave(q1) /\ q = Resumed(q2)
  OBVIOUS
<1>2. /\ m \in Machine /\ th \in Threads /\ m.cs \in Seq(Activation) /\ Stacked(m.cs)
      /\ m.thread[th].nCcalls = CallsIn(m.cs, Len(m.cs))
  BY TopIs
<1>3. m.thread[th].nCcalls \in Nat \ {0}
  <2> DEFINE s == m.cs
             n == Len(s)
  <2>1. n \in Nat \ {0} /\ s[n] = Last(s)
    BY <1>2 DEF Last
  <2> HIDE DEF s, n
  <2>2. CallsIn(s, n) = CallsIn(s, n - 1) + (IF s[n].kind \in {"call", "resume"} THEN 1 ELSE 0)
    BY <2>1, CallsStep
  <2>3. s[n].kind = "call"
    BY <2>1 DEF s
  <2>4. n - 1 \in Nat
    BY <2>1
  <2>5. CallsIn(s, n - 1) \in Nat
    BY <2>4, CallsStep
  <2>6. CallsIn(s, n) \in Nat \ {0}
    BY <2>2, <2>3, <2>5
  <2> QED BY <1>2, <2>6 DEF s, n
<1>4. /\ Kept(m, q1, th) /\ q1.thread[th].nCcalls = m.thread[th].nCcalls - 1
      /\ q1.thread[th].errfunc = m.thread[th].errfunc
  BY <1>1, <1>2, <1>3, Uncounting
<1>5. Does(m, q2, th) /\ q2.cs = Front(m.cs) /\ q2.thread = q1.thread
  BY <1>1, <1>4, KeptLeaves
<1>6. /\ Does(q2, q, th) /\ ModeFits(q) /\ q.cs = q2.cs /\ q.thread = q2.thread
      /\ q.mode = IF q2.cs # <<>> /\ Last(q2.cs).kind = "execute" THEN "run" ELSE "return"
  BY <1>1, <1>5, ResumedStep DEF Does
<1>7. Does(m, q, th)
  BY <1>5, <1>6, DoesMore
<1>8. CASE q.mode # "run"
  BY <1>6, <1>7, <1>8
<1>9. CASE q.mode = "run"
  <2>1. At(q, th) /\ q.cs # <<>> /\ Last(q.cs).kind = "execute"
    BY <1>6, <1>7, <1>9 DEF Does
  <2>2. PICK func : func = Func(m.thread[th])
    OBVIOUS
  <2>3. func = Func(q.thread[th])
    BY <1>4, <1>5, <1>6, <2>2 DEF Kept, Func
  <2>4. /\ func \in 2 .. Len(q.thread[th].stack) /\ Len(q.thread[th].stack) \in Nat
        /\ func + 1 <= Len(q.thread[th].stack) /\ Fits(th, q.thread[th], q.cs, func + 1)
    BY <2>1, <2>3, OwnFrame
  <2>5. func + 1 \in 0 .. Len(q.thread[th].stack)
    BY <2>4
  <2>6. p = Cut(q, th, func + 1)
    BY <1>9, <2>2
  <2>7. Does(q, p, th) /\ p.cs = q.cs /\ p.mode = q.mode
    BY <2>1, <2>4, <2>5, <2>6, CutStep
  <2>8. Goes(p, th) /\ At(p, th)
    BY <1>9, <2>1, <2>7 DEF Goes, Does
  <2> QED BY <1>7, <2>7, <2>8, DoesMore, GoesFits
<1> QED BY <1>8, <1>9

(* The end of luaD_pcall, and of the handler.                              *)
LEMMA PcallLeaves ==
  ASSUME NEW m, NEW th, At(m, th), m.mode = "return", m.cs # <<>>, Last(m.cs).kind = "pcall",
         NEW p, p = Leave(Unguarded(m, th, Last(m.cs).old_errfunc))
  PROVE  Does(m, p, th) /\ ModeFits(p)
<1>1. PICK q, ef : ef = Last(m.cs).old_errfunc /\ q = Unguarded(m, th, ef) /\ p = Leave(q)
  OBVIOUS
<1>2. m \in Machine /\ th \in Threads /\ m.cs \in Seq(Activation) /\ Stacked(m.cs)
  BY TopIs
<1> DEFINE s == m.cs
<1>3. PICK n : n = Len(s) - 1
  OBVIOUS
<1>4. /\ n \in Nat /\ n + 1 = Len(s) /\ s[n + 1] = Last(s) /\ Front(s) \in Seq(Activation)
      /\ Len(Front(s)) = n /\ \A j \in 1 .. n : Front(s)[j] = s[j]
      /\ n # 0 => n \in 1 .. Len(s) /\ <<s[n].kind, s[n + 1].kind>> \in Stands
  <2>1. s # <<>> /\ s \in Seq(Activation) /\ Stacked(s)
    BY <1>2
  <2> HIDE DEF s
  <2> QED BY <1>3, <2>1, StackedUnder
<1>5. ef \in Nat
  <2>1. Last(s) \in Activation
    BY <1>2, <1>4
  <2> HIDE DEF s
  <2> QED BY <1>1, <2>1 DEF Activation, s
<1>6. /\ Kept(m, q, th) /\ q.thread[th].nCcalls = m.thread[th].nCcalls /\ q.thread[th].errfunc = ef
  BY <1>1, <1>2, <1>5, Unguarding
<1>7. Does(m, p, th) /\ p.cs = Front(m.cs) /\ p.mode = "return"
  BY <1>1, <1>6, KeptLeaves
<1>8. ModeFits(p)
  <2>1. CASE n = 0
    <3>1. p.cs = <<>>
      <4>1. p.cs \in Seq(Activation) /\ Len(p.cs) = 0
        BY <1>4, <1>7, <2>1
      <4> QED BY <4>1
    <3> QED BY <1>7, <3>1 DEF ModeFits
  <2>2. CASE n # 0
    <3>1. s[n].kind = "cfun"
      BY <1>4, <2>2 DEF Stands
    <3>2. n \in 1 .. n
      BY <1>4, <2>2
    <3>3. p.cs # <<>> /\ Last(p.cs) = s[n]
      BY <1>4, <1>7, <2>2, <3>2 DEF Last
    <3> QED BY <1>7, <3>1, <3>3 DEF ModeFits
  <2> QED BY <2>1, <2>2
<1> QED BY <1>7, <1>8

(* The handler has returned: ERRRUN is thrown.                             *)
LEMMA HandlerLeaves ==
  ASSUME NEW m, NEW th, At(m, th), m.mode = "return", m.cs # <<>>, Last(m.cs).kind = "errormsg",
         NEW p, p = Doing(Leave(m), "ERRRUN")
  PROVE  Does(m, p, th) /\ ModeFits(p)
<1>1. PICK q : q = Leave(m) /\ p = Doing(q, "ERRRUN")
  OBVIOUS
<1>2. m \in Machine /\ th \in Threads /\ m.cs \in Seq(Activation) /\ Stacked(m.cs)
  BY TopIs
<1>3. Kept(m, m, th)
  BY <1>2 DEF Kept, Alters, Apart
<1>4. Does(m, q, th) /\ q.cs = Front(m.cs) /\ q.mode = m.mode
  BY <1>1, <1>3, KeptLeaves
<1>5. q.cs # <<>>
  <2> DEFINE s == m.cs
  <2>1. PICK n : n = Len(s) - 1
    OBVIOUS
  <2>2. s # <<>> /\ s \in Seq(Activation) /\ Stacked(s)
    BY <1>2
  <2>3. n \in Nat /\ s[n + 1] = Last(s) /\ Len(Front(s)) = n /\ (n = 0 => s[n + 1].kind = "pcall")
    <3> HIDE DEF s
    <3> QED BY <2>1, <2>2, StackedUnder
  <2>4. Len(q.cs) # 0
    BY <1>4, <2>3
  <2> QED BY <2>4
<1>6. "ERRRUN" \in Errors
  BY DEF Errors
<1>7. Does(q, p, th) /\ ModeFits(p)
  BY <1>1, <1>4, <1>5, <1>6, ThrowFits DEF Does
<1> QED BY <1>4, <1>7, DoesMore

(* luaB_pcall and luaB_xpcall.                                             *)
LEMMA ProtectFits ==
  ASSUME NEW m, NEW th, At(m, th), m.cs # <<>>, Last(m.cs).kind = "cfun",
         NEW p, p = IF Len(m.thread[th].stack) = Func(m.thread[th]) THEN Raise(m, th)
                    ELSE luaD_pcall(m, th, Func(m.thread[th]) + 1, 0)
  PROVE  Does(m, p, th) /\ ModeFits(p)
<1>1. CASE p = Raise(m, th)
  BY <1>1, RaiseFits
<1>2. CASE /\ Len(m.thread[th].stack) # Func(m.thread[th])
           /\ p = luaD_pcall(m, th, Func(m.thread[th]) + 1, 0)
  <2>1. PICK func, from : func = Func(m.thread[th]) /\ from = func + 1
    OBVIOUS
  <2>2. /\ func \in 2 .. Len(m.thread[th].stack) /\ Len(m.thread[th].stack) \in Nat
        /\ Fits(th, m.thread[th], m.cs, func)
    BY <2>1, OwnFrame
  <2>3. from \in 1 .. Len(m.thread[th].stack) /\ from - 1 = func /\ 0 \in 0 .. from - 1
    BY <1>2, <2>1, <2>2
  <2>4. p = luaD_pcall(m, th, from, 0)
    BY <1>2, <2>1
  <2>5. Fits(th, m.thread[th], m.cs, from - 1)
    BY <2>2, <2>3
  <2>6. Does(m, p, th) /\ Goes(p, th)
    BY <2>3, <2>4, <2>5, PcallStep
  <2> QED BY <2>6, GoesFits DEF Does
<1> QED BY <1>1, <1>2

(* What is within some slots is within more.                               *)
LEMMA FitsMore ==
  ASSUME NEW t \in ThreadState, NEW s \in Seq(Activation), NEW th, NEW top \in Nat,
         Fits(th, t, s, top)
  PROVE  Fits(th, t, s, top + 1)
<1>1. ASSUME NEW k \in 1 .. Len(t.ci) PROVE Needs(t, k) <= top + 1
  <2>1. t.ci[k].func \in Nat /\ Needs(t, k) <= top
    BY ThreadFields DEF Fits
  <2>2. Needs(t, k) \in Nat
    BY <2>1 DEF Needs
  <2> QED BY <2>1, <2>2
<1>2. ASSUME NEW i \in 1 .. Len(s), s[i].th = th, s[i].kind = "pcall"
      PROVE  s[i].old_top <= (top + 1) + 1
  <2>1. s[i] \in Activation /\ s[i].old_top <= top + 1
    BY <1>2 DEF Fits
  <2>2. s[i].old_top \in Nat
    BY <1>2, <2>1 DEF Activation
  <2> QED BY <2>1, <2>2
<1> QED BY <1>1, <1>2 DEF Fits

(* xpcall puts its handler under the function, out of the way of what      *)
(* runs.                                                                   *)
LEMMA ProtectWithHandler ==
  ASSUME NEW m, NEW th, At(m, th), m.cs # <<>>, Last(m.cs).kind = "cfun",
         NEW func, func = Func(m.thread[th]),
         NEW p, p = luaD_pcall(Push(Cut(m, th, func), th, <<"H", "L">>), th, func + 2, func + 1)
  PROVE  Does(m, p, th) /\ ModeFits(p)
<1>1. /\ func \in 2 .. Len(m.thread[th].stack) /\ Len(m.thread[th].stack) \in Nat
      /\ Fits(th, m.thread[th], m.cs, func)
  BY OwnFrame
<1>2. PICK q1, q2, values : q1 = Cut(m, th, func) /\ values = <<"H", "L">> /\ q2 = Push(q1, th, values)
  OBVIOUS
<1>3. func \in 0 .. Len(m.thread[th].stack) /\ func \in Nat
  BY <1>1
<1>4. /\ Does(m, q1, th) /\ q1.cs = m.cs
      /\ Restacked(m.thread[th], q1.thread[th], SubSeq(m.thread[th].stack, 1, func))
  BY <1>1, <1>2, <1>3, CutStep
<1>5. values \in Seq(Value) /\ Len(values) = 2 /\ values[1] = "H"
  <2>1. "H" \in Value /\ "L" \in Value /\ values = <<"H", "L">>
    BY <1>2 DEF Value
  <2> QED BY ONLY <2>1
<1>6. Len(q1.thread[th].stack) = func
  <2>1. m.thread[th].stack \in Seq(Value)
    BY TopIs DEF ThreadState
  <2> QED BY <1>3, <1>4, <2>1, CutShort DEF Restacked
<1>7. PICK over : over = func + 1
  OBVIOUS
<1>8. /\ Does(q1, q2, th) /\ At(q2, th) /\ q2.cs = q1.cs
      /\ over \in 1 .. Len(q2.thread[th].stack) /\ Fits(th, q2.thread[th], q2.cs, over - 1)
      /\ q2.thread[th].stack[over] = "H"
  <2>1. over = Len(q1.thread[th].stack) + 1 /\ Len(values) >= 1 /\ At(q1, th)
    BY <1>4, <1>5, <1>6, <1>7 DEF Does
  <2>2. q2 = Push(q1, th, values) /\ values \in Seq(Value) /\ values[1] = "H"
    BY <1>2, <1>5
  <2>3. /\ Does(q1, q2, th) /\ At(q2, th) /\ q2.cs = q1.cs
        /\ over \in 1 .. Len(q2.thread[th].stack) /\ Fits(th, q2.thread[th], q2.cs, over - 1)
        /\ q2.thread[th].stack[over] = values[1]
    <3>1. /\ Does(q1, q2, th) /\ At(q2, th) /\ q2.cs = q1.cs
          /\ over \in 1 .. Len(q2.thread[th].stack)
      BY ONLY <2>1, <2>2, FunctionPushed
    <3>2. Fits(th, q2.thread[th], q2.cs, over - 1)
      BY ONLY <2>1, <2>2, FunctionPushed
    <3>3. q2.thread[th].stack[over] = values[1]
      BY ONLY <2>1, <2>2, FunctionPushed
    <3> QED BY <3>1, <3>2, <3>3
  <2> QED BY <2>2, <2>3
<1>9. Fits(th, q2.thread[th], q2.cs, over)
  <2>1. over - 1 \in Nat /\ (over - 1) + 1 = over
    BY <1>3, <1>7
  <2>2. q2.thread[th] \in ThreadState /\ q2.cs \in Seq(Activation)
    BY <1>8, TopIs
  <2>3. Fits(th, q2.thread[th], q2.cs, (over - 1) + 1)
    BY <1>8, <2>1, <2>2, FitsMore
  <2> QED BY <2>1, <2>3
<1>10. Len(q2.thread[th].stack) = func + 2
  <2>1. q1.thread[th].stack \in Seq(Value) /\ At(q1, th)
    BY <1>4, TopIs DEF ThreadState, Does
  <2>2. Restacked(q1.thread[th], q2.thread[th], q1.thread[th].stack \o values)
    BY <1>2, <1>5, <2>1, PushStep
  <2>3. Len(q2.thread[th].stack) = Len(q1.thread[th].stack) + Len(values)
    BY <1>5, <2>1, <2>2, PushedOn DEF Restacked
  <2> QED BY <1>5, <1>6, <2>3
<1>11. PICK from : from = func + 2
  OBVIOUS
<1>12. /\ from \in 1 .. Len(q2.thread[th].stack) /\ over \in 0 .. from - 1 /\ from - 1 = over
  BY <1>3, <1>7, <1>10, <1>11
<1>13. /\ p = luaD_pcall(q2, th, from, over) /\ Fits(th, q2.thread[th], q2.cs, from - 1)
       /\ Last(q2.cs).kind = "cfun"
  BY <1>2, <1>4, <1>7, <1>8, <1>9, <1>11, <1>12
<1>14. Does(q2, p, th) /\ Goes(p, th)
  BY <1>8, <1>12, <1>13, PcallStep
<1>15. Does(m, p, th)
  BY <1>4, <1>8, <1>14, DoesMore
<1> QED BY <1>14, <1>15, GoesFits DEF Does

(* exec_lua and the end of it.                                             *)
LEMMA ExecFits ==
  ASSUME NEW m, At(m, Main), m.cs = <<>>, Len(m.thread[Main].stack) = 1,
         NEW p, p = luaD_pcall(Push(m, Main, <<"L">>), Main, 2, 0)
  PROVE  Does(m, p, Main) /\ ModeFits(p)
<1>1. PICK q, values, func : values = <<"L">> /\ q = Push(m, Main, values) /\ func = 2
  OBVIOUS
<1>2. values \in Seq(Value) /\ Len(values) >= 1 /\ func = Len(m.thread[Main].stack) + 1
  <2>1. "L" \in Value
    BY DEF Value
  <2> QED BY <1>1, <2>1
<1>3. /\ Does(m, q, Main) /\ At(q, Main) /\ q.cs = m.cs
      /\ func \in 1 .. Len(q.thread[Main].stack) /\ Fits(Main, q.thread[Main], q.cs, func - 1)
  <2>1. q = Push(m, Main, values) /\ At(m, Main)
    BY <1>1
  <2>2. /\ Does(m, q, Main) /\ At(q, Main) /\ q.cs = m.cs
        /\ func \in 1 .. Len(q.thread[Main].stack)
    BY ONLY <1>2, <2>1, FunctionPushed
  <2>3. Fits(Main, q.thread[Main], q.cs, func - 1)
    BY ONLY <1>2, <2>1, FunctionPushed
  <2> QED BY <2>2, <2>3
<1>4. 0 \in 0 .. func - 1 /\ p = luaD_pcall(q, Main, func, 0)
  BY <1>1
<1>5. Does(q, p, Main) /\ Goes(p, Main)
  BY <1>3, <1>4, PcallStep
<1>6. Does(m, p, Main)
  BY <1>3, <1>5, DoesMore
<1> QED BY <1>5, <1>6, GoesFits DEF Does

(* exec_lua takes the results off the stack.                               *)
LEMMA ExecEnds ==
  ASSUME NEW m, At(m, Main), m.cs = <<>>, NEW p, p = Doing(Cut(m, Main, 1), "run")
  PROVE  Does(m, p, Main) /\ ModeFits(p)
<1> DEFINE t == m.thread[Main]
<1>1. PICK q : q = Cut(m, Main, 1) /\ p = Doing(q, "run")
  OBVIOUS
<1>2. /\ t \in ThreadState /\ Main \in Threads /\ Accounts(Main, t, m.cs)
      /\ Len(t.ci) = Depth(m.cs, Main, Len(m.cs)) /\ m.cs \in Seq(Activation)
  BY TopIs
<1>3. Len(t.ci) = 1
  <2>1. Len(m.cs) = 0
    OBVIOUS
  <2> QED BY <1>2, <2>1, DepthStep
<1>4. 1 \in 1 .. Len(t.ci) /\ Needs(t, 1) = 1 /\ Len(m.cs) = 0
  BY <1>2, <1>3 DEF Needs, Accounts, LaidOut
<1>5. \A k \in 1 .. Len(t.ci) : k = 1
  BY <1>3
<1>6. Fits(Main, t, m.cs, 1)
  BY <1>4, <1>5 DEF Fits
<1>7. 1 <= Len(t.stack) /\ Len(t.stack) \in Nat
  <2>1. Fits(Main, t, m.cs, Len(t.stack)) /\ Len(t.stack) \in Nat
    BY <1>2, ThreadFields DEF Accounts
  <2> QED BY <1>4, <2>1 DEF Fits
<1>8. 1 \in 0 .. Len(t.stack)
  BY <1>7
<1>9. /\ Does(m, q, Main) /\ q.cs = m.cs
      /\ Restacked(t, q.thread[Main], SubSeq(t.stack, 1, 1))
  BY <1>1, <1>6, <1>8, CutStep
<1>10. Len(q.thread[Main].stack) = 1
  <2>1. t.stack \in Seq(Value)
    BY <1>2 DEF ThreadState
  <2> QED BY <1>8, <1>9, <2>1, CutShort DEF Restacked
<1>11. Does(q, p, Main) /\ p.cs = q.cs /\ p.mode = "run" /\ p.thread = q.thread
  BY <1>1, <1>9, DoingStep DEF Does, Modes
<1>12. Does(m, p, Main)
  BY <1>9, <1>11, DoesMore
<1> QED BY <1>9, <1>10, <1>11, <1>12 DEF ModeFits
-----------------------------------------------------------------------------
(* luaG_errormsg.                                                          *)
Handler(m, th) ==
  [kind |-> "errormsg", th |-> th]

Informed(m, th) ==
  Push(Cut(m, th, Len(m.thread[th].stack) - 1), th,
       <<m.thread[th].stack[m.thread[th].errfunc], "v">>)

(* A thread with a handler is not just being resumed, and the handler is   *)
(* in its place.                                                           *)
LEMMA HandlerThere ==
  ASSUME NEW m, NEW th, At(m, th), m.thread[th].errfunc # 0
  PROVE  m.cs # <<>> /\ Last(m.cs).kind # "resume"
         /\ m.thread[th].stack[m.thread[th].errfunc] = "H"
<1> DEFINE s == m.cs
           t == m.thread[th]
           n == Len(s)
<1>1. /\ s \in Seq(Activation) /\ Stacked(s) /\ OnTop(s, th) /\ Accounts(th, t, s)
      /\ t.errfunc = Nearest(s, th, n)
  BY TopIs
<1>2. t.errfunc # 0 /\ n \in Nat /\ n \in 0 .. Len(s)
  BY <1>1
<1> HIDE DEF s, t, n
<1>3. PICK j \in 1 .. n : s[j].th = th /\ s[j].kind = "pcall" /\ s[j].ef = t.errfunc
  BY <1>1, <1>2, NearestFound
<1>4. t.stack[t.errfunc] = "H"
  BY <1>1, <1>2, <1>3 DEF Accounts, LaidOut, n
<1>5. s # <<>> /\ s[n].th = th /\ Last(s) = s[n] /\ n \in 1 .. Len(s)
  <2>1. s # <<>> /\ n \in 1 .. Len(s)
    BY <1>1, <1>2, <1>3 DEF n
  <2> QED BY <1>1, <2>1 DEF OnTop, n, Last
<1>6. s[n].kind # "resume"
  <2>1. CASE j = n
    BY <1>3, <2>1
  <2>2. CASE j # n
    <3>1. j < n /\ n \in j + 1 .. n /\ j \in 1 .. Len(s)
      BY <1>2, <1>3, <2>2
    <3>2. s[j].th = s[n].th
      BY <1>3, <1>5
    <3> QED BY <1>1, <1>5, <3>1, <3>2 DEF Stacked, InPieces
  <2> QED BY <2>1, <2>2
<1> QED BY <1>4, <1>5, <1>6 DEF s, t

(* The handler is called over what the frames need, or the error is        *)
(* thrown.                                                                 *)
LEMMA MessageFits ==
  ASSUME NEW m, NEW th, At(m, th), m.cs # <<>>,
         Last(m.cs).kind \in {"call", "execute", "cfun", "resume"},
         Fits(th, m.thread[th], m.cs, Len(m.thread[th].stack) - 1),
         NEW p, p = IF m.thread[th].errfunc = 0 THEN Doing(m, "ERRRUN")
                    ELSE luaD_call(Activate(Informed(m, th), Handler(m, th)), th,
                                   Len(m.thread[th].stack), 1)
  PROVE  Does(m, p, th) /\ ModeFits(p)
<1> DEFINE t == m.thread[th]
<1>1. CASE t.errfunc = 0
  BY <1>1, ThrowFits DEF Errors
<1>2. CASE t.errfunc # 0
  <2>1. Last(m.cs).kind # "resume" /\ t.stack[t.errfunc] = "H"
    BY <1>2, HandlerThere
  <2>2. PICK func, q1, q2, q3, a, values :
          /\ func = Len(t.stack) /\ values = <<"H", "v">> /\ a = Handler(m, th)
          /\ q1 = Cut(m, th, func - 1) /\ q2 = Push(q1, th, values) /\ q3 = Activate(q2, a)
          /\ p = luaD_call(q3, th, func, 1)
    <3>1. p = luaD_call(Activate(Push(Cut(m, th, Len(t.stack) - 1), th, <<"H", "v">>),
                                 Handler(m, th)), th, Len(t.stack), 1)
      BY <1>2, <2>1 DEF Informed
    <3> QED BY <3>1, Zenon
  <2>3. /\ m \in Machine /\ th \in Threads /\ t \in ThreadState /\ Len(t.stack) \in Nat
        /\ Accounts(th, t, m.cs) /\ t.stack \in Seq(Value)
    BY TopIs, ThreadFields DEF ThreadState
  <2>4. func - 1 \in 0 .. Len(t.stack) /\ func \in Nat /\ func >= 1
    <3>1. 1 \in 1 .. Len(t.ci) /\ Needs(t, 1) = 1
      <4>1. Len(t.ci) \in Nat
        BY <2>3, ThreadFields
      <4> HIDE DEF t
      <4> QED BY <2>3, <4>1 DEF Accounts, LaidOut, Needs
    <3>2. 1 <= Len(t.stack)
      BY <2>3, <3>1 DEF Accounts, Fits
    <3> HIDE DEF t
    <3> QED BY <2>2, <2>3, <3>2
  <2>5. /\ Does(m, q1, th) /\ q1.cs = m.cs
        /\ Restacked(t, q1.thread[th], SubSeq(t.stack, 1, func - 1))
    <3>1. Fits(th, t, m.cs, func - 1) /\ q1 = Cut(m, th, func - 1)
      BY <2>2
    <3> QED BY <2>4, <3>1, CutStep
  <2>6. Len(q1.thread[th].stack) = func - 1
    BY <2>3, <2>4, <2>5, CutShort DEF Restacked
  <2>7. values \in Seq(Value) /\ Len(values) >= 1
    <3>1. "H" \in Value /\ "v" \in Value /\ values = <<"H", "v">>
      BY <2>2 DEF Value
    <3> QED BY ONLY <3>1
  <2>8. /\ Does(q1, q2, th) /\ At(q2, th) /\ q2.cs = m.cs
        /\ func \in 1 .. Len(q2.thread[th].stack)
        /\ Fits(th, q2.thread[th], q2.cs, func - 1)
    <3>1. At(q1, th) /\ q2 = Push(q1, th, values) /\ func = Len(q1.thread[th].stack) + 1
      BY <2>2, <2>4, <2>5, <2>6 DEF Does
    <3>2. Does(q1, q2, th) /\ At(q2, th) /\ q2.cs = q1.cs /\ func \in 1 .. Len(q2.thread[th].stack)
      BY ONLY <2>7, <3>1, FunctionPushed
    <3>3. Fits(th, q2.thread[th], q2.cs, func - 1)
      BY ONLY <2>7, <3>1, FunctionPushed
    <3> QED BY <2>5, <3>2, <3>3
  <2>9. a \in Activation /\ a.kind = "errormsg" /\ a.th = th
    BY <2>2, <2>3 DEF Activation, Handler
  <2>10. Alters(q2, q3, th) /\ q3.cs = Append(q2.cs, a) /\ q3.thread = q2.thread
    <3>1. q2 \in Machine /\ q3 = Activate(q2, a)
      BY <2>2, <2>8, TopIs
    <3> QED BY <2>3, <2>9, <3>1, OtherwiseMade
  <2>11. Does(q2, q3, th) /\ Fits(th, q3.thread[th], q3.cs, func - 1)
    <3>1. <<Last(q2.cs).kind, a.kind>> \in Stands /\ q2.cs # <<>>
      BY <2>1, <2>8, <2>9 DEF Stands
    <3>2. func - 1 \in 0 .. Len(q2.thread[th].stack)
      BY <2>4, <2>8
    <3>3. Activates(q2, q3, th, a, func - 1)
      BY <2>8, <2>9, <2>10, <3>1, <3>2 DEF Activates, Alters
    <3> QED BY <2>8, <3>3, ActivateStep
  <2>12. At(q3, th) /\ q3.cs # <<>> /\ Last(q3.cs).kind = "errormsg"
    <3>1. q2.cs \in Seq(Activation)
      BY <2>8, TopIs
    <3> QED BY <2>9, <2>10, <2>11, <3>1, LastAppended DEF Does
  <2>13. Does(q3, p, th) /\ Goes(p, th)
    <3>1. p = luaD_call(q3, th, func, 1) /\ 1 \in Int
      BY <2>2
    <3>2. func \in 1 .. Len(q3.thread[th].stack)
      BY <2>8, <2>10
    <3> QED BY <2>11, <2>12, <3>1, <3>2, CallStep
  <2>14. Does(m, p, th)
    BY <2>5, <2>8, <2>11, <2>13, DoesMore
  <2> QED BY <2>13, <2>14, GoesFits DEF Does
<1> QED BY <1>1, <1>2

(* OP_CLOSURE.                                                             *)
Opened(m, th) == [m EXCEPT !.thread[th].open = @ \union {Func(m.thread[th]) + 1}]

Opens(m, p, th) ==
  /\ Alters(m, p, th) /\ p.cs = m.cs /\ p.mode = m.mode
  /\ p.thread[th].stack = m.thread[th].stack /\ p.thread[th].ci = m.thread[th].ci
  /\ p.thread[th].open = m.thread[th].open \union {Func(m.thread[th]) + 1}
  /\ p.thread[th].nCcalls = m.thread[th].nCcalls
  /\ p.thread[th].baseCcalls = m.thread[th].baseCcalls
  /\ p.thread[th].errfunc = m.thread[th].errfunc

(* Only the open upvalues change.                                          *)
LEMMA Opening ==
  ASSUME NEW m \in Machine, NEW th \in Threads, Func(m.thread[th]) \in Nat,
         NEW p, p = Opened(m, th)
  PROVE  Opens(m, p, th)
<1> DEFINE t == m.thread[th]
           u == [t EXCEPT !.open = @ \union {Func(t) + 1}]
<1>1. t \in ThreadState /\ m.cs \in Seq(Activation) /\ m.mode \in Modes
  BY DEF Machine
<1>2. p = Made(m, th, u, m.cs, m.mode)
  BY <1>1, Fields, Zenon DEF Made, Opened
<1>3. {Func(t) + 1} \subseteq Nat
  OBVIOUS
<1>4. /\ u \in ThreadState /\ u.stack = t.stack /\ u.ci = t.ci
      /\ u.open = t.open \union {Func(t) + 1}
      /\ u.baseCcalls = t.baseCcalls /\ u.errfunc = t.errfunc /\ u.nCcalls = t.nCcalls
      /\ u.status = t.status
  <2> HIDE DEF t
  <2> QED BY <1>1, <1>3 DEF ThreadState
<1> HIDE DEF u
<1>5. p \in Machine /\ p.thread[th] = u /\ p.cs = m.cs /\ p.mode = m.mode /\ Apart(m, p, th)
  BY <1>1, <1>2, <1>4, MadeIs DEF Apart
<1> QED BY <1>4, <1>5 DEF Opens, Alters

(* The upvalue is the register of the function that runs.                  *)
LEMMA CaptureFits ==
  ASSUME NEW m, NEW th, At(m, th), m.mode = "run", m.cs # <<>>, Last(m.cs).kind = "execute",
         NEW p, p = Opened(m, th)
  PROVE  Does(m, p, th) /\ ModeFits(p)
<1> DEFINE s == m.cs
           t == m.thread[th]
           u == p.thread[th]
           n == Len(s)
           c == Len(t.ci)
           top == Len(t.stack)
<1>1. /\ m \in Machine /\ th \in Threads /\ s \in Seq(Activation) /\ Stacked(s) /\ OnTop(s, th)
      /\ t \in ThreadState /\ t.status = "0" /\ Accounts(th, t, s)
      /\ t.nCcalls = CallsIn(s, n) /\ t.errfunc = Nearest(s, th, n) /\ c = Depth(s, th, n)
  BY TopIs
<1>2. n \in Nat /\ c \in Nat /\ top \in Nat
  BY <1>1, ThreadFields
<1>3. PICK func : func = Func(t)
  OBVIOUS
<1>4. func \in 2 .. top /\ func \in Nat /\ c >= 2 /\ t.ci[c].func = func /\ RunsLua(t, c)
  <2>1. func = t.ci[c].func
    BY <1>3 DEF Func, Last
  <2>2. /\ c >= 2 /\ func \in 2 .. top /\ RunsLua(t, c) <=> Last(m.cs).kind = "execute"
    BY <2>1, TopFrame
  <2> QED BY <2>1, <2>2
<1>5. Opens(m, p, th)
  BY <1>1, <1>3, <1>4, Opening
<1>6. /\ p \in Machine /\ Apart(m, p, th) /\ p.cs = s /\ p.mode = "run"
      /\ u.stack = t.stack /\ u.ci = t.ci /\ u.open = t.open \union {func + 1}
      /\ u.nCcalls = t.nCcalls /\ u.baseCcalls = t.baseCcalls /\ u.errfunc = t.errfunc
      /\ u.status = t.status
  BY <1>3, <1>5 DEF Opens, Alters, Apart
<1> HIDE DEF s, t, u
<1>7. Keeps(th, t, u, s, n, c, top)
  <2>1. Fits(th, t, s, top)
    BY <1>1 DEF Accounts
  <2>2. /\ \A k \in 1 .. c : u.ci[k] = t.ci[k] /\ Needs(t, k) <= top
        /\ \A i \in 1 .. n : s[i].th = th /\ s[i].kind = "pcall" => s[i].old_top <= top + 1
    BY <1>6, <2>1 DEF Fits
  <2>3. /\ Depth(s, th, n) <= c /\ c <= Len(t.ci) /\ c <= Len(u.ci) /\ top <= Len(u.stack)
    BY <1>1, <1>2, <1>6
  <2>4. \A j \in 1 .. top : u.stack[j] = t.stack[j]
    BY <1>6
  <2> QED BY <1>1, <1>6, <2>2, <2>3, <2>4 DEF Keeps
<1>8. Captured(u)
  <2>1. ASSUME NEW i \in u.open
        PROVE  \E k \in 2 .. Len(u.ci) : u.ci[k].func = i - 1 /\ RunsLua(u, k)
    <3>1. CASE i \in t.open
      <4>1. PICK k \in 2 .. Len(t.ci) : t.ci[k].func = i - 1 /\ RunsLua(t, k)
        BY <1>1, <3>1 DEF Accounts, Captured
      <4> QED BY <1>6, <4>1 DEF RunsLua
    <3>2. CASE i = func + 1
      <4>1. c \in 2 .. Len(u.ci) /\ u.ci[c].func = i - 1 /\ RunsLua(u, c)
        <5>1. i - 1 = func
          BY <1>4, <3>2
        <5>2. c \in 2 .. c
          BY <1>2, <1>4
        <5> QED BY <1>4, <1>6, <5>1, <5>2 DEF RunsLua
      <4> QED BY <4>1
    <3> QED BY <1>6, <3>1, <3>2
  <2> QED BY <2>1 DEF Captured
<1>9. Leaves(th, u, s, n, c, top)
  <2>1. LeavesOnTop(th, s, n)
    <3>1. n = 0 <=> s = <<>>
      BY <1>1
    <3> QED BY <1>1, <1>2, <3>1 DEF LeavesOnTop, OnTop
  <2>2. n # n + 1 /\ Len(u.ci) = c /\ Len(u.ci) <= c + 1 /\ \A k \in c + 1 .. c : FALSE
    BY <1>2, <1>6
  <2>3. LeavesFrames(th, u, s, n, c, top)
    BY <1>1, <1>8, <2>2 DEF LeavesFrames
  <2> QED BY <1>1, <1>6, <2>1, <2>2, <2>3 DEF Leaves
<1>10. n \in 0 .. Len(s) /\ n <= Len(s) /\ \A j \in n + 1 .. Len(s) : FALSE
  BY <1>2
<1>11. Does(m, p, th)
  <2>1. /\ Keeps(th, m.thread[th], p.thread[th], m.cs, n, c, top)
        /\ Leaves(th, p.thread[th], p.cs, n, c, top) /\ Stacked(p.cs)
        /\ n \in 0 .. Len(m.cs) /\ n <= Len(p.cs)
    BY <1>1, <1>6, <1>7, <1>9, <1>10 DEF s, t, u
  <2>2. /\ \A j \in 1 .. n : p.cs[j] = m.cs[j]
        /\ \A j \in n + 1 .. Len(m.cs) : m.cs[j].th = th
    BY <1>6, <1>10 DEF s
  <2> QED BY <1>2, <1>6, <2>1, <2>2, StepDoes
<1>12. Goes(p, th)
  BY <1>6 DEF Goes, s
<1> QED BY <1>11, <1>12, GoesFits DEF Does
-----------------------------------------------------------------------------
(* luaD_throw: the nearest luaD_rawrunprotected, and what is over it.      *)
CatchersOf(s) == {i \in DOMAIN s : s[i].kind \in {"pcall", "resume"}}

(* There is one, and all over it belongs to its thread.                    *)
LEMMA CatcherIs ==
  ASSUME NEW s \in Seq(Activation), Stacked(s), s # <<>>, NEW k, k = Max(CatchersOf(s))
  PROVE  /\ k \in 1 .. Len(s) /\ s[k].kind \in {"pcall", "resume"}
         /\ \A j \in k + 1 .. Len(s) : s[j].kind \notin {"pcall", "resume"} /\ s[j].th = s[k].th
<1> DEFINE S == CatchersOf(s)
<1>1. Len(s) \in Nat /\ 1 \in 1 .. Len(s) /\ DOMAIN s = 1 .. Len(s)
  OBVIOUS
<1>2. S \subseteq 1 .. Len(s) /\ 1 \in S
  BY <1>1 DEF Stacked, Founded, CatchersOf
<1>3. k \in S /\ \A x \in S : x <= k
  <2> HIDE DEF S
  <2>1. S # {} /\ k = Max(S)
    BY <1>2 DEF S
  <2> QED BY <1>1, <1>2, <2>1, MaxExists
<1>4. k \in 1 .. Len(s) /\ s[k].kind \in {"pcall", "resume"}
  BY <1>2, <1>3 DEF CatchersOf
<1>5. ASSUME NEW j \in k + 1 .. Len(s) PROVE s[j].kind \notin {"pcall", "resume"}
  <2>1. j \in 1 .. Len(s) /\ ~ (j <= k)
    BY <1>1, <1>4
  <2>2. j \notin S
    BY <1>3, <2>1
  <2> QED BY <1>1, <2>1, <2>2 DEF CatchersOf
<1>6. ASSUME NEW j \in k + 1 .. Len(s) PROVE s[j].th = s[k].th
  <2>1. j \in 1 .. Len(s) /\ k < j
    BY <1>1, <1>4
  <2>2. \A i \in k + 1 .. j : i \in k + 1 .. Len(s)
    BY <1>1, <1>4
  <2>3. \A i \in k + 1 .. j : s[i].kind # "resume"
    BY <1>5, <2>2
  <2>4. s[k].th = s[j].th
    BY <1>4, <2>1, <2>3 DEF Stacked, InPieces
  <2> QED BY <2>4
<1> QED BY <1>4, <1>5, <1>6

(* Protected calls of a thread have begun one over the other.              *)
LEMMA ProtectedInOrder ==
  ASSUME NEW s \in Seq(Activation), Stacked(s), NEW th, NEW t \in ThreadState,
         t.status = "0", Accounts(th, t, s),
         NEW i \in 1 .. Len(s), NEW k \in 1 .. Len(s), i < k,
         s[i].th = th, s[i].kind = "pcall", s[k].th = th, s[k].kind = "pcall"
  PROVE  s[i].old_top <= s[k].old_top
<1> DEFINE d == Depth(s, th, k)
<1>1. Len(s) \in Nat /\ Len(t.ci) \in Nat
  BY ThreadFields
<1>2. k - 1 \in 1 .. Len(s) /\ s[k - 1].kind = "cfun" /\ s[k - 1].th = th
  <2>1. k - 1 \in 1 .. Len(s) - 1 /\ (k - 1) + 1 = k /\ k - 1 \in 1 .. Len(s) /\ k - 1 < k
    BY <1>1
  <2>2. <<s[k - 1].kind, s[k].kind>> \in Stands
    BY <2>1 DEF Stacked, StandsWell
  <2>3. \A j \in (k - 1) + 1 .. k : j = k
    BY <2>1
  <2>4. s[k - 1].th = s[k].th
    BY <2>1, <2>3 DEF Stacked, InPieces
  <2> QED BY <2>1, <2>2, <2>4 DEF Stands
<1>3. i <= k - 2 /\ k - 2 \in 0 .. Len(s) /\ (k - 1) - 1 = k - 2 /\ i \in 0 .. k - 2
  <2>1. i # k - 1
    BY <1>2
  <2> QED BY <1>1, <2>1
<1>4. d = Depth(s, th, k - 2) + 1 /\ Depth(s, th, k - 2) \in Nat
  <2>1. d = Depth(s, th, k - 1) + 0
    <3>1. Size(s[k]) = 0
      BY DEF Size
    <3> QED BY <3>1, DepthLast
  <2>2. Depth(s, th, k - 1) = Depth(s, th, k - 2) + 1
    <3>1. Size(s[k - 1]) = 1
      BY <1>2 DEF Size
    <3>2. Depth(s, th, k - 1) = Depth(s, th, (k - 1) - 1) + Size(s[k - 1])
      BY <1>2, DepthLast
    <3> QED BY <1>3, <3>1, <3>2
  <2>3. Depth(s, th, k - 2) \in Nat
    BY <1>3, DepthStep
  <2> QED BY <2>1, <2>2, <2>3
<1>5. Depth(s, th, i) <= Depth(s, th, k - 2)
  BY <1>3, DepthGrows
<1>6. d <= Len(t.ci)
  <2>1. Len(t.ci) = Depth(s, th, Len(s)) /\ Len(s) \in 0 .. Len(s) /\ k \in 0 .. Len(s)
    BY <1>1 DEF Accounts, Framed
  <2> QED BY <2>1, DepthGrows
<1>7. s[i].old_ci = Depth(s, th, i) /\ s[k].old_ci = d
  BY DEF Accounts, Framed
<1>8. Depth(s, th, i) \in Nat /\ d \in Nat
  <2>1. i \in 0 .. Len(s)
    BY <1>1
  <2>2. Depth(s, th, i) \in Nat
    BY <2>1, DepthStep
  <2> HIDE DEF d
  <2>3. d \in Nat
    BY <1>4
  <2> QED BY <2>2, <2>3
<1> HIDE DEF d
<1>9. d \in 1 .. Len(t.ci) /\ ~ (d <= s[i].old_ci) /\ d <= s[k].old_ci
  <2>1. \A x, y, l \in Nat : x <= y /\ y + 1 <= l => y + 1 \in 1 .. l /\ ~ (y + 1 <= x)
    OBVIOUS
  <2>2. Depth(s, th, k - 2) + 1 <= Len(t.ci)
    BY <1>4, <1>6
  <2>3. /\ Depth(s, th, k - 2) + 1 \in 1 .. Len(t.ci)
        /\ ~ (Depth(s, th, k - 2) + 1 <= Depth(s, th, i))
    BY <1>1, <1>4, <1>5, <1>8, <2>1, <2>2
  <2> QED BY <1>4, <1>7, <1>8, <2>3
<1>10. s[i].old_top <= t.ci[d].func /\ Needs(t, d) < s[k].old_top
  BY <1>9 DEF Accounts, LaidOut
<1>11. /\ s[i].old_top \in Nat /\ s[k].old_top \in Nat /\ t.ci[d].func \in Nat
       /\ Needs(t, d) \in Nat /\ t.ci[d].func <= Needs(t, d)
  <2>1. s[i] \in Activation /\ s[k] \in Activation
    OBVIOUS
  <2>2. t.ci[d].func \in Nat
    BY <1>9, ThreadFields
  <2>3. s[i].old_top \in Nat /\ s[k].old_top \in Nat
    BY <2>1 DEF Activation
  <2> QED BY <2>2, <2>3 DEF Needs
<1> QED BY <1>10, <1>11

(* What luaD_pcall puts back after an error.                               *)
PutBack(t, u, a) ==
  /\ u \in ThreadState /\ u.status = t.status /\ u.baseCcalls = t.baseCcalls
  /\ u.stack \in Seq(Value) /\ Len(u.stack) = a.old_top
  /\ \A j \in 1 .. a.old_top - 1 : u.stack[j] = t.stack[j]
  /\ Len(u.ci) = a.old_ci /\ \A k \in 1 .. a.old_ci : u.ci[k] = t.ci[k]
  /\ u.open = {i \in t.open : i < a.old_top}
  /\ u.nCcalls = a.oldnCcalls /\ u.errfunc = a.old_errfunc

(* restore_stack_limit changes only size_ci.                               *)
LEMMA LimitRestored ==
  ASSUME NEW t \in ThreadState, NEW u, u = restore_stack_limit(t)
  PROVE  /\ u \in ThreadState /\ u.status = t.status /\ u.baseCcalls = t.baseCcalls
         /\ u.stack = t.stack /\ u.ci = t.ci /\ u.open = t.open
         /\ u.nCcalls = t.nCcalls /\ u.errfunc = t.errfunc
  BY LimitsAssumption DEF restore_stack_limit, ThreadState

(* Restored puts back the frames, the slots, the count and the handler.    *)
LEMMA PuttingBack ==
  ASSUME NEW t \in ThreadState, NEW a \in Activation, a.kind = "pcall",
         a.old_top - 1 \in 0 .. Len(t.stack), a.old_ci \in 0 .. Len(t.ci),
         NEW u, u = Restored(t, a)
  PROVE  PutBack(t, u, a)
<1>1. /\ a.old_top \in Nat /\ a.old_ci \in Nat /\ a.oldnCcalls \in Nat /\ a.old_errfunc \in Nat
  BY DEF Activation
<1>2. /\ t.stack \in Seq(Value) /\ t.ci \in Seq(Frame) /\ t.open \subseteq Nat
  BY DEF ThreadState
<1>3. PICK low, message : low = SubSeq(t.stack, 1, a.old_top - 1) /\ message = <<"v">>
  OBVIOUS
<1>4. low \in Seq(Value) /\ Len(low) = a.old_top - 1 /\ Prefix(t.stack, low, a.old_top - 1)
  <2>1. PICK stack, top : stack = t.stack /\ top = a.old_top - 1
    OBVIOUS
  <2>2. stack \in Seq(Value) /\ top \in 0 .. Len(stack) /\ low = SubSeq(stack, 1, top)
    BY <1>2, <1>3, <2>1
  <2>3. low \in Seq(Value) /\ Len(low) = top /\ Prefix(stack, low, top)
    BY ONLY <2>2, CutShort
  <2> QED BY <2>1, <2>3
<1>5. message \in Seq(Value) /\ Len(message) = 1
  <2>1. "v" \in Value /\ message = <<"v">>
    BY <1>3 DEF Value
  <2> QED BY ONLY <2>1
<1>6. PICK st : st = low \o message
  OBVIOUS
<1>7. st \in Seq(Value) /\ Len(st) = Len(low) + Len(message) /\ Prefix(low, st, Len(low))
  BY <1>4, <1>5, <1>6, PushedOn
<1>8. Len(st) = a.old_top /\ \A j \in 1 .. a.old_top - 1 : st[j] = t.stack[j]
  BY <1>1, <1>4, <1>5, <1>7 DEF Prefix
<1>9. PICK frames : frames = SubSeq(t.ci, 1, a.old_ci)
  OBVIOUS
<1>10. frames \in Seq(Frame) /\ Len(frames) = a.old_ci /\ \A k \in 1 .. a.old_ci : frames[k] = t.ci[k]
  BY <1>1, <1>2, <1>9, SubSeqProperties
<1>11. PICK under : under = {i \in t.open : i < a.old_top}
  OBVIOUS
<1>12. under \in SUBSET Nat
  BY <1>2, <1>11
<1>13. PICK v : v = [t EXCEPT !.open = under, !.stack = st, !.nCcalls = a.oldnCcalls,
                              !.ci = frames, !.errfunc = a.old_errfunc]
  OBVIOUS
<1>14. /\ v \in ThreadState /\ v.status = t.status /\ v.baseCcalls = t.baseCcalls
       /\ v.stack = st /\ v.ci = frames /\ v.open = under
       /\ v.nCcalls = a.oldnCcalls /\ v.errfunc = a.old_errfunc
  BY <1>1, <1>7, <1>10, <1>12, <1>13 DEF ThreadState
<1>15. u = restore_stack_limit(v)
  BY <1>3, <1>6, <1>9, <1>11, <1>13, Zenon DEF Restored
<1>16. /\ u \in ThreadState /\ u.status = v.status /\ u.baseCcalls = v.baseCcalls
       /\ u.stack = v.stack /\ u.ci = v.ci /\ u.open = v.open
       /\ u.nCcalls = v.nCcalls /\ u.errfunc = v.errfunc
  BY <1>14, <1>15, LimitRestored
<1> QED BY <1>7, <1>8, <1>10, <1>11, <1>14, <1>16 DEF PutBack

CaughtAt(m) == Max(CatchersOf(m.cs))

Recovered(m, k) ==
  Doing([[m EXCEPT !.cs = SubSeq(@, 1, k - 1)]
           EXCEPT !.thread[m.cs[k].th] = Restored(@, m.cs[k])], "return")

(* The thread the error is caught in is the only one that changes.         *)
LEMMA RecoveredIs ==
  ASSUME NEW m \in Machine, NEW k \in 1 .. Len(m.cs), NEW th, th = m.cs[k].th, th \in Threads,
         NEW u \in ThreadState, u = Restored(m.thread[th], m.cs[k]),
         u.status = m.thread[th].status, NEW p, p = Recovered(m, k)
  PROVE  /\ Alters(m, p, th) /\ p.thread[th] = u /\ p.mode = "return"
         /\ p.cs = SubSeq(m.cs, 1, k - 1) /\ Len(p.cs) = k - 1 /\ \A j \in 1 .. k - 1 : p.cs[j] = m.cs[j]
<1> DEFINE s == SubSeq(m.cs, 1, k - 1)
<1>1. m.cs \in Seq(Activation) /\ m.mode \in Modes /\ "return" \in Modes
  BY DEF Machine, Modes
<1>2. s \in Seq(Activation) /\ Len(s) = k - 1 /\ \A j \in 1 .. k - 1 : s[j] = m.cs[j]
  <2>1. k - 1 \in 0 .. Len(m.cs)
    BY <1>1
  <2> QED BY <1>1, <2>1, SubSeqProperties
<1>3. PICK q : q = [m EXCEPT !.cs = s]
  OBVIOUS
<1> HIDE DEF s
<1>4. q \in Machine /\ q.cs = s /\ q.thread = m.thread /\ q.mode = m.mode
  BY <1>2, <1>3, CsMade DEF Alters
<1>5. PICK q2 : q2 = [q EXCEPT !.thread[th] = Restored(@, m.cs[k])]
  OBVIOUS
<1>6. q2 = Made(q, th, u, q.cs, q.mode)
  <2>1. q2 = [q EXCEPT !.thread = [q.thread EXCEPT ![th] = Restored(q.thread[th], m.cs[k])]]
    BY <1>5
  <2>2. Restored(q.thread[th], m.cs[k]) = u
    BY <1>4
  <2>3. q2 = [thread |-> [q.thread EXCEPT ![th] = u], cs |-> q.cs, mode |-> q.mode]
    <3>1. q \in Machine /\ q2 = [q EXCEPT !.thread = [q.thread EXCEPT ![th] = u]]
      BY <1>4, <2>1, <2>2
    <3> QED BY ONLY <3>1, Fields
  <2> QED BY ONLY <2>3 DEF Made
<1>7. /\ q2 \in Machine /\ q2.thread[th] = u /\ q2.cs = s
      /\ \A o \in Threads \ {th} : q2.thread[o] = m.thread[o]
  <2>1. q.cs \in Seq(Activation) /\ q.mode \in Modes
    BY <1>1, <1>2, <1>4
  <2>2. /\ q2 \in Machine /\ q2.thread[th] = u /\ q2.cs = q.cs
        /\ \A o \in Threads \ {th} : q2.thread[o] = q.thread[o]
    <3>1. q \in Machine /\ th \in Threads /\ u \in ThreadState
      BY <1>4
    <3> QED BY ONLY <1>6, <2>1, <3>1, MadeIs
  <2> QED BY <1>4, <2>2
<1>8. p = Doing(q2, "return")
  BY <1>3, <1>5 DEF Recovered, s
<1>9. Alters(q2, p, th) /\ p.cs = s /\ p.mode = "return" /\ p.thread = q2.thread
  BY <1>1, <1>7, <1>8, DoingMade
<1>10. Alters(m, p, th) /\ p.thread[th] = u
  BY <1>7, <1>9 DEF Alters, Apart
<1> QED BY <1>2, <1>9, <1>10 DEF s

(* After an error that pcall or xpcall catches the accounts are true       *)
(* again.                                                                  *)
LEMMA CatchFits ==
  ASSUME NEW m, NEW th, At(m, th), m.cs # <<>>,
         NEW k, k = CaughtAt(m), m.cs[k].kind = "pcall", NEW p, p = Recovered(m, k)
  PROVE  m.cs[k].th = th /\ Does(m, p, th) /\ ModeFits(p)
<1> DEFINE s == m.cs
           t == m.thread[th]
           a == s[k]
           u == p.thread[th]
           r == p.cs
<1>1. /\ m \in Machine /\ th \in Threads /\ s \in Seq(Activation) /\ Stacked(s) /\ OnTop(s, th)
      /\ t \in ThreadState /\ t.status = "0" /\ Accounts(th, t, s)
  BY TopIs
<1>2. /\ k \in 1 .. Len(s) /\ \A j \in k + 1 .. Len(s) : s[j].th = a.th
      /\ a \in Activation
  <2>1. s # <<>> /\ k = Max(CatchersOf(s))
    BY DEF CaughtAt
  <2> HIDE DEF s
  <2>2. k \in 1 .. Len(s) /\ \A j \in k + 1 .. Len(s) : s[j].th = s[k].th
    BY <1>1, <2>1, CatcherIs
  <2> QED BY <1>1, <2>2
<1>3. a.th = th /\ a.kind = "pcall"
  <2>1. s[Len(s)].th = th
    BY <1>1 DEF OnTop
  <2>2. CASE k = Len(s)
    BY <2>1, <2>2
  <2>3. CASE k # Len(s)
    <3>1. Len(s) \in k + 1 .. Len(s)
      BY <1>1, <1>2, <2>3
    <3> QED BY <1>2, <2>1, <3>1
  <2> QED BY <2>2, <2>3
<1>4. /\ a.old_top \in Nat /\ a.old_ci \in Nat /\ a.oldnCcalls \in Nat /\ a.old_errfunc \in Nat
      /\ Len(t.ci) \in Nat /\ Len(t.stack) \in Nat /\ Len(s) \in Nat /\ k \in Nat
  <2>1. a.old_top \in Nat /\ a.old_ci \in Nat /\ a.oldnCcalls \in Nat /\ a.old_errfunc \in Nat
    <3> HIDE DEF a
    <3> QED BY <1>2, <1>3 DEF Activation
  <2>2. Len(t.ci) \in Nat /\ Len(t.stack) \in Nat
    BY <1>1, ThreadFields
  <2> QED BY <1>1, <1>2, <2>1, <2>2
<1>5. PICK n, c, top : n = k - 1 /\ c = a.old_ci /\ top = a.old_top - 1
  OBVIOUS
<1>6. /\ n \in Nat /\ n + 1 = k /\ n \in 0 .. Len(s) /\ n + 1 \in 1 .. Len(s) /\ (n + 1) - 1 = n
  BY <1>2, <1>4, <1>5
<1>7. /\ c = Depth(s, th, k) /\ c = Depth(s, th, n) /\ c <= Len(t.ci)
  <2>1. c = Depth(s, th, k)
    BY <1>1, <1>2, <1>3, <1>5 DEF Accounts, Framed
  <2>2. Depth(s, th, k) = Depth(s, th, n)
    <3>1. Size(a) = 0
      BY <1>3 DEF Size
    <3>2. Depth(s, th, k) = Depth(s, th, k - 1) + 0
      BY <1>1, <1>2, <3>1, DepthLast
    <3>3. Depth(s, th, n) \in Nat
      BY <1>1, <1>6, DepthStep
    <3> QED BY <1>5, <3>2, <3>3
  <2>3. Len(t.ci) = Depth(s, th, Len(s)) /\ Len(s) \in 0 .. Len(s) /\ k \in 0 .. Len(s)
    BY <1>1, <1>2, <1>4 DEF Accounts, Framed
  <2>4. Depth(s, th, k) <= Depth(s, th, Len(s))
    BY <1>1, <2>3, DepthGrows
  <2> QED BY <2>1, <2>2, <2>3, <2>4
<1>8. /\ \A j \in 1 .. Len(t.ci) : IF j <= c THEN Needs(t, j) < a.old_top
                                              ELSE a.old_top <= t.ci[j].func
      /\ a.old_top <= Len(t.stack) + 1
  BY <1>1, <1>2, <1>3, <1>5 DEF Accounts, LaidOut, Fits
<1>9. c >= 1 /\ top \in Nat /\ top + 1 = a.old_top /\ top \in 0 .. Len(t.stack)
  <2>1. c >= 1
    <3>1. Depth(s, th, n) \in Nat \ {0}
      BY <1>1, <1>6, DepthStep
    <3> QED BY <1>7, <3>1
  <2>2. 1 \in 1 .. Len(t.ci) /\ Needs(t, 1) = 1
    BY <1>1, <1>4 DEF Accounts, LaidOut, Needs
  <2>3. 1 <= c
    BY <1>4, <1>5, <2>1
  <2>4. 1 < a.old_top
    BY <1>8, <2>2, <2>3
  <2>5. a.old_top <= Len(t.stack) + 1
    BY <1>8
  <2> HIDE DEF a, t
  <2> QED BY <1>4, <1>5, <2>1, <2>4, <2>5
<1>10. PICK v : v = Restored(t, a)
  OBVIOUS
<1>11. PutBack(t, v, a)
  <2>1. a.old_top - 1 \in 0 .. Len(t.stack) /\ a.old_ci \in 0 .. Len(t.ci)
    BY <1>4, <1>5, <1>7, <1>9
  <2> HIDE DEF a, t
  <2> QED BY <1>1, <1>2, <1>3, <1>10, <2>1, PuttingBack
<1>12. /\ Alters(m, p, th) /\ u = v /\ p.mode = "return"
       /\ r = SubSeq(m.cs, 1, k - 1) /\ Len(r) = k - 1 /\ \A j \in 1 .. k - 1 : r[j] = s[j]
  <2>1. v \in ThreadState /\ v.status = m.thread[th].status
    BY <1>11 DEF PutBack
  <2>2. k \in 1 .. Len(m.cs) /\ th = m.cs[k].th /\ v = Restored(m.thread[th], m.cs[k])
    BY <1>2, <1>3, <1>10
  <2> QED BY <1>1, <2>1, <2>2, RecoveredIs
<1>13. PutBack(t, u, a)
  BY <1>11, <1>12
<1>14. /\ u \in ThreadState /\ u.status = "0" /\ u.baseCcalls = t.baseCcalls
       /\ Len(u.stack) = top + 1 /\ \A j \in 1 .. top : u.stack[j] = t.stack[j]
       /\ Len(u.ci) = c /\ \A j \in 1 .. c : u.ci[j] = t.ci[j]
       /\ u.open = {i \in t.open : i < a.old_top}
       /\ u.nCcalls = a.oldnCcalls /\ u.errfunc = a.old_errfunc
  BY <1>1, <1>5, <1>9, <1>13 DEF PutBack
<1>15. /\ r \in Seq(Activation) /\ Len(r) = n /\ Stacked(r) /\ \A j \in 1 .. n : r[j] = s[j]
       /\ p \in Machine /\ Apart(m, p, th)
  <2>1. p \in Machine /\ Apart(m, p, th)
    BY <1>12 DEF Alters
  <2>2. r \in Seq(Activation) /\ Len(r) = n /\ \A j \in 1 .. n : r[j] = s[j]
    BY <1>5, <1>12, <2>1 DEF Machine
  <2>3. n <= Len(s)
    BY <1>6
  <2>4. Stacked(r)
    <3> HIDE DEF r, s
    <3>1. Len(r) <= Len(s)
      BY <2>2, <2>3
    <3>2. \A i \in 1 .. Len(r) : r[i].kind = s[i].kind /\ r[i].th = s[i].th
      BY <2>2
    <3> QED BY <1>1, <2>2, <3>1, <3>2, StackedLess
  <2> QED BY <2>1, <2>2, <2>4
<1> HIDE DEF r, u, a, s, t
<1>16. Keeps(th, t, u, s, n, c, top)
  <2>1. ASSUME NEW j \in 1 .. c PROVE Needs(t, j) <= top
    <3>1. j \in 1 .. Len(t.ci) /\ j <= c
      BY <1>4, <1>7, <1>5
    <3>2. Needs(t, j) < a.old_top
      BY <1>8, <3>1
    <3>3. t.ci[j].func \in Nat
      BY <1>1, <3>1, ThreadFields
    <3>4. Needs(t, j) \in Nat
      BY <3>3 DEF Needs
    <3> QED BY <1>9, <3>2, <3>4
  <2>2. ASSUME NEW i \in 1 .. n, s[i].th = th, s[i].kind = "pcall" PROVE s[i].old_top <= top + 1
    <3>1. i \in 1 .. Len(s) /\ i < k
      BY <1>6
    <3>2. s[i].old_top <= s[k].old_top
      BY <1>1, <1>2, <1>3, <2>2, <3>1, ProtectedInOrder DEF a
    <3> QED BY <1>9, <3>2 DEF a
  <2>3. top <= Len(u.stack) /\ c <= Len(u.ci) /\ Depth(s, th, n) <= c
    BY <1>4, <1>5, <1>7, <1>9, <1>14
  <2> QED BY <1>1, <1>7, <1>14, <2>1, <2>2, <2>3 DEF Keeps
<1>17. Captured(u)
  <2>1. ASSUME NEW i \in u.open
        PROVE  \E j \in 2 .. Len(u.ci) : u.ci[j].func = i - 1 /\ RunsLua(u, j)
    <3>1. i \in t.open /\ i < a.old_top
      BY <1>14
    <3>2. PICK j \in 2 .. Len(t.ci) : t.ci[j].func = i - 1 /\ RunsLua(t, j)
      BY <1>1, <3>1 DEF Accounts, Captured
    <3>3. j <= c
      <4>1. i \in Nat /\ j \in 1 .. Len(t.ci)
        BY <1>1, <3>1 DEF ThreadState
      <4>2. ~ (a.old_top <= t.ci[j].func)
        BY <1>4, <3>1, <3>2, <4>1
      <4> QED BY <1>8, <4>1, <4>2
    <3>4. j \in 1 .. c /\ j \in 2 .. Len(u.ci)
      BY <1>4, <1>5, <1>14, <3>3
    <3>5. LaidOut(th, t, s) /\ c \in Nat
      BY <1>1, <1>4, <1>5 DEF Accounts
    <3>6. (RunsLua(u, j) <=> RunsLua(t, j)) /\ u.ci[j].func = t.ci[j].func
      BY <1>1, <1>6, <1>9, <1>14, <1>16, <3>4, <3>5, FramesStay
    <3> QED BY <3>2, <3>4, <3>6
  <2> QED BY <2>1 DEF Captured
<1>18. /\ CallsIn(s, k) = CallsIn(r, n) /\ Nearest(s, th, n) = Nearest(r, th, n)
       /\ Depth(s, th, n) = Depth(r, th, n)
  <2>1. CallsIn(s, k) = CallsIn(s, n)
    <3>1. CallsIn(s, k) = CallsIn(s, n) + 0 /\ CallsIn(s, n) \in Nat
      <4>1. k \in Nat \ {0} /\ n = k - 1 /\ s[k].kind = "pcall"
        BY <1>2, <1>3, <1>5 DEF a
      <4> QED BY <1>6, <4>1, CallsStep
    <3> QED BY <3>1
  <2>2. /\ CallsIn(r, n) = CallsIn(s, n) /\ Depth(r, th, n) = Depth(s, th, n)
        /\ Nearest(r, th, n) = Nearest(s, th, n)
    <3>1. n \in Nat /\ \A j \in 1 .. n : r[j] = s[j]
      BY <1>6, <1>15
    <3> QED BY ONLY <3>1, SamePart
  <2> QED BY <2>1, <2>2
<1>19. a.oldnCcalls = CallsIn(s, k) /\ a.old_errfunc = Nearest(s, th, n)
  BY <1>1, <1>2, <1>3, <1>5 DEF Accounts, Counted, Handled, a
<1>20. IF n = 0 THEN th = Main ELSE s[n].th = th /\ s[n].kind = "cfun"
  <2>1. CASE n = 0
    <3>1. k = 1 /\ s # <<>>
      BY <1>2, <1>6, <2>1
    <3> QED BY <1>1, <1>3, <2>1, <3>1 DEF Stacked, Founded, a
  <2>2. CASE n # 0
    <3>1. n \in 1 .. Len(s) - 1 /\ n \in 1 .. Len(s) /\ n < k /\ \A j \in n + 1 .. k : j = k
      BY <1>2, <1>6, <2>2
    <3>2. <<s[n].kind, s[k].kind>> \in Stands
      BY <1>1, <1>6, <3>1 DEF Stacked, StandsWell
    <3>3. s[n].th = s[k].th
      BY <1>1, <1>2, <1>3, <3>1 DEF Stacked, InPieces, a
    <3> QED BY <1>3, <2>2, <3>2, <3>3 DEF Stands, a
  <2> QED BY <2>1, <2>2
<1>21. Leaves(th, u, r, n, c, top)
  <2>1. n # n + 1 /\ Len(u.ci) <= c + 1 /\ \A j \in c + 1 .. c : FALSE
    BY <1>4, <1>5, <1>6, <1>14
  <2>2. LeavesOnTop(th, r, n)
    <3>1. n # 0 => n \in 1 .. n
      BY <1>6
    <3> QED BY <1>15, <1>20, <2>1, <3>1 DEF LeavesOnTop
  <2>3. LeavesFrames(th, u, r, n, c, top)
    BY <1>7, <1>14, <1>15, <1>17, <1>18, <2>1 DEF LeavesFrames
  <2> QED BY <1>14, <1>15, <1>18, <1>19, <2>1, <2>2, <2>3 DEF Leaves
<1>22. Does(m, p, th)
  <2>1. \A j \in n + 1 .. Len(s) : s[j].th = th
    <3>1. \A j \in n + 1 .. Len(s) : j = k \/ j \in k + 1 .. Len(s)
      BY <1>4, <1>6
    <3> QED BY <1>2, <1>3, <3>1 DEF a
  <2>2. n <= Len(r) /\ c \in Nat
    BY <1>4, <1>5, <1>6, <1>15
  <2> QED BY <1>6, <1>9, <1>15, <1>16, <1>21, <2>1, <2>2, StepDoes DEF s, r, t, u
<1>23. ModeFits(p)
  <2>1. CASE n = 0
    <3>1. r = <<>>
      BY <1>15, <2>1
    <3> QED BY <1>12, <3>1 DEF ModeFits, r
  <2>2. CASE n # 0
    <3>1. r # <<>> /\ Last(r) = s[n] /\ s[n].kind = "cfun"
      <4>1. n \in 1 .. n
        BY <1>6, <2>2
      <4> QED BY <1>15, <1>20, <2>2, <4>1 DEF Last
    <3> QED BY <1>12, <3>1 DEF ModeFits, r
  <2> QED BY <2>1, <2>2
<1> QED BY <1>3, <1>22, <1>23 DEF a, s
-----------------------------------------------------------------------------
(* A coroutine that is not on the C stack.                                 *)
Idles(t) ==
  /\ t.status = "YIELD" => /\ Len(t.ci) >= 3
                           /\ \A k \in 2 .. Len(t.ci) : RunsLua(t, k) <=> k < Len(t.ci)
  /\ t.status = "0" => Len(t.ci) = 1
  /\ Len(t.ci) >= 1 /\ t.ci[1].func = 1
  /\ \A k, l \in 1 .. Len(t.ci) : k < l => Needs(t, k) < t.ci[l].func
  /\ \A k \in 1 .. Len(t.ci) : Needs(t, k) <= Len(t.stack)
  /\ Captured(t) /\ t.errfunc = 0

Absent(co, s) == co # Main /\ \A i \in 1 .. Len(s) : s[i].th # co

(* Its accounts do not depend on the C stack.                              *)
LEMMA IdleAccounts ==
  ASSUME NEW s \in Seq(Activation), NEW co, Absent(co, s), NEW t
  PROVE  /\ Depth(s, co, Len(s)) = 1 /\ Nearest(s, co, Len(s)) = 0
         /\ Accounts(co, t, s) <=> Idles(t)
<1>1. Len(s) \in Nat /\ Len(s) \in 0 .. Len(s)
  OBVIOUS
<1>2. \A i \in 1 .. Len(s) : s[i].th # co
  BY DEF Absent
<1>3. Depth(s, co, Len(s)) = 1
  <2>1. {j \in 1 .. Len(s) : s[j].th = co} = {j \in 1 .. 0 : s[j].th = co}
    BY <1>2
  <2>2. Depth(s, co, Len(s)) = Depth(s, co, 0)
    BY <1>1, <1>2, <2>1, DepthSame
  <2> QED BY <2>2, DepthStep
<1>4. Nearest(s, co, Len(s)) = 0
  <2>1. {j \in 1 .. Len(s) : s[j].th = co /\ s[j].kind = "pcall"} = {}
    BY <1>2
  <2> QED BY <2>1 DEF Nearest
<1>5. \A i \in 1 .. Len(s) : \A k \in Depth(s, co, i - 1) + 1 .. Depth(s, co, i) : FALSE
  BY <1>2, FramesOwned
<1>6. Counted(co, t, s)
  BY <1>2 DEF Counted, Absent
<1>7. Framed(co, t, s) <=> /\ t.status = "YIELD" =>
                                /\ Len(t.ci) >= 3
                                /\ \A k \in 2 .. Len(t.ci) : RunsLua(t, k) <=> k < Len(t.ci)
                           /\ t.status = "0" => Len(t.ci) = 1
  BY <1>2, <1>3, <1>5, Zenon DEF Framed
<1>8. LaidOut(co, t, s) <=> /\ Len(t.ci) >= 1 /\ t.ci[1].func = 1
                            /\ \A k, l \in 1 .. Len(t.ci) : k < l => Needs(t, k) < t.ci[l].func
  BY <1>2, Zenon DEF LaidOut
<1>9. Fits(co, t, s, Len(t.stack)) <=> \A k \in 1 .. Len(t.ci) : Needs(t, k) <= Len(t.stack)
  BY <1>2, Zenon DEF Fits
<1>10. Handled(co, t, s) <=> t.errfunc = 0
  BY <1>2, <1>4, Zenon DEF Handled
<1>11. Accounts(co, t, s) <=> Idles(t)
  BY <1>6, <1>7, <1>8, <1>9, <1>10, Zenon DEF Accounts, Idles
<1> QED BY <1>3, <1>4, <1>11

(* What is over the function of the last frame may go.                     *)
LEMMA IdleCut ==
  ASSUME NEW t \in ThreadState, Idles(t), NEW u \in ThreadState, NEW func, func = Func(t),
         u.ci = t.ci, u.open = t.open, u.status = t.status, u.errfunc = t.errfunc,
         u.stack = SubSeq(t.stack, 1, func), t.status \in {"0", "YIELD"}
  PROVE  /\ Idles(u) /\ Len(u.stack) = func /\ func \in 1 .. Len(t.stack)
         /\ u.status = "0" => func = 1
<1> DEFINE l == Len(t.ci)
<1>1. l \in Nat /\ l >= 1 /\ func = t.ci[l].func /\ Len(t.stack) \in Nat
      /\ \A k \in 1 .. l : t.ci[k].func \in Nat
  BY ThreadFields DEF Idles, Func, Last
<1>2. Needs(t, l) = func
  <2>1. l > 1 => ~ RunsLua(t, l)
    <3>1. CASE t.status = "YIELD"
      <4>1. l \in 2 .. l /\ ~ (l < l)
        BY <1>1, <3>1 DEF Idles
      <4> QED BY <3>1, <4>1 DEF Idles
    <3>2. CASE t.status = "0"
      BY <3>2 DEF Idles
    <3> QED BY <3>1, <3>2
  <2> QED BY <1>1, <2>1 DEF Needs
<1> HIDE DEF l
<1>3. l \in 1 .. l /\ func \in Nat
  BY <1>1
<1>4. \A k \in 1 .. l : t.ci[k].func \in 1 .. func /\ Needs(t, k) <= func
  <2>1. ASSUME NEW k \in 1 .. l PROVE t.ci[k].func \in 1 .. func /\ Needs(t, k) <= func
    <3>1. Needs(t, k) <= func
      <4>1. CASE k = l
        BY <1>2, <1>3, <4>1
      <4>2. CASE k # l
        <5>1. k < l
          BY <1>1, <4>2
        <5>2. Needs(t, k) < func
          BY <1>1, <1>3, <5>1 DEF Idles, l
        <5>3. Needs(t, k) \in Nat
          BY <1>1 DEF Needs
        <5> QED BY <1>3, <5>2, <5>3
      <4> QED BY <4>1, <4>2
    <3>2. t.ci[k].func \in Nat /\ Needs(t, k) \in {t.ci[k].func, t.ci[k].func + 1}
      BY <1>1 DEF Needs
    <3>3. t.ci[k].func >= 1
      <4>1. CASE k = 1
        BY <4>1 DEF Idles
      <4>2. CASE k # 1
        <5>1. 1 < k /\ 1 \in 1 .. l
          BY <1>1, <4>2
        <5>2. Needs(t, 1) < t.ci[k].func /\ Needs(t, 1) = 1
          BY <5>1 DEF Idles, l, Needs
        <5> QED BY <3>2, <5>2
      <4> QED BY <4>1, <4>2
    <3> QED BY <1>3, <3>1, <3>2, <3>3
  <2> QED BY <2>1
<1>5. func \in 1 .. Len(t.stack)
  <2>1. func >= 1
    BY <1>1, <1>3, <1>4
  <2>2. func <= Len(t.stack)
    BY <1>2, <1>3 DEF Idles, l
  <2> QED BY <1>1, <1>3, <2>1, <2>2
<1>6. Len(u.stack) = func /\ \A j \in 1 .. func : u.stack[j] = t.stack[j]
  <2>1. PICK st, x : st = t.stack /\ x = u.stack
    OBVIOUS
  <2>2. st \in Seq(Value) /\ func \in 0 .. Len(st) /\ x = SubSeq(st, 1, func)
    <3>1. st \in Seq(Value)
      BY <2>1 DEF ThreadState
    <3> QED BY <1>5, <2>1, <3>1
  <2>3. Len(x) = func /\ Prefix(st, x, func)
    BY ONLY <2>2, CutShort
  <2> QED BY <2>1, <2>3 DEF Prefix
<1>7. \A k \in 1 .. l : (RunsLua(u, k) <=> RunsLua(t, k)) /\ Needs(u, k) = Needs(t, k)
  BY <1>4, <1>6 DEF RunsLua, Needs
<1>8. Captured(u)
  <2>1. ASSUME NEW i \in u.open
        PROVE  \E k \in 2 .. Len(u.ci) : u.ci[k].func = i - 1 /\ RunsLua(u, k)
    <3>1. PICK k \in 2 .. l : t.ci[k].func = i - 1 /\ RunsLua(t, k)
      BY DEF Idles, Captured, l
    <3>2. k \in 1 .. l /\ k \in 2 .. Len(u.ci)
      BY <1>1 DEF l
    <3> QED BY <1>7, <3>1, <3>2
  <2> QED BY <2>1 DEF Captured
<1>9. u.status = "0" => func = 1
  BY <1>1 DEF Idles, l
<1>10. /\ \A k, j \in 1 .. l : k < j => Needs(u, k) < t.ci[j].func
       /\ \A k \in 1 .. l : Needs(u, k) <= func
  BY <1>4, <1>7 DEF Idles, l
<1>11. u.status = "YIELD" => l >= 3 /\ \A k \in 2 .. l : RunsLua(u, k) <=> k < l
  <2>1. \A k \in 2 .. l : k \in 1 .. l
    BY <1>1
  <2>2. u.status = "YIELD" => l >= 3 /\ \A k \in 2 .. l : RunsLua(t, k) <=> k < l
    BY DEF Idles, l
  <2> QED BY <1>7, <2>1, <2>2
<1>12. Idles(u)
  <2>1. Len(u.ci) = l /\ (u.status = "0" => l = 1) /\ l >= 1 /\ u.ci[1].func = 1 /\ u.errfunc = 0
    BY DEF Idles, l
  <2> QED BY <1>6, <1>8, <1>10, <1>11, <2>1 DEF Idles
<1> QED BY <1>5, <1>6, <1>9, <1>12
-----------------------------------------------------------------------------
(* A Lua function that luaD_precall has entered starts to run.             *)
LEMMA LuaStarts ==
  ASSUME NEW m, NEW th, At(m, th), m.cs # <<>>, Last(m.cs).kind \in {"call", "resume"},
         NEW func \in 1 .. Len(m.thread[th].stack), Fits(th, m.thread[th], m.cs, func - 1),
         NEW called, CallsLua(m, called, th, func),
         NEW p, p = Doing(Activate(called, Execute(th, 1)), "run")
  PROVE  Does(m, p, th) /\ Goes(p, th)
<1>1. m \in Machine /\ th \in Threads /\ m.cs \in Seq(Activation)
  BY TopIs
<1>2. PICK b \in Activation : b = Execute(th, 1) /\ b.kind = "execute" /\ b.th = th /\ Size(b) = 1
  BY <1>1, OneFrame, Zenon
<1>3. PICK q : q = Activate(called, b) /\ p = Doing(q, "run")
  BY <1>2
<1>4. called \in Machine /\ called.cs = m.cs
  BY DEF CallsLua
<1>5. /\ Alters(called, q, th) /\ q.cs = Append(called.cs, b) /\ q.thread = called.thread
  BY <1>1, <1>2, <1>3, <1>4, OtherwiseMade
<1>6. /\ Alters(q, p, th) /\ p.cs = q.cs /\ p.mode = "run" /\ p.thread = q.thread
  BY <1>1, <1>3, <1>5, OtherwiseMade DEF Alters, Modes
<1>7. p \in Machine /\ Apart(m, p, th) /\ p.cs = Append(m.cs, b) /\ p.thread = called.thread
  BY <1>4, <1>5, <1>6 DEF Alters, Apart, CallsLua
<1>8. PutOn(m, p, th, b)
  <2>1. <<Last(m.cs).kind, b.kind>> \in Stands
    BY <1>2 DEF Stands
  <2> QED BY <1>2, <1>7, <2>1 DEF PutOn
<1>9. /\ p.cs \in Seq(Activation) /\ Stacked(p.cs) /\ p.cs[Len(m.cs) + 1] = b
      /\ KeepsStack(m, p, th, Len(m.cs))
      /\ EntersStack(m.cs, p.cs, th, Len(m.cs))
  BY <1>8, ActivationOver
<1>10. /\ Entered(m.thread[th], p.thread[th], func)
       /\ p.thread[th].stack[func] \in LuaFunctions
       /\ func + 1 <= Len(p.thread[th].stack)
  <2>1. Len(p.thread[th].stack) = func + 1
    BY <1>7 DEF CallsLua
  <2> QED BY <1>1, <1>7, <2>1 DEF CallsLua
<1>11. Does(m, p, th)
  BY <1>2, <1>7, <1>9, <1>10, EnterStep
<1>12. Goes(p, th)
  BY <1>1, <1>2, <1>6, <1>7, LastAppended DEF Goes
<1> QED BY <1>11, <1>12

(* q's C stack is m's without activations of co at its end.                *)
Lost(m, q, co) ==
  \E n \in 0 .. Len(m.cs) : /\ Len(q.cs) = n /\ \A j \in 1 .. n : q.cs[j] = m.cs[j]
                            /\ \A j \in n + 1 .. Len(m.cs) : m.cs[j].th = co

(* A thread that has left the C stack, with nothing of it that counts.     *)
LEMMA GoneIdle ==
  ASSUME NEW m, Good(m), NEW q \in Machine, NEW co \in Coroutine, Lost(m, q, co),
         Absent(co, q.cs), Idles(q.thread[co]),
         \A o \in Threads \ {co} : q.thread[o] = m.thread[o]
  PROVE  /\ Good(q)
         /\ ActiveIn(q.cs) = ActiveIn(m.cs) \ {co}
<1> PICK n \in 0 .. Len(m.cs) : /\ Len(q.cs) = n /\ \A j \in 1 .. n : q.cs[j] = m.cs[j]
                               /\ \A j \in n + 1 .. Len(m.cs) : m.cs[j].th = co
  BY DEF Lost
<1>1. m.cs \in Seq(Activation) /\ q.cs \in Seq(Activation) /\ Stacked(m.cs)
  BY DEF Good, Machine
<1>2. Stacked(q.cs)
  <2>1. Len(q.cs) <= Len(m.cs)
        /\ \A i \in 1 .. Len(q.cs) : q.cs[i].kind = m.cs[i].kind /\ q.cs[i].th = m.cs[i].th
    BY <1>1
  <2> QED BY <1>1, <2>1, StackedLess
<1>3. ASSUME NEW o \in Threads PROVE Accounts(o, q.thread[o], q.cs)
  <2>1. CASE o = co
    BY <1>1, <2>1, IdleAccounts
  <2>2. CASE o # co
    <3>1. Accounts(o, m.thread[o], m.cs) /\ q.thread[o] = m.thread[o]
      BY <2>2 DEF Good
    <3>2. \A j \in n + 1 .. Len(m.cs) : m.cs[j].th # o
      BY <2>2
    <3>3. \A j \in n + 1 .. Len(q.cs) : q.cs[j].th # o
      BY <1>1
    <3> QED BY <1>1, <3>1, <3>2, <3>3, OthersKeep
  <2> QED BY <2>1, <2>2
<1>4. ActiveIn(q.cs) = ActiveIn(m.cs) \ {co}
  <2>1. \A i \in 1 .. n : q.cs[i].th # co /\ i \in 1 .. Len(m.cs)
    BY <1>1 DEF Absent
  <2>2. ASSUME NEW i \in 1 .. Len(m.cs), m.cs[i].th # co PROVE i \in 1 .. n
    BY <1>1, <2>2
  <2>3. co # Main
    BY DEF Absent
  <2> QED BY <2>1, <2>2, <2>3 DEF ActiveIn
<1> QED BY <1>2, <1>3, <1>4 DEF Good

(* A coroutine whose lua_resume is the last activation has no other.       *)
LEMMA OnlyResumed ==
  ASSUME NEW s \in Seq(Activation), Stacked(s), NEW n \in 1 .. Len(s), s[n].kind = "resume"
  PROVE  /\ s[n].th \in Coroutine /\ s[n].th # Main
         /\ n > 1 /\ s[n - 1].kind = "cfun" /\ s[n - 1].th # s[n].th
         /\ \A i \in 1 .. n - 1 : s[i].th # s[n].th
<1>1. s[n].th \in Coroutine /\ s[n].th # Main
  BY MainAssumption DEF Stacked, Begun
<1>2. n # 1
  BY DEF Stacked, Founded
<1>3. n - 1 \in 1 .. Len(s) - 1 /\ (n - 1) + 1 = n
  BY <1>2
<1>4. <<s[n - 1].kind, s[n].kind>> \in Stands
  BY <1>3 DEF Stacked, StandsWell
<1>5. s[n - 1].kind = "cfun"
  BY <1>4 DEF Stands
<1>6. ASSUME NEW i \in 1 .. n - 1 PROVE s[i].th # s[n].th
  <2>1. i \in 1 .. Len(s) /\ i < n /\ n \in i + 1 .. n
    OBVIOUS
  <2> QED BY <2>1 DEF Stacked, InPieces
<1> QED BY <1>1, <1>3, <1>5, <1>6

(* The accounts of a coroutine that has just been resumed, or is about to  *)
(* leave lua_resume.                                                       *)
LEMMA JustResumed ==
  ASSUME NEW s \in Seq(Activation), NEW co, Absent(co, s), NEW r \in Seq(Activation),
         NEW n, n = Len(s), Len(r) = n + 1, \A j \in 1 .. n : r[j] = s[j],
         r[n + 1].kind = "resume", r[n + 1].th = co, NEW t
  PROVE  /\ Depth(r, co, n + 1) = 1 /\ Nearest(r, co, n + 1) = 0
         /\ CallsIn(r, n + 1) = CallsIn(s, n) + 1
         /\ Accounts(co, t, r) <=> /\ Idles(t) /\ t.nCcalls = CallsIn(r, n + 1)
                                   /\ t.baseCcalls = CallsIn(r, n + 1)
<1>1. n \in Nat /\ n \in 0 .. Len(s) /\ n + 1 \in 1 .. Len(r) /\ r[n + 1] \in Activation
  OBVIOUS
<1>2. Depth(s, co, n) = 1 /\ Nearest(s, co, n) = 0 /\ co # Main
  BY IdleAccounts DEF Absent
<1>3. OneOver(s, r, co, n)
  BY <1>1, OneMoreActivation
<1>4. Size(r[n + 1]) = 0
  BY DEF Size
<1>5. /\ Depth(r, co, n + 1) = 1 /\ Nearest(r, co, n + 1) = 0
      /\ CallsIn(r, n + 1) = CallsIn(s, n) + 1
  BY <1>2, <1>3, <1>4 DEF OneOver
<1>6. \A i \in 1 .. Len(r) : r[i].th = co <=> i = n + 1
  <2>1. \A i \in 1 .. n : r[i].th # co
    BY DEF Absent
  <2> QED BY <1>1, <2>1
<1>7. \A i \in 1 .. Len(r) : ~ (r[i].th = co /\ r[i].kind = "pcall")
  BY <1>6
<1>8. \A i \in 1 .. Len(r) : \A k \in Depth(r, co, i - 1) + 1 .. Depth(r, co, i) : FALSE
  <2>1. ASSUME NEW i \in 1 .. Len(r), NEW k \in Depth(r, co, i - 1) + 1 .. Depth(r, co, i)
        PROVE  FALSE
    <3>1. i = n + 1 /\ k \in Depth(r, co, i - 1) + 1 .. Depth(r, co, i - 1) + Size(r[i])
      BY <1>6, FramesOwned
    <3>2. Depth(r, co, i - 1) \in Nat
      <4>1. i - 1 \in 0 .. Len(r)
        OBVIOUS
      <4> QED BY <4>1, DepthStep
    <3> QED BY <1>4, <3>1, <3>2
  <2> QED BY <2>1
<1>9. Counted(co, t, r) <=> t.nCcalls = CallsIn(r, n + 1) /\ t.baseCcalls = CallsIn(r, n + 1)
  <2>1. n + 1 \in 1 .. Len(r) /\ \A j \in n + 2 .. Len(r) : r[j].th # co
    BY <1>1
  <2>2. Counted(co, t, r) => t.nCcalls = CallsIn(r, n + 1) /\ t.baseCcalls = CallsIn(r, n + 1)
    BY <1>1, <2>1 DEF Counted
  <2>3. ASSUME t.nCcalls = CallsIn(r, n + 1), t.baseCcalls = CallsIn(r, n + 1)
        PROVE  Counted(co, t, r)
    BY <1>2, <1>6, <2>3 DEF Counted
  <2> QED BY <2>2, <2>3
<1>10. Framed(co, t, r) <=> /\ t.status = "YIELD" =>
                                 /\ Len(t.ci) >= 3
                                 /\ \A k \in 2 .. Len(t.ci) : RunsLua(t, k) <=> k < Len(t.ci)
                            /\ t.status = "0" => Len(t.ci) = 1
  <2>1. Depth(r, co, Len(r)) = 1
    BY <1>5
  <2> QED BY <1>7, <1>8, <2>1, Zenon DEF Framed
<1>11. LaidOut(co, t, r) <=> /\ Len(t.ci) >= 1 /\ t.ci[1].func = 1
                             /\ \A k, l \in 1 .. Len(t.ci) : k < l => Needs(t, k) < t.ci[l].func
  BY <1>7, Zenon DEF LaidOut
<1>12. Fits(co, t, r, Len(t.stack)) <=> \A k \in 1 .. Len(t.ci) : Needs(t, k) <= Len(t.stack)
  BY <1>7, Zenon DEF Fits
<1>13. Handled(co, t, r) <=> t.errfunc = 0
  <2>1. Nearest(r, co, Len(r)) = 0
    BY <1>5
  <2> QED BY <1>7, <2>1, Zenon DEF Handled
<1>14. Accounts(co, t, r) <=> /\ Idles(t) /\ t.nCcalls = CallsIn(r, n + 1)
                              /\ t.baseCcalls = CallsIn(r, n + 1)
  BY <1>9, <1>10, <1>11, <1>12, <1>13, Zenon DEF Accounts, Idles
<1> QED BY <1>5, <1>14

(* A thread under others has a C function's frame: it has called resume.   *)
LEMMA UnderResume ==
  ASSUME NEW s \in Seq(Activation), Stacked(s), NEW i \in 1 .. Len(s),
         s[i].th # s[Len(s)].th
  PROVE  Depth(s, s[i].th, Len(s)) > 1
<1> DEFINE co == s[i].th
           own == {j \in 1 .. Len(s) : s[j].th = co}
<1>1. PICK k : k = Max(own)
  OBVIOUS
<1>2. k \in own /\ \A x \in own : x <= k
  <2>1. own \subseteq 1 .. Len(s) /\ own # {} /\ Len(s) \in Nat
    OBVIOUS
  <2> HIDE DEF own
  <2> QED BY <1>1, <2>1, MaxExists
<1>3. k \in 1 .. Len(s) - 1 /\ s[k].th = co /\ k + 1 \in 1 .. Len(s) /\ s[k + 1].th # co
  <2>1. k \in 1 .. Len(s) /\ k # Len(s) /\ s[k].th = co
    BY <1>2
  <2>2. k + 1 \in 1 .. Len(s) /\ ~ (k + 1 <= k)
    BY <2>1
  <2> QED BY <1>2, <2>1, <2>2
<1>4. s[k + 1].kind = "resume"
  <2>1. \A j \in k + 1 .. k + 1 : j = k + 1
    BY <1>3
  <2>2. k \in 1 .. Len(s) /\ k < k + 1
    BY <1>3
  <2> QED BY <1>3, <2>1, <2>2 DEF Stacked, InPieces
<1>5. s[k].kind = "cfun"
  <2>1. <<s[k].kind, s[k + 1].kind>> \in Stands
    BY <1>3 DEF Stacked, StandsWell
  <2> QED BY <1>4, <2>1 DEF Stands
<1> HIDE DEF co, own
<1>6. k \in 1 .. Len(s) /\ k \in 0 .. Len(s) /\ k - 1 \in 0 .. Len(s) /\ Len(s) \in 0 .. Len(s)
      /\ k \in 0 .. Len(s)
  BY <1>3
<1>7. Depth(s, co, k) = Depth(s, co, k - 1) + 1
  <2>1. Size(s[k]) = 1
    BY <1>5 DEF Size
  <2> QED BY <1>3, <1>6, <2>1, DepthLast
<1>8. Depth(s, co, k - 1) \in Nat \ {0} /\ Depth(s, co, k) \in Nat /\ Depth(s, co, Len(s)) \in Nat
  BY <1>6, DepthStep
<1>9. Depth(s, co, k) <= Depth(s, co, Len(s))
  BY <1>6, DepthGrows
<1>10. Depth(s, co, Len(s)) > 1
  BY <1>7, <1>8, <1>9
<1> QED BY <1>10 DEF co

(* lua_resume takes over the count of the thread that calls it.            *)
Levelled(m, co, n) ==
  LET levels == [m EXCEPT !.thread[co].nCcalls = n]
  IN  [levels EXCEPT !.thread[co].nCcalls = @ + 1, !.thread[co].baseCcalls = n + 1]

Levels(m, p, co, n) ==
  /\ Alters(m, p, co) /\ p.cs = m.cs /\ p.mode = m.mode
  /\ p.thread[co].stack = m.thread[co].stack /\ p.thread[co].ci = m.thread[co].ci
  /\ p.thread[co].open = m.thread[co].open /\ p.thread[co].errfunc = m.thread[co].errfunc
  /\ p.thread[co].nCcalls = n /\ p.thread[co].baseCcalls = n

(* What that changes.                                                      *)
LEMMA Levelling ==
  ASSUME NEW m \in Machine, NEW co \in Threads, NEW n \in Nat, NEW p, p = Levelled(m, co, n)
  PROVE  Levels(m, p, co, n + 1)
<1> DEFINE t == m.thread[co]
           v == [t EXCEPT !.nCcalls = n + 1]
           u == [v EXCEPT !.baseCcalls = n + 1]
<1>1. t \in ThreadState /\ m.cs \in Seq(Activation) /\ m.mode \in Modes
  BY DEF Machine
<1>2. /\ u \in ThreadState /\ u.stack = t.stack /\ u.ci = t.ci /\ u.open = t.open
      /\ u.nCcalls = n + 1 /\ u.baseCcalls = n + 1
      /\ u.status = t.status /\ u.errfunc = t.errfunc
  <2> HIDE DEF t
  <2>0. n + 1 \in Nat
    OBVIOUS
  <2>1. /\ v \in ThreadState /\ v.stack = t.stack /\ v.ci = t.ci /\ v.open = t.open
        /\ v.nCcalls = n + 1 /\ v.status = t.status /\ v.errfunc = t.errfunc
    BY <1>1, <2>0 DEF ThreadState
  <2> HIDE DEF v
  <2> QED BY <2>0, <2>1 DEF ThreadState
<1>3. p = Made(m, co, u, m.cs, m.mode)
  <2> DEFINE x == [t EXCEPT !.nCcalls = n]
             y == [x EXCEPT !.nCcalls = n + 1]
  <2>1. PICK w : w = [m EXCEPT !.thread[co].nCcalls = n]
    OBVIOUS
  <2>2. PICK z : z = [w EXCEPT !.thread[co].nCcalls = @ + 1]
    OBVIOUS
  <2>3. p = [z EXCEPT !.thread[co].baseCcalls = n + 1]
    BY <2>1, <2>2, Zenon DEF Levelled
  <2>4. x.nCcalls = n /\ y = v
    <3> HIDE DEF t
    <3> QED BY <1>1 DEF ThreadState
  <2>5. w = [thread |-> [m.thread EXCEPT ![co] = x], cs |-> m.cs, mode |-> m.mode]
    BY <2>1 DEF Machine
  <2> HIDE DEF x, y, v
  <2>6. w.thread[co] = x
    BY <2>5 DEF Machine
  <2>7. z = [thread |-> [m.thread EXCEPT ![co] = v], cs |-> m.cs, mode |-> m.mode]
    <3>1. z = [thread |-> [w.thread EXCEPT ![co] = y], cs |-> w.cs, mode |-> w.mode]
      BY <2>2, <2>4, <2>5, <2>6 DEF y
    <3> QED BY <2>4, <2>5, <3>1
  <2>8. z.thread[co] = v
    BY <2>7 DEF Machine
  <2>9. p = [thread |-> [z.thread EXCEPT ![co] = u], cs |-> z.cs, mode |-> z.mode]
    BY <2>3, <2>7, <2>8
  <2> QED BY <2>7, <2>9 DEF Made
<1> HIDE DEF u
<1>4. p \in Machine /\ p.thread[co] = u /\ p.cs = m.cs /\ p.mode = m.mode /\ Apart(m, p, co)
  BY <1>1, <1>2, <1>3, MadeIs DEF Apart
<1> QED BY <1>2, <1>4 DEF Alters, Levels

(* A coroutine that lua_resume has just been called for.                   *)
Resuming(m, p, co) ==
  /\ Good(p) /\ p.mode = m.mode
  /\ p.cs \in Seq(Activation) /\ Len(p.cs) = Len(m.cs) + 1 /\ p.cs # <<>>
  /\ \A j \in 1 .. Len(m.cs) : p.cs[j] = m.cs[j]
  /\ Last(p.cs).kind = "resume" /\ Last(p.cs).th = co
  /\ \A o \in Threads \ {co} : p.thread[o] = m.thread[o]
  /\ p.thread[co].stack = m.thread[co].stack /\ p.thread[co].ci = m.thread[co].ci
  /\ p.thread[co].open = m.thread[co].open /\ p.thread[co].status = m.thread[co].status
  /\ Idles(p.thread[co])
  /\ p.thread[co].nCcalls = CallsIn(p.cs, Len(p.cs))
  /\ p.thread[co].baseCcalls = CallsIn(p.cs, Len(p.cs))
  /\ ActiveIn(p.cs) = ActiveIn(m.cs) \union {co}

(* A resumed coroutine's accounts start from the count of the thread that  *)
(* resumes it.                                                             *)
LEMMA ResumeBegins ==
  ASSUME NEW m, NEW th, At(m, th), m.cs # <<>>, Last(m.cs).kind = "cfun",
         NEW co \in Coroutine, Absent(co, m.cs),
         NEW a \in Activation, a.kind = "resume", a.th = co,
         NEW q, Levels(m, q, co, m.thread[th].nCcalls + 1), NEW p, p = Activate(q, a)
  PROVE  Resuming(m, p, co)
<1> DEFINE s == m.cs
           n == Len(s)
           r == p.cs
           t == m.thread[co]
           u == p.thread[co]
<1>1. /\ m \in Machine /\ th \in Threads /\ s \in Seq(Activation) /\ Stacked(s) /\ co \in Threads
      /\ m.thread[th].nCcalls = CallsIn(s, n) /\ n \in Nat /\ OnTop(s, th)
      /\ t \in ThreadState /\ Good(m) /\ Accounts(co, t, s)
  <2>1. /\ m \in Machine /\ th \in Threads /\ s \in Seq(Activation) /\ Stacked(s)
        /\ m.thread[th].nCcalls = CallsIn(s, n) /\ OnTop(s, th)
    BY TopIs
  <2>2. co \in Threads /\ Good(m)
    BY DEF At, Threads
  <2>3. t \in ThreadState /\ Accounts(co, t, s)
    BY <2>1, <2>2 DEF Good, Machine
  <2> QED BY <2>1, <2>2, <2>3
<1>2. Alters(m, q, co) /\ q.cs = s /\ q.mode = m.mode
  BY DEF Levels
<1>3. Alters(q, p, co) /\ r = Append(s, a) /\ p.mode = m.mode /\ p.thread = q.thread
  BY <1>1, <1>2, OtherwiseMade DEF Alters
<1>4. /\ u.stack = t.stack /\ u.ci = t.ci /\ u.open = t.open /\ u.errfunc = t.errfunc
      /\ u.nCcalls = CallsIn(s, n) + 1 /\ u.baseCcalls = CallsIn(s, n) + 1 /\ u.status = t.status
  BY <1>1, <1>3 DEF Levels, Alters, Apart
<1>5. /\ r \in Seq(Activation) /\ Len(r) = n + 1 /\ \A j \in 1 .. n : r[j] = s[j]
      /\ r[n + 1] = a /\ r # <<>> /\ Last(r) = a
  <2> HIDE DEF r, s
  <2>1. r \in Seq(Activation) /\ r # <<>> /\ Last(r) = a /\ Len(r) = n + 1
    BY <1>1, <1>3, LastAppended
  <2>2. r[n + 1] = a /\ \A j \in 1 .. n : r[j] = s[j]
    BY <1>1, <1>3
  <2> QED BY <2>1, <2>2
<1>6. Stacked(r)
  <2>1. \A i \in 1 .. Len(s) : s[i].th # co
    BY DEF Absent
  <2>2. s[Len(s)].kind = "cfun"
    BY <1>1 DEF Last
  <2> QED BY <1>1, <1>3, <2>1, <2>2, StackedResumed
<1>7. Idles(t)
  BY <1>1, IdleAccounts
<1>8. Idles(u)
  <2>1. \A k : (RunsLua(u, k) <=> RunsLua(t, k)) /\ Needs(u, k) = Needs(t, k)
    BY <1>4 DEF RunsLua, Needs
  <2>2. Captured(u) <=> Captured(t)
    BY <1>4, <2>1 DEF Captured
  <2> HIDE DEF u, t
  <2> QED BY <1>4, <1>7, <2>1, <2>2, Zenon DEF Idles
<1> HIDE DEF r, s, u, t, n
<1>9. CallsIn(r, n + 1) = CallsIn(s, n) + 1 /\ Accounts(co, u, r)
  <2>1. n = Len(s) /\ Absent(co, s) /\ r[n + 1].kind = "resume" /\ r[n + 1].th = co
    BY <1>5 DEF n, s
  <2>2. CallsIn(r, n + 1) = CallsIn(s, n) + 1
    BY <1>1, <1>5, <2>1, JustResumed
  <2>3. Idles(u) /\ u.nCcalls = CallsIn(r, n + 1) /\ u.baseCcalls = CallsIn(r, n + 1)
    BY <1>4, <1>8, <2>2
  <2> QED BY <1>1, <1>5, <2>1, <2>2, <2>3, JustResumed
<1>10. ASSUME NEW o \in Threads \ {co} PROVE Accounts(o, p.thread[o], r) /\ p.thread[o] = m.thread[o]
  <2>1. p.thread[o] = m.thread[o] /\ Accounts(o, m.thread[o], s)
    BY <1>1, <1>2, <1>3 DEF Alters, Apart, Good, s
  <2>2. n \in 0 .. Len(s) /\ n <= Len(r) /\ \A j \in n + 1 .. Len(s) : s[j].th # o
    BY <1>1, <1>5 DEF n
  <2>3. \A j \in n + 1 .. Len(r) : r[j].th # o
    BY <1>1, <1>5
  <2> QED BY <1>1, <1>5, <2>1, <2>2, <2>3, OthersKeep
<1>11. Good(p)
  <2>1. \A o \in Threads : Accounts(o, p.thread[o], r)
    BY <1>9, <1>10 DEF u
  <2> QED BY <1>3, <1>6, <2>1 DEF Good, Alters, r
<1>12. ActiveIn(r) = ActiveIn(s) \union {co}
  <2>1. \A i \in 1 .. n : r[i].th = s[i].th
    BY <1>5
  <2>2. 1 .. Len(r) = (1 .. n) \union {n + 1} /\ Len(s) = n
    BY <1>1, <1>5 DEF n
  <2>3. r[n + 1].th = co
    BY <1>5
  <2>4. {r[i].th : i \in 1 .. Len(r)} = {s[i].th : i \in 1 .. n} \union {co}
    BY <2>1, <2>2, <2>3
  <2> QED BY <2>2, <2>4 DEF ActiveIn
<1> QED BY <1>3, <1>4, <1>5, <1>8, <1>9, <1>10, <1>11, <1>12 DEF Resuming, r, s, u, t, n

(* The function of a coroutine is called.                                  *)
LEMMA EnterNew ==
  ASSUME NEW m, NEW co \in Coroutine, NEW q, Resuming(m, q, co),
         q.thread[co].status = "0", q.thread[co].stack = <<Nil, "L">>,
         NEW p, p = Enter(q, co)
  PROVE  Does(q, p, co) /\ ModeFits(p)
<1> DEFINE t == q.thread[co]
           s == q.cs
<1>1. /\ Good(q) /\ s \in Seq(Activation) /\ s # <<>> /\ Last(s).kind = "resume"
      /\ Last(s).th = co /\ co \in Threads /\ Idles(t)
  BY DEF Resuming, Threads
<1>2. At(q, co)
  BY <1>1 DEF At, OnTop, Last
<1>3. Len(t.stack) = 2 /\ t.stack[2] = "L" /\ 2 \in 1 .. Len(t.stack)
  OBVIOUS
<1>4. \A i \in 1 .. Len(s) : ~ (s[i].th = co /\ s[i].kind = "pcall")
  <2>1. Len(s) \in 1 .. Len(s) /\ s[Len(s)].kind = "resume" /\ s[Len(s)].th = co /\ Stacked(s)
    BY <1>1 DEF Last, Good
  <2>2. \A i \in 1 .. Len(s) - 1 : s[i].th # co
    BY <1>1, <2>1, OnlyResumed
  <2> QED BY <2>1, <2>2
<1>5. Fits(co, t, s, 2 - 1)
  <2>1. Len(t.ci) = 1 /\ t.ci[1].func = 1
    BY DEF Idles, Resuming
  <2>2. \A k \in 1 .. Len(t.ci) : Needs(t, k) <= 1
    BY <2>1 DEF Needs
  <2> QED BY <1>4, <2>2 DEF Fits
<1>6. PICK started : started = luaD_precall(q, co, 2, LUA_MULTRET)
  OBVIOUS
<1>7. p = IF started.mode # "lua" THEN started
          ELSE Doing(Activate(started, Execute(co, 1)), "run")
  <2>1. t.status = "0"
    OBVIOUS
  <2> QED BY <1>3, <1>6, <2>1, Zenon DEF Enter
<1>8. Refused(q, started, co) \/ CallsC(q, started, co, 2) \/ CallsLua(q, started, co, 2)
  <2>1. LUA_MULTRET \in Int /\ t.stack[2] \in LuaFunctions
    BY <1>3 DEF LUA_MULTRET, LuaFunctions
  <2> QED BY <1>1, <1>2, <1>3, <1>5, <1>6, <2>1, PrecallStep
<1>9. Does(q, p, co) /\ Goes(p, co)
  <2>1. CASE Refused(q, started, co) \/ CallsC(q, started, co, 2)
    <3>1. p = started
      BY <1>7, <2>1 DEF Refused, CallsC, Broken
    <3> QED BY <1>1, <1>2, <1>3, <2>1, <3>1, PrecallGoes
  <2>2. CASE CallsLua(q, started, co, 2)
    <3>1. p = Doing(Activate(started, Execute(co, 1)), "run")
      BY <1>7, <2>2 DEF CallsLua
    <3> QED BY <1>1, <1>2, <1>3, <1>5, <2>2, <3>1, LuaStarts
  <2> QED BY <1>8, <2>1, <2>2
<1>10. At(p, co)
  BY <1>9 DEF Does
<1> QED BY <1>9, <1>10, GoesFits

(* The call of yield is completed: its frame goes, and luaV_execute goes   *)
(* on with the functions under it.                                         *)
Continues(t, u) ==
  /\ u \in ThreadState /\ u.status = "0" /\ u.open = t.open /\ u.errfunc = t.errfunc
  /\ u.nCcalls = t.nCcalls /\ u.baseCcalls = t.baseCcalls
  /\ Len(u.ci) = Len(t.ci) - 1 /\ \A k \in 1 .. Len(t.ci) - 1 : u.ci[k] = t.ci[k]
  /\ Prefix(t.stack, u.stack, t.ci[Len(t.ci)].func - 1)

(* The frames that are left are Lua functions'.                            *)
LEMMA FramesContinue ==
  ASSUME NEW t \in ThreadState, Idles(t), t.status = "YIELD", NEW u, Continues(t, u),
         NEW l, l = Len(t.ci)
  PROVE  /\ l \in Nat /\ l >= 3 /\ Len(u.ci) = l - 1 /\ u.ci[1].func = 1
         /\ \A k \in 2 .. l - 1 : RunsLua(u, k)
         /\ \A k, j \in 1 .. l - 1 : k < j => Needs(u, k) < u.ci[j].func
         /\ \A k \in 1 .. l - 1 : Needs(u, k) <= Len(u.stack)
         /\ Captured(u)
<1>1. l \in Nat /\ l >= 3 /\ Len(u.ci) = l - 1 /\ t.ci[1].func = 1
      /\ \A k \in 1 .. l : t.ci[k].func \in Nat
  BY ThreadFields DEF Idles, Continues
<1>2. u.ci[1].func = 1 /\ \A k \in 1 .. l - 1 : u.ci[k] = t.ci[k]
  BY <1>1 DEF Continues
<1> DEFINE func == t.ci[l].func
<1>3. /\ func \in Nat /\ func - 1 <= Len(u.stack) /\ Len(u.stack) \in Nat
      /\ \A j \in 1 .. func - 1 : u.stack[j] = t.stack[j]
  <2>1. func \in Nat
    BY <1>1
  <2>2. u \in ThreadState
    BY DEF Continues
  <2> QED BY <2>1, <2>2, ThreadFields DEF Continues, Prefix
<1>4. \A k \in 1 .. l - 1 : Needs(t, k) < func /\ k \in 1 .. l
  <2>1. l \in 1 .. l /\ \A k \in 1 .. l - 1 : k \in 1 .. l /\ k < l
    BY <1>1
  <2> QED BY <2>1 DEF Idles
<1>5. \A k \in 1 .. l - 1 : t.ci[k].func >= 1
  <2>1. ASSUME NEW k \in 2 .. l - 1 PROVE t.ci[k].func >= 1
    <3>1. 1 < k /\ 1 \in 1 .. l /\ k \in 1 .. l
      BY <1>1
    <3>2. Needs(t, 1) < t.ci[k].func /\ Needs(t, 1) = 1 /\ t.ci[k].func \in Nat
      BY <1>1, <3>1 DEF Idles, Needs
    <3> QED BY <3>2
  <2> QED BY <1>1, <2>1
<1> HIDE DEF func
<1>6. \A k \in 1 .. l - 1 : /\ (RunsLua(u, k) <=> RunsLua(t, k)) /\ Needs(u, k) = Needs(t, k)
                            /\ u.ci[k].func = t.ci[k].func
  <2>1. ASSUME NEW k \in 1 .. l - 1
        PROVE  /\ (RunsLua(u, k) <=> RunsLua(t, k)) /\ Needs(u, k) = Needs(t, k)
               /\ u.ci[k].func = t.ci[k].func
    <3>1. u.ci[k].func = t.ci[k].func /\ t.ci[k].func \in Nat /\ t.ci[k].func >= 1
      BY <1>1, <1>2, <1>4, <1>5
    <3>2. t.ci[k].func <= Needs(t, k) /\ Needs(t, k) < func /\ Needs(t, k) \in Nat
      BY <1>4, <3>1 DEF Needs
    <3>3. t.ci[k].func \in 1 .. func - 1
      BY <1>3, <3>1, <3>2
    <3>4. u.stack[u.ci[k].func] = t.stack[t.ci[k].func]
      BY <1>3, <3>1, <3>3
    <3> QED BY <3>1, <3>4 DEF RunsLua, Needs
  <2> QED BY <2>1
<1>7. \A k \in 2 .. l - 1 : RunsLua(u, k)
  <2>1. \A k \in 2 .. l - 1 : k \in 2 .. l /\ k \in 1 .. l - 1 /\ k < l
    BY <1>1
  <2> QED BY <1>6, <2>1 DEF Idles
<1>8. \A k, j \in 1 .. l - 1 : k < j => Needs(u, k) < u.ci[j].func
  BY <1>4, <1>6 DEF Idles
<1>9. \A k \in 1 .. l - 1 : Needs(u, k) <= Len(u.stack)
  <2>1. ASSUME NEW k \in 1 .. l - 1 PROVE Needs(u, k) <= Len(u.stack)
    <3>1. Needs(t, k) < func /\ k \in 1 .. l /\ Needs(u, k) = Needs(t, k)
      BY <1>4, <1>6
    <3>2. Needs(t, k) \in Nat
      <4>1. t.ci[k].func \in Nat
        BY <1>1, <3>1
      <4> QED BY <4>1 DEF Needs
    <3> QED BY <1>3, <3>1, <3>2
  <2> QED BY <2>1
<1>10. Captured(u)
  <2>1. ASSUME NEW i \in u.open
        PROVE  \E k \in 2 .. Len(u.ci) : u.ci[k].func = i - 1 /\ RunsLua(u, k)
    <3>1. PICK k \in 2 .. l : t.ci[k].func = i - 1 /\ RunsLua(t, k)
      BY DEF Idles, Captured, Continues
    <3>2. k < l
      BY <3>1 DEF Idles
    <3>3. k \in 2 .. l - 1 /\ k \in 1 .. l - 1
      BY <1>1, <3>2
    <3> QED BY <1>1, <1>6, <3>1, <3>3
  <2> QED BY <2>1 DEF Captured
<1> QED BY <1>1, <1>2, <1>7, <1>8, <1>9, <1>10

(* A sequence without its last element.                                    *)
LEMMA FrontIs ==
  ASSUME NEW s \in Seq(Activation), s # <<>>, NEW n \in Nat, n + 1 = Len(s), NEW f, f = Front(s)
  PROVE  f \in Seq(Activation) /\ Len(f) = n /\ \A j \in 1 .. n : f[j] = s[j]
<1>1. f = SubSeq(s, 1, n) /\ n \in 0 .. Len(s)
  <2>1. Len(s) - 1 = n
    OBVIOUS
  <2> QED BY <2>1 DEF Front
<1> QED BY ONLY <1>1, s \in Seq(Activation), SubSeqProperties

(* luaV_execute runs all of the frames the yield had left.                 *)
LEMMA ContinueAccounts ==
  ASSUME NEW s \in Seq(Activation), Stacked(s), s # <<>>, NEW co,
         Last(s).kind = "resume", Last(s).th = co,
         NEW t \in ThreadState, Idles(t), t.status = "YIELD",
         t.nCcalls = CallsIn(s, Len(s)), t.baseCcalls = CallsIn(s, Len(s)),
         NEW b \in Activation, b.kind = "execute", b.th = co, b.n = Len(t.ci) - 2,
         NEW u, Continues(t, u)
  PROVE  Accounts(co, u, Append(s, b))
<1> DEFINE r == Append(s, b)
           n == Len(s)
           l == Len(t.ci)
<1>1. /\ n \in Nat \ {0} /\ n \in 1 .. n /\ n \in 0 .. n /\ s[n].kind = "resume" /\ s[n].th = co
      /\ r \in Seq(Activation) /\ Len(r) = n + 1 /\ r[n + 1] = b
      /\ \A j \in 1 .. n : r[j] = s[j]
  BY DEF Last
<1>2. /\ l \in Nat /\ l >= 3 /\ Len(u.ci) = l - 1 /\ u.ci[1].func = 1
      /\ \A k \in 2 .. l - 1 : RunsLua(u, k)
      /\ \A k, j \in 1 .. l - 1 : k < j => Needs(u, k) < u.ci[j].func
      /\ \A k \in 1 .. l - 1 : Needs(u, k) <= Len(u.stack)
      /\ Captured(u)
  BY FramesContinue
<1>3. co # Main /\ \A i \in 1 .. n - 1 : s[i].th # co
  BY <1>1, OnlyResumed
<1>4. Depth(s, co, n) = 1 /\ Nearest(s, co, n) = 0
  <2>1. PICK f, k : f = Front(s) /\ k = n - 1
    OBVIOUS
  <2>2. f \in Seq(Activation) /\ Len(f) = k /\ k + 1 = n /\ \A j \in 1 .. k : s[j] = f[j]
    <3>1. k \in Nat /\ k + 1 = Len(s) /\ k + 1 = n /\ f = Front(s) /\ s # <<>>
      BY <1>1, <2>1
    <3>2. f \in Seq(Activation) /\ Len(f) = k /\ \A j \in 1 .. k : f[j] = s[j]
      BY ONLY <3>1, s \in Seq(Activation), FrontIs
    <3> QED BY ONLY <3>1, <3>2
  <2>3. Absent(co, f)
    BY <1>3, <2>1, <2>2 DEF Absent
  <2>4. Depth(s, co, k + 1) = 1 /\ Nearest(s, co, k + 1) = 0
    BY <1>1, <2>2, <2>3, JustResumed
  <2> QED BY <2>2, <2>4
<1> HIDE DEF r, l
<1>5. /\ CallsIn(r, n + 1) = CallsIn(s, n) /\ CallsIn(r, n) = CallsIn(s, n)
      /\ Depth(r, co, n) = 1 /\ Depth(r, co, n + 1) = l - 1 /\ Nearest(r, co, n + 1) = 0
  <2>1. OneOver(s, r, co, n)
    BY <1>1, OneMoreActivation
  <2>2. Size(r[n + 1]) = l - 2 /\ r[n + 1].kind = "execute" /\ r[n + 1].th = co
    BY <1>1 DEF Size, l
  <2> QED BY <1>2, <1>4, <2>1, <2>2 DEF OneOver
<1>6. \A i \in 1 .. n + 1 : r[i].th = co <=> i \in {n, n + 1}
  <2>1. \A i \in 1 .. n + 1 : i \in {n, n + 1} \/ i \in 1 .. n - 1
    BY <1>1
  <2>2. \A i \in 1 .. n - 1 : i \in 1 .. n /\ i # n /\ i # n + 1
    BY <1>1
  <2> QED BY <1>1, <1>3, <2>1, <2>2
<1>7. \A i \in 1 .. Len(r) : ~ (r[i].th = co /\ r[i].kind = "pcall")
  BY <1>1, <1>6
<1>8. Counted(co, u, r)
  <2>1. u.nCcalls = CallsIn(r, n + 1) /\ u.baseCcalls = CallsIn(r, n)
    BY <1>5 DEF Continues
  <2>2. ASSUME NEW i \in 1 .. Len(r), r[i].th = co, \A j \in i + 1 .. Len(r) : r[j].th # co
        PROVE  i = n + 1
    <3>1. r[n + 1].th = co
      BY <1>1
    <3> QED BY <1>1, <2>2, <3>1
  <2>3. ASSUME NEW i \in 1 .. Len(r), r[i].th = co, r[i].kind = "resume"
        PROVE  i = n
    BY <1>1, <1>6, <2>3
  <2> QED BY <1>3, <1>7, <2>1, <2>2, <2>3 DEF Counted
<1>9. Framed(co, u, r)
  <2>1. u.status = "0" /\ Len(u.ci) = Depth(r, co, Len(r))
    BY <1>1, <1>2, <1>5 DEF Continues
  <2>2. ASSUME NEW i \in 1 .. Len(r), NEW k \in Depth(r, co, i - 1) + 1 .. Depth(r, co, i)
        PROVE  RunsLua(u, k) <=> r[i].kind = "execute"
    <3>1. /\ r[i].th = co /\ k \in Depth(r, co, i - 1) + 1 .. Depth(r, co, i - 1) + Size(r[i])
      BY <1>1, FramesOwned
    <3>2. CASE i = n
      <4>1. Size(r[i]) = 0
        BY <1>1, <3>2 DEF Size
      <4>2. Depth(r, co, i - 1) \in Nat
        <5>1. i - 1 \in 0 .. Len(r)
          OBVIOUS
        <5> QED BY <1>1, <5>1, DepthStep
      <4> QED BY <3>1, <4>1, <4>2
    <3>3. CASE i = n + 1
      <4>1. Depth(r, co, i - 1) = 1 /\ Depth(r, co, i) = l - 1
        BY <1>1, <1>5, <3>3
      <4>2. k \in 2 .. l - 1
        BY <1>2, <4>1
      <4> QED BY <1>1, <1>2, <3>3, <4>2
    <3> QED BY <1>1, <1>6, <3>1, <3>2, <3>3
  <2> QED BY <1>7, <2>1, <2>2 DEF Framed
<1>10. LaidOut(co, u, r) /\ Fits(co, u, r, Len(u.stack))
  <2>1. /\ Len(u.ci) >= 1 /\ u.ci[1].func = 1
        /\ \A k, j \in 1 .. Len(u.ci) : k < j => Needs(u, k) < u.ci[j].func
        /\ \A k \in 1 .. Len(u.ci) : Needs(u, k) <= Len(u.stack)
    <3>1. l - 1 >= 1
      BY ONLY <1>2
    <3>2. Len(u.ci) = l - 1
      BY <1>2
    <3> HIDE DEF l
    <3> QED BY ONLY <1>2, <3>1, <3>2, Zenon
  <2> QED BY <1>7, <2>1, Zenon DEF LaidOut, Fits
<1>11. Handled(co, u, r)
  <2>1. u.errfunc = 0 /\ Nearest(r, co, Len(r)) = 0
    BY <1>1, <1>5 DEF Continues, Idles
  <2> QED BY <1>7, <2>1 DEF Handled
<1>12. Accounts(co, u, r)
  BY <1>2, <1>8, <1>9, <1>10, <1>11 DEF Accounts
<1> QED BY <1>12 DEF r

(* A thread's status is set.                                               *)
Marked(m, p, th, x) ==
  /\ p \in Machine /\ p.cs = m.cs /\ p.mode = m.mode
  /\ \A o \in Threads \ {th} : p.thread[o] = m.thread[o]
  /\ p.thread[th].status = x
  /\ p.thread[th].stack = m.thread[th].stack /\ p.thread[th].ci = m.thread[th].ci
  /\ p.thread[th].open = m.thread[th].open /\ p.thread[th].errfunc = m.thread[th].errfunc
  /\ p.thread[th].nCcalls = m.thread[th].nCcalls
  /\ p.thread[th].baseCcalls = m.thread[th].baseCcalls

(* Nothing else of the thread changes.                                     *)
LEMMA Marking ==
  ASSUME NEW m \in Machine, NEW th \in Threads, NEW x \in {"0", "YIELD"} \union Errors,
         NEW p, p = [m EXCEPT !.thread[th].status = x]
  PROVE  Marked(m, p, th, x)
<1> DEFINE t == m.thread[th]
           u == [t EXCEPT !.status = x]
<1>1. t \in ThreadState /\ m.cs \in Seq(Activation) /\ m.mode \in Modes
  BY DEF Machine
<1>2. p = Made(m, th, u, m.cs, m.mode)
  BY Fields, Zenon DEF Made
<1>3. /\ u \in ThreadState /\ u.stack = t.stack /\ u.ci = t.ci /\ u.open = t.open
      /\ u.nCcalls = t.nCcalls /\ u.baseCcalls = t.baseCcalls /\ u.status = x
      /\ u.errfunc = t.errfunc
  <2> HIDE DEF t
  <2> QED BY <1>1 DEF ThreadState
<1> HIDE DEF u
<1>4. /\ p \in Machine /\ p.thread[th] = u /\ p.cs = m.cs /\ p.mode = m.mode
      /\ \A o \in Threads \ {th} : p.thread[o] = m.thread[o]
  <2>0. m \in Machine /\ th \in Threads
    OBVIOUS
  <2>1. u \in ThreadState
    BY <1>3
  <2>2. PICK s, what : s = m.cs /\ what = m.mode
    OBVIOUS
  <2>3. s \in Seq(Activation) /\ what \in Modes /\ p = Made(m, th, u, s, what)
    BY <1>1, <1>2, <2>2
  <2>4. /\ p \in Machine /\ p.thread[th] = u /\ p.cs = s /\ p.mode = what
        /\ \A o \in Threads \ {th} : p.thread[o] = m.thread[o]
    BY ONLY <2>0, <2>1, <2>3, MadeIs
  <2> QED BY <2>2, <2>4
<1> QED BY <1>3, <1>4 DEF Marked

(* What lua_resume has entered runs.                                       *)
Enters(q, p, co) ==
  /\ At(p, co) /\ ModeFits(p)
  /\ \A o \in Threads \ {co} : p.thread[o] = q.thread[o]
  /\ p.thread[co].status = "0" /\ ActiveIn(p.cs) = ActiveIn(q.cs)

(* A coroutine that has yielded goes on, with as many frames as            *)
(* luaV_execute is told to run.                                            *)
LEMMA EnterAgain ==
  ASSUME NEW m, NEW co \in Coroutine, NEW q, Resuming(m, q, co), q.mode = "run",
         q.thread[co].status = "YIELD", NEW p, p = Enter(q, co)
  PROVE  Enters(q, p, co)
<1> DEFINE t == q.thread[co]
           s == q.cs
           l == Len(t.ci)
<1>1. /\ Good(q) /\ q \in Machine /\ s \in Seq(Activation) /\ s # <<>> /\ Stacked(s)
      /\ Last(s).kind = "resume" /\ Last(s).th = co /\ co \in Threads /\ Idles(t)
      /\ t \in ThreadState /\ t.nCcalls = CallsIn(s, Len(s)) /\ t.baseCcalls = CallsIn(s, Len(s))
  <2>1. /\ Good(q) /\ s \in Seq(Activation) /\ s # <<>> /\ Last(s).kind = "resume"
        /\ Last(s).th = co /\ co \in Threads /\ Idles(t)
        /\ t.nCcalls = CallsIn(s, Len(s)) /\ t.baseCcalls = CallsIn(s, Len(s))
    BY DEF Resuming, Threads
  <2>2. q \in Machine /\ Stacked(s)
    BY <2>1 DEF Good
  <2>3. t \in ThreadState
    BY <2>1, <2>2 DEF Machine
  <2> QED BY <2>1, <2>2, <2>3
<1>2. l \in Nat /\ l >= 3 /\ t.ci[l].func \in 1 .. Len(t.stack)
  <2>1. l \in Nat /\ l >= 3 /\ Len(t.stack) \in Nat /\ \A k \in 1 .. l : t.ci[k].func \in Nat
    BY <1>1, ThreadFields DEF Idles
  <2>2. 1 \in 1 .. l /\ l \in 1 .. l /\ 1 < l
    BY <2>1
  <2>3. Needs(t, 1) < t.ci[l].func /\ Needs(t, l) <= Len(t.stack) /\ t.ci[1].func = 1
    BY <1>1, <2>2 DEF Idles
  <2>4. t.ci[l].func \in Nat
    BY <2>1, <2>2
  <2> HIDE DEF t, l
  <2>5. Needs(t, 1) = 1
    BY <2>3 DEF Needs
  <2>6. Needs(t, l) \in {t.ci[l].func, t.ci[l].func + 1}
    BY DEF Needs
  <2> QED BY <2>1, <2>3, <2>4, <2>5, <2>6
<1>3. PICK w : w = [q EXCEPT !.thread[co].status = "0"]
  OBVIOUS
<1>4. PICK g : g = luaD_poscall(w, co, <<"v">>)
  OBVIOUS
<1>5. PICK b : b = Execute(co, l - 2)
  OBVIOUS
<1>6. p = Activate(g, b)
  <2>1. t.status # "0"
    OBVIOUS
  <2> QED BY <1>3, <1>4, <1>5, <2>1, Zenon DEF Enter
<1>7. b \in Activation /\ b.kind = "execute" /\ b.th = co /\ b.n = l - 2
  <2>1. l - 2 \in Nat \ {0}
    BY <1>2
  <2> QED BY <1>1, <1>5, <2>1 DEF Execute, Activation
<1>8. Marked(q, w, co, "0")
  BY <1>1, <1>3, Marking
<1>9. /\ Alters(w, g, co) /\ g.cs = s /\ g.mode = "run"
      /\ Pops(w.thread[co], g.thread[co])
  <2>1. w \in Machine /\ w.thread[co].ci = t.ci /\ w.thread[co].stack = t.stack /\ w.cs = s
        /\ w.mode = "run"
    BY <1>8 DEF Marked
  <2>2. w.thread[co].ci # <<>>
        /\ w.thread[co].ci[Len(w.thread[co].ci)].func \in 1 .. Len(w.thread[co].stack)
    BY <1>2, <2>1
  <2> QED BY <1>1, <1>4, <2>1, <2>2, PoscallMade
<1>10. /\ Alters(g, p, co) /\ p.cs = Append(s, b) /\ p.mode = "run" /\ p.thread = g.thread
  BY <1>1, <1>6, <1>7, <1>9, OtherwiseMade DEF Alters
<1>11. /\ p \in Machine /\ p.cs = Append(s, b) /\ p.mode = "run"
       /\ \A o \in Threads \ {co} : p.thread[o] = q.thread[o]
       /\ p.thread[co].status = "0" /\ p.thread[co] \in ThreadState
  <2>1. p.thread[co] \in ThreadState
    BY <1>1, <1>10 DEF Alters, Machine
  <2> QED BY <1>8, <1>9, <1>10, <2>1 DEF Alters, Apart, Marked
<1>12. Continues(t, p.thread[co])
  <2> DEFINE u == p.thread[co]
             v == w.thread[co]
  <2>1. Pops(v, u) /\ v.stack = t.stack /\ v.ci = t.ci /\ v.open = t.open
        /\ v.errfunc = t.errfunc /\ v.nCcalls = t.nCcalls /\ v.baseCcalls = t.baseCcalls
    BY <1>8, <1>9, <1>10 DEF Marked
  <2>2. u \in ThreadState /\ u.status = "0"
    BY <1>11
  <2> HIDE DEF u, v, t
  <2>3. /\ u.open = t.open /\ u.errfunc = t.errfunc
        /\ u.nCcalls = t.nCcalls /\ u.baseCcalls = t.baseCcalls
    BY <2>1, Zenon DEF Pops, Rest
  <2>4. Len(u.ci) = Len(t.ci) - 1 /\ \A k \in 1 .. Len(t.ci) - 1 : u.ci[k] = t.ci[k]
    BY <2>1, Zenon DEF Pops
  <2>5. Prefix(t.stack, u.stack, t.ci[Len(t.ci)].func - 1)
    BY <2>1, Zenon DEF Pops
  <2>6. Continues(t, u)
    BY <2>2, <2>3, <2>4, <2>5, Zenon DEF Continues
  <2> QED BY <2>6 DEF u, t
<1> HIDE DEF t, s, l
<1>13. /\ p.cs \in Seq(Activation) /\ p.cs # <<>> /\ Last(p.cs) = b /\ Len(p.cs) = Len(s) + 1
       /\ \A j \in 1 .. Len(s) : p.cs[j] = s[j]
  <2>1. p.cs \in Seq(Activation) /\ p.cs # <<>> /\ Last(p.cs) = b /\ Len(p.cs) = Len(s) + 1
    BY <1>1, <1>7, <1>11, LastAppended
  <2> QED BY <1>1, <1>11, <2>1
<1>14. Stacked(p.cs)
  <2>1. s[Len(s)] = Last(s) /\ <<Last(s).kind, b.kind>> \in Stands
    BY <1>1, <1>7 DEF Stands, Last
  <2> QED BY <1>1, <1>7, <1>11, <2>1, StackedMore
<1>15. Accounts(co, p.thread[co], p.cs)
  <2>1. t.status = "YIELD" /\ b.n = Len(t.ci) - 2
    BY <1>7 DEF t, l
  <2> QED BY <1>1, <1>7, <1>11, <1>12, <2>1, ContinueAccounts
<1>16. ASSUME NEW o \in Threads \ {co} PROVE Accounts(o, p.thread[o], p.cs)
  <2>1. p.thread[o] = q.thread[o] /\ Accounts(o, q.thread[o], s)
    BY <1>1, <1>11 DEF Good, s
  <2>2. Len(s) \in 0 .. Len(s) /\ Len(s) <= Len(p.cs) /\ \A j \in Len(s) + 1 .. Len(s) : s[j].th # o
    BY <1>1, <1>13
  <2>3. p.cs[Len(s) + 1] = b /\ Len(s) \in Nat
    BY <1>1, <1>7, <1>11
  <2>4. \A j \in Len(s) + 1 .. Len(p.cs) : p.cs[j].th # o
    BY <1>7, <1>13, <2>3
  <2> QED BY <1>1, <1>13, <2>1, <2>2, <2>4, OthersKeep
<1>17. At(p, co)
  <2>1. Good(p)
    BY <1>11, <1>14, <1>15, <1>16 DEF Good
  <2>2. OnTop(p.cs, co)
    BY <1>7, <1>13 DEF OnTop, Last
  <2> QED BY <1>1, <1>11, <2>1, <2>2 DEF At
<1>18. ModeFits(p)
  <2>1. Goes(p, co)
    BY <1>7, <1>11, <1>13 DEF Goes
  <2> QED BY <1>17, <2>1, GoesFits
<1>19. ActiveIn(p.cs) = ActiveIn(s)
  <2>1. 1 .. Len(p.cs) = (1 .. Len(s)) \union {Len(s) + 1} /\ Len(s) \in 1 .. Len(s)
    BY <1>1, <1>13
  <2>2. p.cs[Len(s) + 1].th = co /\ s[Len(s)].th = co
    BY <1>1, <1>7, <1>11 DEF Last
  <2>3. {p.cs[i].th : i \in 1 .. Len(p.cs)} = {s[i].th : i \in 1 .. Len(s)}
    BY <1>13, <2>1, <2>2
  <2> QED BY <2>3 DEF ActiveIn
<1> QED BY <1>11, <1>17, <1>18, <1>19 DEF Enters, s

(* A coroutine that is new, or has yielded, runs.                          *)
LEMMA EnterFits ==
  ASSUME NEW m, NEW co \in Coroutine, NEW q, Resuming(m, q, co), q.mode = "run",
         \/ q.thread[co].status = "YIELD"
         \/ q.thread[co].status = "0" /\ q.thread[co].stack = <<Nil, "L">>,
         NEW p, p = Enter(q, co)
  PROVE  Enters(q, p, co)
<1>1. CASE q.thread[co].status = "YIELD"
  BY <1>1, EnterAgain
<1>2. CASE q.thread[co].status = "0" /\ q.thread[co].stack = <<Nil, "L">>
  <2>1. Does(q, p, co) /\ ModeFits(p)
    BY <1>2, EnterNew
  <2> QED BY <1>2, <2>1 DEF Does, Apart, Enters
<1> QED BY <1>1, <1>2
-----------------------------------------------------------------------------
(* coroutine.yield.  Where it is allowed, nothing but luaV_execute is      *)
(* between lua_resume and it.                                              *)
LEMMA YieldUnder ==
  ASSUME NEW m, NEW co, At(m, co), m.cs # <<>>, Last(m.cs).kind = "cfun",
         CanYield(m.thread[co]), NEW s, s = m.cs, NEW n, n = Len(s)
  PROVE  /\ co \in Coroutine /\ n \in Nat /\ n >= 3 /\ s[n].th = co
         /\ s[n - 1].kind = "execute" /\ s[n - 1].th = co
         /\ s[n - 2].kind = "resume" /\ s[n - 2].th = co
<1> DEFINE t == m.thread[co]
<1>1. /\ s \in Seq(Activation) /\ Stacked(s) /\ n \in Nat \ {0} /\ s[n].kind = "cfun"
      /\ s[n].th = co /\ co \in Threads /\ t.nCcalls = CallsIn(s, n) /\ Counted(co, t, s)
      /\ t.baseCcalls \in Nat /\ CallsIn(s, n) <= t.baseCcalls
  <2>1. /\ s \in Seq(Activation) /\ Stacked(s) /\ OnTop(s, co) /\ co \in Threads
        /\ t.nCcalls = CallsIn(s, n) /\ Accounts(co, t, s) /\ t \in ThreadState
    BY TopIs
  <2>2. t.nCcalls <= t.baseCcalls /\ t.baseCcalls \in Nat
    BY <2>1, ThreadFields DEF CanYield
  <2> QED BY <2>1, <2>2 DEF OnTop, Last, Accounts
<1>0. n \in Nat /\ n >= 1 /\ Len(s) = n
  BY <1>1
<1>2. \A i \in 1 .. n : CallsIn(s, i) \in Nat /\ CallsIn(s, i) <= CallsIn(s, n)
  BY <1>1, CallsStep, CallsGrow
<1>3. \A i \in 1 .. n : s[i].kind \in {"call", "resume"} => CallsIn(s, i) >= 1 /\
                          \A j \in 1 .. i - 1 : CallsIn(s, j) < CallsIn(s, i)
  <2>1. ASSUME NEW i \in 1 .. n, s[i].kind \in {"call", "resume"}
        PROVE  CallsIn(s, i) >= 1 /\ \A j \in 1 .. i - 1 : CallsIn(s, j) < CallsIn(s, i)
    <3>1. i \in Nat \ {0} /\ i - 1 \in Nat
      OBVIOUS
    <3>2. CallsIn(s, i) = CallsIn(s, i - 1) + 1 /\ CallsIn(s, i - 1) \in Nat
      BY <2>1, <3>1, CallsStep
    <3>3. ASSUME NEW j \in 1 .. i - 1 PROVE CallsIn(s, j) < CallsIn(s, i)
      <4>1. j \in Nat /\ j <= i - 1
        BY ONLY <3>1, j \in 1 .. i - 1
      <4>2. CallsIn(s, j) <= CallsIn(s, i - 1) /\ CallsIn(s, j) \in Nat
        BY <3>1, <4>1, CallsGrow, CallsStep
      <4> QED BY <3>2, <4>2
    <3> QED BY <3>2, <3>3
  <2> QED BY <2>1
<1>4. n >= 2 /\ s[n - 1].kind \in {"call", "execute"} /\ s[n - 1].th = co
  <2>1. n # 1
    BY <1>1 DEF Stacked, Founded
  <2>2. n - 1 \in 1 .. Len(s) - 1 /\ (n - 1) + 1 = n
    BY ONLY <1>0, <2>1
  <2>3. <<s[n - 1].kind, s[n].kind>> \in Stands
    BY <1>1, <2>2 DEF Stacked, StandsWell
  <2>4. s[n - 1].kind \in {"call", "execute"}
    BY <1>1, <2>3 DEF Stands
  <2>5. s[n - 1].th = s[n].th
    <3>1. n - 1 \in 1 .. Len(s) /\ n \in 1 .. Len(s) /\ n - 1 < n /\ \A j \in (n - 1) + 1 .. n : j = n
      BY ONLY <1>0, <2>1
    <3> QED BY <1>1, <3>1 DEF Stacked, InPieces
  <2>6. n >= 2
    BY ONLY <1>0, <2>1
  <2> QED BY <1>1, <2>4, <2>5, <2>6
<1>5. s[n - 1].kind = "execute" =>
        n >= 3 /\ s[n - 2].kind \in {"call", "resume"} /\ s[n - 2].th = co
  <2> SUFFICES ASSUME s[n - 1].kind = "execute"
               PROVE  n >= 3 /\ s[n - 2].kind \in {"call", "resume"} /\ s[n - 2].th = co
    OBVIOUS
  <2>1. n # 2
    BY <1>1 DEF Stacked, Founded
  <2>0. n >= 2
    BY <1>4
  <2>2. n - 2 \in 1 .. Len(s) - 1 /\ (n - 2) + 1 = n - 1 /\ n >= 3
    BY ONLY <1>0, <2>0, <2>1
  <2>3. <<s[n - 2].kind, s[n - 1].kind>> \in Stands
    BY <1>1, <2>2 DEF Stacked, StandsWell
  <2>4. s[n - 2].kind \in {"call", "resume"}
    BY <2>3 DEF Stands
  <2>5. s[n - 2].th = s[n - 1].th
    <3>1. n - 2 \in 1 .. Len(s) /\ n - 1 \in 1 .. Len(s) /\ n - 2 < n - 1
          /\ \A j \in (n - 2) + 1 .. n - 1 : j = n - 1
      BY ONLY <1>0, <2>2
    <3> QED BY <1>1, <3>1 DEF Stacked, InPieces
  <2> QED BY <1>4, <2>2, <2>4, <2>5
<1>6. co # Main
  <2> SUFFICES ASSUME co = Main PROVE FALSE
    OBVIOUS
  <2>1. CallsIn(s, n) <= 0 /\ CallsIn(s, n) \in Nat
    BY <1>1, <1>2 DEF Counted
  <2>2. CASE s[n - 1].kind = "call"
    <3>1. n - 1 \in 1 .. n
      BY <1>4, <1>1
    <3> QED BY <1>2, <1>3, <2>1, <2>2, <3>1
  <2>3. CASE s[n - 1].kind = "execute"
    <3>1. n - 2 \in 1 .. n
      BY <1>1, <1>5, <2>3
    <3> QED BY <1>2, <1>3, <1>5, <2>1, <2>3, <3>1
  <2> QED BY <1>4, <2>2, <2>3
<1>7. co \in Coroutine
  BY <1>1, <1>6 DEF Threads
<1>8. PICK j \in 1 .. n : s[j].kind = "resume" /\ s[j].th = co
  BY <1>1, <1>6 DEF Stacked, Begun
<1>9. CallsIn(s, n) <= CallsIn(s, j)
  BY <1>1, <1>8 DEF Counted
<1>10. \A i \in 1 .. n : s[i].kind \in {"call", "resume"} /\ j < i => FALSE
  <2>1. ASSUME NEW i \in 1 .. n, s[i].kind \in {"call", "resume"}, j < i PROVE FALSE
    <3>1. j \in 1 .. i - 1
      BY <2>1
    <3>2. CallsIn(s, j) < CallsIn(s, i) /\ CallsIn(s, i) <= CallsIn(s, n)
      BY <1>2, <1>3, <2>1, <3>1
    <3> QED BY <1>2, <1>9, <3>2
  <2> QED BY <2>1
<1>11. s[n - 1].kind = "execute"
  <2> SUFFICES ASSUME s[n - 1].kind = "call" PROVE FALSE
    BY <1>4
  <2>1. n - 1 \in 1 .. n /\ j # n /\ j # n - 1
    BY <1>1, <1>4, <1>8
  <2>2. j < n - 1
    BY <1>1, <2>1
  <2> QED BY <1>10, <2>1, <2>2
<1>12. s[n - 2].kind = "resume"
  <2> SUFFICES ASSUME s[n - 2].kind = "call" PROVE FALSE
    BY <1>5, <1>11
  <2>1. n - 2 \in 1 .. n /\ j # n /\ j # n - 1 /\ j # n - 2
    BY <1>1, <1>5, <1>8, <1>11
  <2>2. j < n - 2
    BY <1>1, <2>1
  <2> QED BY <1>10, <2>1, <2>2
<1> QED BY <1>1, <1>4, <1>5, <1>7, <1>11, <1>12

Yielded(m, th) ==
  LET yielded == Leave([m EXCEPT !.thread[th].status = "YIELD"])
      left    == IF Last(yielded.cs).kind = "execute" THEN Leave(yielded) ELSE yielded
  IN  Doing(left, "return")

(* A coroutine that has yielded is about to leave lua_resume.              *)
Yields(m, p, co) ==
  /\ Good(p) /\ ModeFits(p) /\ co \in Coroutine
  /\ \A o \in Threads \ {co} : p.thread[o] = m.thread[o]
  /\ p.thread[co].status = "YIELD" /\ p.mode = "return"
  /\ p.cs # <<>> /\ Last(p.cs).kind = "resume" /\ Last(p.cs).th = co
  /\ ActiveIn(p.cs) = ActiveIn(m.cs)

(* The call of yield and the luaV_execute that made it leave the C stack;  *)
(* no frame goes.                                                          *)
LEMMA YieldCuts ==
  ASSUME NEW m \in Machine, NEW th \in Threads, NEW s, s = m.cs, NEW n, n = Len(s),
         n \in Nat, n >= 3, s[n - 1].kind = "execute",
         NEW p, p = Yielded(m, th)
  PROVE  /\ p \in Machine /\ p.cs \in Seq(Activation) /\ Len(p.cs) = n - 2
         /\ \A j \in 1 .. n - 2 : p.cs[j] = s[j]
         /\ p.mode = "return"
         /\ \E q : Marked(m, q, th, "YIELD") /\ p.thread = q.thread
<1>1. PICK q : q = [m EXCEPT !.thread[th].status = "YIELD"]
  OBVIOUS
<1>2. Marked(m, q, th, "YIELD")
  BY <1>1, Marking
<1>3. q \in Machine /\ q.cs = s /\ s \in Seq(Activation) /\ s # <<>>
  BY <1>2 DEF Marked, Machine
<1>4. PICK w : w = Leave(q)
  OBVIOUS
<1>5. Alters(q, w, th) /\ w.cs = Front(s) /\ w.thread = q.thread
  BY <1>3, <1>4, OtherwiseMade
<1>6. PICK r : r = Front(s)
  OBVIOUS
<1>7. r \in Seq(Activation) /\ Len(r) = n - 1 /\ \A j \in 1 .. n - 1 : r[j] = s[j]
  <2>1. n - 1 \in Nat /\ (n - 1) + 1 = Len(s)
    OBVIOUS
  <2> QED BY ONLY <1>3, <1>6, <2>1, FrontIs
<1>8. Last(w.cs).kind = "execute" /\ w \in Machine /\ w.cs = r /\ r # <<>>
  <2>1. Last(r) = s[n - 1] /\ r # <<>>
    BY <1>7 DEF Last
  <2> QED BY <1>5, <1>6, <2>1 DEF Alters
<1>9. PICK x : x = Leave(w)
  OBVIOUS
<1>10. Alters(w, x, th) /\ x.cs = Front(r) /\ x.thread = w.thread
  BY <1>8, <1>9, OtherwiseMade
<1>11. p = Doing(x, "return")
  BY <1>1, <1>4, <1>8, <1>9, Zenon DEF Yielded
<1>12. Alters(x, p, th) /\ p.cs = x.cs /\ p.mode = "return" /\ p.thread = x.thread
  <2>1. x \in Machine /\ "return" \in Modes
    BY <1>10 DEF Alters, Modes
  <2> QED BY <1>11, <2>1, DoingMade
<1>13. p.cs \in Seq(Activation) /\ Len(p.cs) = n - 2 /\ \A j \in 1 .. n - 2 : p.cs[j] = s[j]
  <2>1. PICK c : c = Front(r)
    OBVIOUS
  <2>2. c \in Seq(Activation) /\ Len(c) = n - 2 /\ \A j \in 1 .. n - 2 : c[j] = r[j]
    <3>1. n - 2 \in Nat /\ (n - 2) + 1 = Len(r)
      BY <1>7
    <3> QED BY ONLY <1>7, <1>8, <2>1, <3>1, FrontIs
  <2>3. \A j \in 1 .. n - 2 : j \in 1 .. n - 1
    OBVIOUS
  <2> QED BY <1>7, <1>10, <1>12, <2>1, <2>2, <2>3
<1> QED BY <1>2, <1>5, <1>10, <1>12, <1>13 DEF Alters

(* What a yield leaves of its thread is right for a coroutine that is not  *)
(* on the C stack.                                                         *)
LEMMA YieldFits ==
  ASSUME NEW m, NEW co, At(m, co), m.cs # <<>>, Last(m.cs).kind = "cfun",
         CanYield(m.thread[co]), NEW p, p = Yielded(m, co)
  PROVE  Yields(m, p, co)
<1> DEFINE t == m.thread[co]
           u == p.thread[co]
<1>1. PICK s, r, n : s = m.cs /\ r = p.cs /\ n = Len(s)
  OBVIOUS
<1>2. /\ m \in Machine /\ Good(m) /\ co \in Threads /\ s \in Seq(Activation) /\ Stacked(s)
      /\ t \in ThreadState /\ Accounts(co, t, s) /\ t.status = "0"
      /\ t.nCcalls = CallsIn(s, n) /\ t.errfunc = Nearest(s, co, n)
      /\ Len(t.ci) = Depth(s, co, n)
  <2>1. Good(m)
    BY DEF At
  <2> QED BY <1>1, <2>1, TopIs
<1>3. /\ co \in Coroutine /\ n \in Nat /\ n >= 3 /\ s[n].th = co
      /\ s[n - 1].kind = "execute" /\ s[n - 1].th = co
      /\ s[n - 2].kind = "resume" /\ s[n - 2].th = co
  BY <1>1, YieldUnder
<1>4. s[n].kind = "cfun"
  BY <1>1 DEF Last
<1>5. /\ p \in Machine /\ r \in Seq(Activation) /\ Len(r) = n - 2
      /\ \A j \in 1 .. n - 2 : r[j] = s[j]
      /\ p.mode = "return"
      /\ \E q : Marked(m, q, co, "YIELD") /\ p.thread = q.thread
  <2>1. n \in Nat /\ n >= 3 /\ s[n - 1].kind = "execute" /\ m \in Machine /\ co \in Threads
    BY <1>2, <1>3
  <2>2. /\ p \in Machine /\ p.cs \in Seq(Activation) /\ Len(p.cs) = n - 2
        /\ \A j \in 1 .. n - 2 : p.cs[j] = s[j]
    BY ONLY <1>1, <2>1, p = Yielded(m, co), YieldCuts
  <2>3. p.mode = "return" /\ \E q : Marked(m, q, co, "YIELD") /\ p.thread = q.thread
    BY ONLY <1>1, <2>1, p = Yielded(m, co), YieldCuts
  <2> QED BY <1>1, <2>2, <2>3
<1>6. PICK q : Marked(m, q, co, "YIELD") /\ p.thread = q.thread
  BY <1>5
<1>7. /\ u.stack = t.stack /\ u.ci = t.ci /\ u.open = t.open /\ u.errfunc = t.errfunc
      /\ u.nCcalls = t.nCcalls /\ u.baseCcalls = t.baseCcalls /\ u.status = "YIELD"
      /\ \A o \in Threads \ {co} : p.thread[o] = m.thread[o]
  BY <1>6 DEF Marked
<1>8. Stacked(r)
  <2>1. Len(r) <= Len(s) /\ \A i \in 1 .. Len(r) : r[i].kind = s[i].kind /\ r[i].th = s[i].th
    <3>1. n = Len(s) /\ n \in Nat /\ Len(r) = n - 2 /\ \A j \in 1 .. n - 2 : r[j] = s[j]
      BY <1>1, <1>3, <1>5
    <3> QED BY ONLY <3>1
  <2> QED BY <1>2, <1>5, <2>1, StackedLess
<1>9. r # <<>> /\ Last(r).kind = "resume" /\ Last(r).th = co
  BY <1>3, <1>5 DEF Last
<1>10. PICK k : k = n - 3
  OBVIOUS
<1>11. k \in Nat /\ k + 1 = Len(r) /\ k + 1 = n - 2 /\ k + 1 \in 1 .. Len(r)
  BY <1>3, <1>5, <1>10
<1>12. PICK f \in Seq(Activation) : Len(f) = k /\ Absent(co, f) /\ \A j \in 1 .. k : r[j] = f[j]
  <2>1. PICK f : f = Front(r)
    OBVIOUS
  <2>2. f \in Seq(Activation) /\ Len(f) = k /\ \A j \in 1 .. k : f[j] = r[j]
    BY <1>5, <1>9, <1>11, <2>1, FrontIs
  <2>3. \A i \in 1 .. k : r[i].th # co
    <3>1. r[k + 1].kind = "resume" /\ r[k + 1].th = co /\ (k + 1) - 1 = k
      BY <1>9, <1>11 DEF Last
    <3>2. \A i \in 1 .. (k + 1) - 1 : r[i].th # co
      BY <1>5, <1>8, <1>11, <3>1, OnlyResumed
    <3> QED BY <3>1, <3>2
  <2>4. co # Main
    BY <1>3, MainAssumption
  <2> QED BY <2>2, <2>3, <2>4 DEF Absent
<1>13. /\ Depth(r, co, n - 2) = 1 /\ Nearest(r, co, n - 2) = 0
       /\ Accounts(co, u, r) <=> /\ Idles(u) /\ u.nCcalls = CallsIn(r, n - 2)
                                 /\ u.baseCcalls = CallsIn(r, n - 2)
  <2>1. r[k + 1].kind = "resume" /\ r[k + 1].th = co
    BY <1>9, <1>11 DEF Last
  <2>2. Depth(r, co, k + 1) = 1 /\ Nearest(r, co, k + 1) = 0
    BY <1>5, <1>11, <1>12, <2>1, JustResumed
  <2>3. Accounts(co, u, r) <=> /\ Idles(u) /\ u.nCcalls = CallsIn(r, k + 1)
                               /\ u.baseCcalls = CallsIn(r, k + 1)
    BY <1>5, <1>11, <1>12, <2>1, JustResumed
  <2> QED BY <1>11, <2>2, <2>3
<1>14. /\ CallsIn(s, n - 2) = CallsIn(r, n - 2) /\ Depth(s, co, n - 2) = 1
       /\ Nearest(s, co, n - 2) = 0
  <2>1. n - 2 \in Nat
    BY <1>3
  <2>2. \A j \in 1 .. n - 2 : r[j] = s[j]
    BY <1>5
  <2>3. /\ CallsIn(r, n - 2) = CallsIn(s, n - 2) /\ Depth(r, co, n - 2) = Depth(s, co, n - 2)
        /\ Nearest(r, co, n - 2) = Nearest(s, co, n - 2)
    BY ONLY <2>1, <2>2, SamePart
  <2> QED BY <1>13, <2>3
<1>15. CallsIn(s, n) = CallsIn(s, n - 2)
  <2>1. n \in Nat \ {0} /\ n - 1 \in Nat \ {0} /\ (n - 1) - 1 = n - 2
    BY <1>3
  <2>2. CallsIn(s, n) = CallsIn(s, n - 1) + 0 /\ CallsIn(s, n - 1) \in Nat
    BY <1>4, <2>1, CallsStep
  <2>3. CallsIn(s, n - 1) = CallsIn(s, n - 2) + 0 /\ CallsIn(s, n - 2) \in Nat
    <3>1. CallsIn(s, n - 1) = CallsIn(s, (n - 1) - 1) + 0 /\ CallsIn(s, (n - 1) - 1) \in Nat
      <4>1. s[n - 1].kind \notin {"call", "resume"} /\ (n - 1) - 1 \in Nat
        BY <1>3, <2>1
      <4> QED BY <2>1, <4>1, CallsStep
    <3> QED BY <2>1, <3>1
  <2> QED BY <2>2, <2>3
<1>16. u.nCcalls = CallsIn(r, n - 2) /\ u.baseCcalls = CallsIn(r, n - 2)
  <2>1. t.baseCcalls = CallsIn(s, n - 2)
    <3>1. n - 2 \in 1 .. Len(s) /\ Counted(co, t, s)
      BY <1>1, <1>2, <1>3 DEF Accounts
    <3> QED BY <1>3, <3>1 DEF Counted
  <2> QED BY <1>2, <1>7, <1>14, <1>15, <2>1
<1>17. PICK z \in Nat : z = Size(s[n - 1]) /\ z >= 1
  <2>1. s[n - 1] \in Activation /\ n - 1 \in 1 .. Len(s)
    BY <1>1, <1>2, <1>3
  <2>2. s[n - 1].n \in Nat \ {0}
    BY <1>3, <2>1 DEF Activation
  <2> QED BY <1>3, <2>2 DEF Size
<1>18. Depth(s, co, n - 1) = 1 + z /\ Depth(s, co, n) = 2 + z
  <2>1. n \in 1 .. Len(s) /\ n - 1 \in 1 .. Len(s) /\ (n - 1) - 1 = n - 2
    BY <1>1, <1>3
  <2>2. Depth(s, co, n - 1) = Depth(s, co, n - 2) + z
    BY <1>2, <1>3, <1>17, <2>1, DepthLast
  <2>3. Size(s[n]) = 1
    BY <1>4 DEF Size
  <2>4. Depth(s, co, n) = Depth(s, co, n - 1) + 1
    BY <1>2, <1>3, <2>1, <2>3, DepthLast
  <2> QED BY <1>14, <1>17, <2>2, <2>4
<1>19. Len(t.ci) = 2 + z /\ \A j \in 2 .. Len(t.ci) : RunsLua(t, j) <=> j < Len(t.ci)
  <2>1. Len(t.ci) = 2 + z
    BY <1>2, <1>18
  <2>2. \A i \in 1 .. Len(s) : \A j \in Depth(s, co, i - 1) + 1 .. Depth(s, co, i) :
          RunsLua(t, j) <=> s[i].kind = "execute"
    BY <1>2 DEF Accounts, Framed
  <2>3. n \in 1 .. Len(s) /\ n - 1 \in 1 .. Len(s) /\ (n - 1) - 1 = n - 2
    BY <1>1, <1>3
  <2>4. \A j \in 2 .. 1 + z : RunsLua(t, j)
    <3>1. \A j \in Depth(s, co, (n - 1) - 1) + 1 .. Depth(s, co, n - 1) : RunsLua(t, j)
      BY <1>3, <2>2, <2>3
    <3> QED BY <1>14, <1>18, <2>3, <3>1
  <2>5. ~ RunsLua(t, 2 + z)
    <3>1. \A j \in Depth(s, co, n - 1) + 1 .. Depth(s, co, n) : ~ RunsLua(t, j)
      BY <1>4, <2>2, <2>3
    <3>2. 2 + z \in (1 + z) + 1 .. 2 + z
      BY <1>17
    <3> QED BY <1>18, <3>1, <3>2
  <2>6. \A j \in 2 .. 2 + z : (j \in 2 .. 1 + z /\ j < 2 + z) \/ (j = 2 + z /\ ~ (j < 2 + z))
    BY <1>17
  <2> QED BY <2>1, <2>4, <2>5, <2>6
<1>20. Idles(u)
  <2>1. \A j : (RunsLua(u, j) <=> RunsLua(t, j)) /\ Needs(u, j) = Needs(t, j)
    BY <1>7 DEF RunsLua, Needs
  <2>2. Captured(u) /\ u.errfunc = 0
    <3>1. Captured(u)
      BY <1>2, <1>7, <2>1 DEF Captured, Accounts
    <3>2. Nearest(s, co, n) = Nearest(s, co, n - 2)
      <4>1. n \in Nat \ {0} /\ n - 1 \in Nat \ {0} /\ (n - 1) - 1 = n - 2
        BY <1>3
      <4>2. Nearest(s, co, n) = Nearest(s, co, n - 1)
        BY <1>4, <4>1, NearestSkips
      <4>3. Nearest(s, co, n - 1) = Nearest(s, co, (n - 1) - 1)
        BY <1>3, <4>1, NearestSkips
      <4> QED BY <4>1, <4>2, <4>3
    <3> QED BY <1>2, <1>7, <1>14, <3>1, <3>2
  <2>3. /\ Len(u.ci) >= 3 /\ Len(u.ci) >= 1
        /\ \A j \in 2 .. Len(u.ci) : RunsLua(u, j) <=> j < Len(u.ci)
    BY <1>7, <1>17, <1>19, <2>1
  <2>4. /\ u.ci[1].func = 1
        /\ \A j, l \in 1 .. Len(u.ci) : j < l => Needs(u, j) < u.ci[l].func
    <3>1. /\ t.ci[1].func = 1
          /\ \A j, l \in 1 .. Len(t.ci) : j < l => Needs(t, j) < t.ci[l].func
      BY <1>2, Zenon DEF Accounts, LaidOut
    <3>2. u.ci = t.ci
      BY <1>7
    <3> QED BY ONLY <2>1, <3>1, <3>2, Zenon
  <2>5. \A j \in 1 .. Len(u.ci) : Needs(u, j) <= Len(u.stack)
    BY <1>2, <1>7, <2>1, Zenon DEF Accounts, Fits
  <2> QED BY <1>7, <2>2, <2>3, <2>4, <2>5 DEF Idles
<1>21. ASSUME NEW o \in Threads PROVE Accounts(o, p.thread[o], r)
  <2>1. CASE o = co
    BY <1>13, <1>16, <1>20, <2>1
  <2>2. CASE o # co
    <3>1. Accounts(o, m.thread[o], s) /\ p.thread[o] = m.thread[o]
      BY <1>1, <1>2, <1>7, <2>2 DEF Good
    <3>2. n - 2 \in 0 .. Len(s) /\ n - 2 <= Len(r) /\ \A j \in (n - 2) + 1 .. Len(s) : j \in {n - 1, n}
      BY <1>1, <1>3, <1>5
    <3>3. \A j \in (n - 2) + 1 .. Len(s) : s[j].th # o
      BY <1>3, <2>2, <3>2
    <3>4. \A j \in (n - 2) + 1 .. Len(r) : r[j].th # o
      BY <1>3, <1>5
    <3> QED BY <1>2, <1>5, <3>1, <3>2, <3>3, <3>4, OthersKeep
  <2> QED BY <2>1, <2>2
<1>22. Good(p)
  BY <1>1, <1>5, <1>8, <1>21 DEF Good
<1>23. ModeFits(p)
  BY <1>1, <1>5, <1>9 DEF ModeFits
<1>24. ActiveIn(r) = ActiveIn(s)
  <2>1. 1 .. Len(s) = (1 .. Len(r)) \union {n - 1, n} /\ n - 2 \in 1 .. Len(r)
    BY <1>1, <1>3, <1>5
  <2>2. \A i \in 1 .. Len(r) : r[i].th = s[i].th
    BY <1>5
  <2>3. r[n - 2].th = co
    BY <1>3, <2>1, <2>2
  <2>4. {s[i].th : i \in 1 .. Len(s)} = {r[i].th : i \in 1 .. Len(r)}
    BY ONLY <1>3, <2>1, <2>2, <2>3
  <2> QED BY <2>4 DEF ActiveIn
<1> QED BY <1>1, <1>3, <1>5, <1>7, <1>9, <1>22, <1>23, <1>24 DEF Yields
-----------------------------------------------------------------------------
(* lua_resume is left, or was never entered: the C function under it gets  *)
(* the results, or a message.                                              *)
Without(m, q, co) ==
  /\ Good(q) /\ Absent(co, q.cs) /\ co \in Coroutine
  /\ ActiveIn(q.cs) = ActiveIn(m.cs) \ {co}
  /\ \A o \in Threads \ {co} : q.thread[o] = m.thread[o]
  /\ q.cs # <<>> /\ Last(q.cs).kind = "cfun"
  /\ q.thread[co].status # "0" \/ Len(q.thread[co].stack) = 1

Left(m, p, L, co) ==
  /\ At(p, L) /\ ModeFits(p) /\ co \in Coroutine /\ L \in ActiveIn(m.cs) \ {co}
  /\ \A o \in Threads \ {co, L} : p.thread[o] = m.thread[o]
  /\ p.thread[L].status = m.thread[L].status
  /\ ActiveIn(p.cs) = ActiveIn(m.cs) \ {co}
  /\ p.thread[co].status # "0" \/ Len(p.thread[co].stack) = 1

(* The thread that had called resume goes on with its accounts true.       *)
LEMMA LeftTo ==
  ASSUME NEW m, NEW co, NEW q, Without(m, q, co), NEW L, L = Last(q.cs).th,
         m.thread[L].status = "0", NEW name,
         NEW p, \/ p = Resumed(luaD_poscall(Leave(q), L, <<"v">>))
                \/ p = ResumeFails(q, L, name)
  PROVE  Left(m, p, L, co) /\ p.thread[co] = q.thread[co]
<1>1. /\ Good(q) /\ q.cs \in Seq(Activation) /\ q.cs # <<>> /\ Last(q.cs).kind = "cfun"
      /\ Absent(co, q.cs) /\ co \in Coroutine
  BY DEF Without, Good, Machine
<1>2. Len(q.cs) \in 1 .. Len(q.cs) /\ Last(q.cs) = q.cs[Len(q.cs)] /\ Last(q.cs) \in Activation
  BY <1>1 DEF Last
<1>3. L \in Threads /\ L # co
  BY <1>1, <1>2 DEF Absent, Activation
<1>4. L \in ActiveIn(m.cs) \ {co}
  <2>1. L \in ActiveIn(q.cs)
    BY <1>2 DEF ActiveIn
  <2> QED BY <2>1 DEF Without
<1>5. At(q, L)
  <2>1. OnTop(q.cs, L)
    BY <1>1, <1>2 DEF OnTop
  <2>2. q.thread[L] = m.thread[L]
    BY <1>3 DEF Without
  <2> QED BY <1>1, <1>3, <2>1, <2>2 DEF At
<1>6. Does(q, p, L) /\ ModeFits(p)
  BY <1>1, <1>5, FinishFits, FailsFits
<1>7. /\ At(p, L) /\ ActiveIn(p.cs) = ActiveIn(q.cs) /\ p.thread[L].status = q.thread[L].status
      /\ \A o \in Threads \ {L} : p.thread[o] = q.thread[o]
  BY <1>6 DEF Does, Apart
<1>8. p.thread[co] = q.thread[co]
  BY <1>1, <1>3, <1>7 DEF Threads
<1>9. /\ \A o \in Threads \ {co, L} : p.thread[o] = m.thread[o]
      /\ p.thread[L].status = m.thread[L].status
      /\ ActiveIn(p.cs) = ActiveIn(m.cs) \ {co}
      /\ p.thread[co].status # "0" \/ Len(p.thread[co].stack) = 1
  BY <1>3, <1>7, <1>8 DEF Without
<1> QED BY <1>1, <1>4, <1>6, <1>7, <1>8, <1>9 DEF Left

(* The function of its last frame is on the stack.                         *)
LEMMA IdleFunc ==
  ASSUME NEW t \in ThreadState, Idles(t), NEW func, func = Func(t)
  PROVE  func \in 1 .. Len(t.stack)
<1>1. PICK l : l = Len(t.ci)
  OBVIOUS
<1>2. l \in Nat /\ l >= 1 /\ func = t.ci[l].func /\ Len(t.stack) \in Nat
      /\ \A k \in 1 .. l : t.ci[k].func \in Nat
  BY <1>1, ThreadFields DEF Idles, Func, Last
<1>3. l \in 1 .. l /\ func \in Nat
  BY <1>2
<1>4. Needs(t, l) \in {func, func + 1} /\ Needs(t, l) <= Len(t.stack)
  BY <1>1, <1>2, <1>3 DEF Idles, Needs
<1>5. l # 1 => 1 < func
  <2> SUFFICES ASSUME l # 1 PROVE 1 < func
    OBVIOUS
  <2>1. 1 < l /\ 1 \in 1 .. l
    BY <1>2
  <2>2. Needs(t, 1) < func /\ t.ci[1].func = 1
    BY <1>1, <1>2, <1>3, <2>1 DEF Idles
  <2>3. Needs(t, 1) = 1
    BY <2>2 DEF Needs
  <2> QED BY <2>2, <2>3
<1>6. l = 1 => func = 1
  BY <1>2 DEF Idles
<1> QED BY <1>2, <1>3, <1>4, <1>5, <1>6

(* The function of a coroutine that is refused goes.                       *)
LEMMA RefusedWithout ==
  ASSUME NEW m, Good(m), m.cs # <<>>, Last(m.cs).kind = "cfun",
         NEW co \in Coroutine, Absent(co, m.cs), m.thread[co].status \in {"0", "YIELD"},
         NEW q, q = Cut(m, co, Func(m.thread[co]))
  PROVE  Without(m, q, co) /\ q.cs = m.cs /\ q.thread[co].status = m.thread[co].status
<1> DEFINE t == m.thread[co]
           u == q.thread[co]
<1>1. /\ m \in Machine /\ m.cs \in Seq(Activation) /\ co \in Threads /\ t \in ThreadState
      /\ Accounts(co, t, m.cs)
  BY DEF Good, Machine, Threads
<1>2. Idles(t)
  BY <1>1, IdleAccounts
<1>3. PICK func : func = Func(t)
  OBVIOUS
<1>4. func \in 1 .. Len(t.stack)
  BY <1>1, <1>2, <1>3, IdleFunc
<1>5. /\ Alters(m, q, co) /\ q.cs = m.cs /\ Restacked(t, u, SubSeq(t.stack, 1, func))
  <2>1. func \in 0 .. Len(t.stack)
    BY <1>4
  <2> QED BY <1>1, <1>3, <2>1, CutMade
<1>6. q \in Machine /\ u \in ThreadState /\ \A o \in Threads \ {co} : q.thread[o] = m.thread[o]
  BY <1>1, <1>5 DEF Alters, Apart, Machine
<1>7. u.ci = t.ci /\ u.open = t.open /\ u.status = t.status /\ u.errfunc = t.errfunc
      /\ u.stack = SubSeq(t.stack, 1, func)
  BY <1>5 DEF Restacked, Rest
<1>8. /\ Idles(u) /\ Len(u.stack) = func
      /\ u.status = "0" => func = 1
  <2>1. t.status \in {"0", "YIELD"}
    OBVIOUS
  <2> HIDE DEF t, u
  <2> QED BY <1>1, <1>2, <1>3, <1>6, <1>7, <2>1, IdleCut
<1>9. Absent(co, q.cs)
  BY <1>5
<1>10. Good(q) /\ ActiveIn(q.cs) = ActiveIn(m.cs) \ {co}
  <2>1. PICK n : n = Len(m.cs)
    OBVIOUS
  <2>2. /\ n \in 0 .. Len(m.cs) /\ Len(q.cs) = n /\ \A j \in 1 .. n : q.cs[j] = m.cs[j]
        /\ \A j \in n + 1 .. Len(m.cs) : m.cs[j].th = co
    BY <1>1, <1>5, <2>1
  <2>3. Good(m) /\ q \in Machine /\ co \in Coroutine /\ Idles(q.thread[co])
    BY <1>6, <1>8
  <2>4. \A o \in Threads \ {co} : q.thread[o] = m.thread[o]
    BY <1>6
  <2>5. Lost(m, q, co)
    BY ONLY <2>2 DEF Lost
  <2> QED BY ONLY <1>9, <2>3, <2>4, <2>5, GoneIdle
<1> QED BY <1>5, <1>6, <1>7, <1>8, <1>9, <1>10 DEF Without

(* A suspended coroutine counts nothing.                                   *)
LEMMA Suspending ==
  ASSUME NEW m \in Machine, NEW co \in Threads, NEW p, p = Suspend(m, co)
  PROVE  Levels(m, p, co, 0)
<1> DEFINE t == m.thread[co]
           v == [t EXCEPT !.nCcalls = 0]
           u == [v EXCEPT !.baseCcalls = 0]
<1>1. t \in ThreadState /\ m.cs \in Seq(Activation) /\ m.mode \in Modes
  BY DEF Machine
<1>2. /\ u \in ThreadState /\ u.stack = t.stack /\ u.ci = t.ci /\ u.open = t.open
      /\ u.nCcalls = 0 /\ u.baseCcalls = 0
      /\ u.status = t.status /\ u.errfunc = t.errfunc
  <2> HIDE DEF t
  <2>1. /\ v \in ThreadState /\ v.stack = t.stack /\ v.ci = t.ci /\ v.open = t.open
        /\ v.nCcalls = 0 /\ v.status = t.status /\ v.errfunc = t.errfunc
    BY <1>1 DEF ThreadState
  <2> HIDE DEF v
  <2> QED BY <2>1 DEF ThreadState
<1>3. p = Made(m, co, u, m.cs, m.mode)
  <2>1. PICK z : z = [m EXCEPT !.thread[co].nCcalls = 0]
    OBVIOUS
  <2>2. p = [z EXCEPT !.thread[co].baseCcalls = 0]
    BY <2>1, Zenon DEF Suspend
  <2>3. z = [thread |-> [m.thread EXCEPT ![co] = v], cs |-> m.cs, mode |-> m.mode]
    BY <2>1 DEF Machine
  <2> HIDE DEF v
  <2>4. z.thread[co] = v
    BY <2>3 DEF Machine
  <2>5. p = [thread |-> [z.thread EXCEPT ![co] = u], cs |-> z.cs, mode |-> z.mode]
    BY <2>2, <2>3, <2>4
  <2> QED BY <2>3, <2>5 DEF Made
<1> HIDE DEF u
<1>4. p \in Machine /\ p.thread[co] = u /\ p.cs = m.cs /\ p.mode = m.mode /\ Apart(m, p, co)
  BY <1>1, <1>2, <1>3, MadeIs DEF Apart
<1> QED BY <1>2, <1>4 DEF Alters, Levels

(* lua_resume returns, after a yield or the end of the function.           *)
Ended(m, co) == Cut(Leave(Suspend(m, co)), co, Func(m.thread[co]))

(* The coroutine is off the C stack, with what it keeps in order.          *)
LEMMA EndedWithout ==
  ASSUME NEW m, Good(m), m.cs # <<>>, Last(m.cs).kind = "resume", NEW co, co = Last(m.cs).th,
         m.thread[co].status \in {"0", "YIELD"}, NEW q, q = Ended(m, co)
  PROVE  /\ Without(m, q, co) /\ q.thread[co].status = m.thread[co].status
         /\ Last(q.cs).th = m.cs[Len(m.cs) - 1].th
<1> DEFINE t == m.thread[co]
           u == q.thread[co]
<1>1. PICK s, r, n : s = m.cs /\ r = q.cs /\ n = Len(s) - 1
  OBVIOUS
<1>2. /\ m \in Machine /\ s \in Seq(Activation) /\ Stacked(s) /\ s # <<>>
      /\ n \in Nat /\ n + 1 = Len(s) /\ n + 1 \in 1 .. Len(s)
      /\ s[n + 1].kind = "resume" /\ s[n + 1].th = co
  <2>1. m \in Machine /\ s \in Seq(Activation) /\ Stacked(s) /\ s # <<>>
    BY <1>1 DEF Good, Machine
  <2>2. n \in Nat /\ n + 1 = Len(s) /\ n + 1 \in 1 .. Len(s)
    BY <1>1, <2>1
  <2> QED BY <1>1, <2>1, <2>2 DEF Last
<1>3. /\ co \in Coroutine /\ co # Main /\ n >= 1 /\ s[n].kind = "cfun"
      /\ \A i \in 1 .. n : s[i].th # co
  <2>1. (n + 1) - 1 = n
    BY <1>2
  <2>2. /\ s[n + 1].th \in Coroutine /\ s[n + 1].th # Main
        /\ n + 1 > 1 /\ s[(n + 1) - 1].kind = "cfun"
        /\ \A i \in 1 .. (n + 1) - 1 : s[i].th # s[n + 1].th
    BY <1>2, OnlyResumed
  <2> QED BY <1>2, <2>1, <2>2
<1>4. co \in Threads /\ t \in ThreadState /\ Accounts(co, t, s)
  <2>1. co \in Threads
    BY <1>3 DEF Threads
  <2> QED BY <1>1, <1>2, <2>1 DEF Good, Machine
<1>5. PICK f : f = Front(s)
  OBVIOUS
<1>6. f \in Seq(Activation) /\ Len(f) = n /\ \A j \in 1 .. n : f[j] = s[j]
  BY <1>2, <1>5, FrontIs
<1>7. Absent(co, f)
  BY <1>3, <1>6 DEF Absent
<1>8. Idles(t)
  <2>1. Depth(s, co, n + 1) = 1 /\ Nearest(s, co, n + 1) = 0
    <3>1. n \in 0 .. Len(f) /\ n + 1 \in 1 .. Len(s) /\ Len(f) = n /\ Len(s) = n + 1
      BY <1>2, <1>6
    <3>2. Depth(f, co, n) = 1 /\ Nearest(f, co, n) = 0
      BY <1>6, <1>7, <3>1, IdleAccounts DEF Absent
    <3>3. OneOver(f, s, co, n)
      BY <1>2, <1>6, <3>1, OneMoreActivation
    <3>4. Size(s[n + 1]) = 0
      BY <1>2 DEF Size
    <3> QED BY <1>2, <3>2, <3>3, <3>4 DEF OneOver
  <2>2. n + 1 = Len(s)
    BY <1>2
  <2>3. /\ t.status = "YIELD" => /\ Len(t.ci) >= 3
                                 /\ \A k \in 2 .. Len(t.ci) : RunsLua(t, k) <=> k < Len(t.ci)
        /\ t.status = "0" => Len(t.ci) = 1
    BY <1>4, <2>1, <2>2, Zenon DEF Accounts, Framed
  <2>4. /\ Len(t.ci) >= 1 /\ t.ci[1].func = 1
        /\ \A k, l \in 1 .. Len(t.ci) : k < l => Needs(t, k) < t.ci[l].func
    BY <1>4, Zenon DEF Accounts, LaidOut
  <2>5. \A k \in 1 .. Len(t.ci) : Needs(t, k) <= Len(t.stack)
    BY <1>4, Zenon DEF Accounts, Fits
  <2>6. Captured(t) /\ t.errfunc = 0
    BY <1>4, <2>1, <2>2, Zenon DEF Accounts, Handled
  <2> HIDE DEF t
  <2> QED BY <2>3, <2>4, <2>5, <2>6, Zenon DEF Idles
<1>9. PICK a : a = Suspend(m, co)
  OBVIOUS
<1>10. Levels(m, a, co, 0)
  BY <1>2, <1>4, <1>9, Suspending
<1>11. PICK w : w = Leave(a)
  OBVIOUS
<1>12. Alters(a, w, co) /\ w.cs = f /\ w.thread = a.thread
  <2>1. a \in Machine /\ a.cs = s /\ a.cs # <<>>
    BY <1>1, <1>2, <1>10 DEF Levels, Alters
  <2> QED BY <1>4, <1>5, <1>11, <2>1, OtherwiseMade
<1>13. PICK func : func = Func(t)
  OBVIOUS
<1>14. q = Cut(w, co, func)
  BY <1>9, <1>11, <1>13 DEF Ended
<1>15. /\ w \in Machine /\ w.thread[co].stack = t.stack /\ w.thread[co].ci = t.ci
       /\ w.thread[co].open = t.open /\ w.thread[co].status = t.status
       /\ w.thread[co].errfunc = t.errfunc /\ \A o \in Threads \ {co} : w.thread[o] = m.thread[o]
  BY <1>10, <1>12 DEF Levels, Alters, Apart
<1>16. func \in 1 .. Len(t.stack)
  BY <1>4, <1>8, <1>13, IdleFunc
<1>17. Alters(w, q, co) /\ q.cs = f /\ Restacked(w.thread[co], u, SubSeq(t.stack, 1, func))
  <2>1. func \in 0 .. Len(w.thread[co].stack)
    BY <1>15, <1>16
  <2>2. /\ Alters(w, q, co) /\ q.cs = w.cs
        /\ Restacked(w.thread[co], u, SubSeq(w.thread[co].stack, 1, func))
    BY <1>4, <1>14, <1>15, <2>1, CutMade
  <2> QED BY <1>12, <1>15, <2>2
<1>18. q \in Machine /\ u \in ThreadState /\ \A o \in Threads \ {co} : q.thread[o] = m.thread[o]
  BY <1>4, <1>15, <1>17 DEF Alters, Apart, Machine
<1>19. u.ci = t.ci /\ u.open = t.open /\ u.status = t.status /\ u.errfunc = t.errfunc
       /\ u.stack = SubSeq(t.stack, 1, func)
  BY <1>15, <1>17 DEF Restacked, Rest
<1>20. /\ Idles(u) /\ Len(u.stack) = func
       /\ u.status = "0" => func = 1
  <2>1. t.status \in {"0", "YIELD"}
    OBVIOUS
  <2> HIDE DEF t, u
  <2> QED BY <1>4, <1>8, <1>13, <1>18, <1>19, <2>1, IdleCut
<1>21. Good(q) /\ ActiveIn(q.cs) = ActiveIn(m.cs) \ {co}
  <2>1. /\ n \in 0 .. Len(m.cs) /\ Len(q.cs) = n /\ \A j \in 1 .. n : q.cs[j] = m.cs[j]
        /\ \A j \in n + 1 .. Len(m.cs) : m.cs[j].th = co
    <3>1. \A j \in n + 1 .. Len(s) : j = n + 1
      BY <1>2
    <3> QED BY <1>1, <1>2, <1>6, <1>17, <3>1
  <2>2. Good(m) /\ q \in Machine /\ co \in Coroutine /\ Idles(q.thread[co]) /\ Absent(co, q.cs)
    BY <1>3, <1>7, <1>17, <1>18, <1>20
  <2>3. \A o \in Threads \ {co} : q.thread[o] = m.thread[o]
    BY <1>18
  <2>4. Lost(m, q, co)
    BY ONLY <2>1 DEF Lost
  <2> QED BY ONLY <2>2, <2>3, <2>4, GoneIdle
<1>22. q.cs # <<>> /\ Last(q.cs) = s[n]
  <2>1. f # <<>> /\ Last(f) = f[n] /\ f[n] = s[n]
    BY <1>2, <1>3, <1>6 DEF Last
  <2> QED BY <1>17, <2>1
<1>23. Without(m, q, co)
  BY <1>3, <1>7, <1>17, <1>18, <1>19, <1>20, <1>21, <1>22 DEF Without
<1> QED BY <1>1, <1>19, <1>22, <1>23

(* An error leaves lua_resume: the coroutine is dead.                      *)
Killed(m, k, errcode) == Kill([m EXCEPT !.cs = SubSeq(@, 1, k - 1)], m.cs[k].th, errcode)

(* What a dead coroutine keeps is as it was when the error was thrown.     *)
LEMMA DeadIdles ==
  ASSUME NEW s \in Seq(Activation), NEW co, NEW t, Accounts(co, t, s),
         \A i \in 1 .. Len(s) : ~ (s[i].th = co /\ s[i].kind = "pcall"),
         NEW u, u.stack = t.stack, u.ci = t.ci, u.open = t.open, u.errfunc = t.errfunc,
         u.status \in Errors
  PROVE  Idles(u)
<1>1. \A k : (RunsLua(u, k) <=> RunsLua(t, k)) /\ Needs(u, k) = Needs(t, k)
  BY DEF RunsLua, Needs
<1>2. /\ Len(u.ci) >= 1 /\ u.ci[1].func = 1
      /\ \A k, l \in 1 .. Len(u.ci) : k < l => Needs(u, k) < u.ci[l].func
  BY <1>1, Zenon DEF Accounts, LaidOut
<1>3. \A k \in 1 .. Len(u.ci) : Needs(u, k) <= Len(u.stack)
  BY <1>1, Zenon DEF Accounts, Fits
<1>4. Captured(u)
  BY <1>1, Zenon DEF Accounts, Captured
<1>5. u.errfunc = 0
  <2>1. {j \in 1 .. Len(s) : s[j].th = co /\ s[j].kind = "pcall"} = {}
    OBVIOUS
  <2>2. Nearest(s, co, Len(s)) = 0
    BY <2>1 DEF Nearest
  <2> QED BY <2>2 DEF Accounts, Handled
<1>6. u.status # "YIELD" /\ u.status # "0"
  BY DEF Errors
<1> QED BY <1>2, <1>3, <1>4, <1>5, <1>6 DEF Idles

(* The error is caught in the lua_resume of the coroutine, which leaves    *)
(* the C stack.                                                            *)
LEMMA KilledWithout ==
  ASSUME NEW m, Good(m), m.cs # <<>>, NEW k, k = CaughtAt(m), m.cs[k].kind = "resume",
         NEW co, co = m.cs[k].th, NEW errcode \in Errors, NEW q, q = Killed(m, k, errcode)
  PROVE  /\ Without(m, q, co) /\ q.thread[co].status = errcode
         /\ Last(q.cs).th = m.cs[k - 1].th /\ q.cs = SubSeq(m.cs, 1, k - 1)
         /\ co \in ActiveIn(m.cs)
<1>1. PICK s, t : s = m.cs /\ t = m.thread[co]
  OBVIOUS
<1>2. /\ m \in Machine /\ s \in Seq(Activation) /\ Stacked(s) /\ s # <<>>
  BY <1>1 DEF Good, Machine
<1>3. /\ k \in 1 .. Len(s)
      /\ \A j \in k + 1 .. Len(s) : s[j].kind # "pcall" /\ s[j].th = co
  <2>1. k = Max(CatchersOf(s))
    BY <1>1 DEF CaughtAt
  <2>2. /\ k \in 1 .. Len(s)
        /\ \A j \in k + 1 .. Len(s) : s[j].kind \notin {"pcall", "resume"} /\ s[j].th = s[k].th
    BY <1>2, <2>1, CatcherIs
  <2> QED BY <1>1, <2>2
<1>4. /\ co \in Coroutine /\ co # Main /\ k > 1 /\ s[k - 1].kind = "cfun"
      /\ \A i \in 1 .. k - 1 : s[i].th # co
  BY <1>1, <1>2, <1>3, OnlyResumed
<1>5. PICK n, r : n = k - 1 /\ r = SubSeq(s, 1, n)
  OBVIOUS
<1>6. n \in Nat /\ n >= 1 /\ n + 1 = k /\ n \in 0 .. Len(s) /\ n \in 1 .. Len(s)
  BY <1>3, <1>4, <1>5
<1>7. r \in Seq(Activation) /\ Len(r) = n /\ \A j \in 1 .. n : r[j] = s[j]
  BY ONLY <1>2, <1>5, <1>6, SubSeqProperties
<1>8. /\ co \in Threads /\ t \in ThreadState /\ Accounts(co, t, s)
  BY <1>1, <1>4 DEF Threads, Good, Machine
<1>9. \A i \in 1 .. Len(s) : ~ (s[i].th = co /\ s[i].kind = "pcall")
  <2>1. \A i \in 1 .. Len(s) : i \in 1 .. k - 1 \/ i = k \/ i \in k + 1 .. Len(s)
    BY <1>3
  <2> QED BY <1>1, <1>3, <1>4, <2>1
<1>10. PICK b, w : b = [m EXCEPT !.cs = SubSeq(@, 1, k - 1)] /\ w = Suspend(b, co)
  OBVIOUS
<1>11. b = [m EXCEPT !.cs = r]
  BY <1>1, <1>5, <1>10
<1>12. Alters(m, b, co) /\ b.cs = r /\ b.thread = m.thread
  BY <1>2, <1>7, <1>8, <1>11, CsMade
<1>13. Levels(b, w, co, 0)
  BY <1>8, <1>10, <1>12, Suspending DEF Alters
<1>14. /\ q \in Machine /\ q.cs = r /\ q.thread[co].status = errcode /\ Idles(q.thread[co])
       /\ \A o \in Threads \ {co} : q.thread[o] = b.thread[o]
  <2>1. q = [w EXCEPT !.thread[co].status = errcode]
    BY <1>1, <1>10, Zenon DEF Killed, Kill
  <2>2. w \in Machine /\ w.cs = b.cs /\ \A o \in Threads \ {co} : w.thread[o] = b.thread[o]
    BY <1>13 DEF Levels, Alters, Apart
  <2>3. Marked(w, q, co, errcode)
    BY <1>8, <2>1, <2>2, Marking
  <2>4. PICK u : u = q.thread[co]
    OBVIOUS
  <2>5. /\ u.stack = t.stack /\ u.ci = t.ci /\ u.open = t.open /\ u.errfunc = t.errfunc
        /\ u.status = errcode
    BY <1>1, <1>12, <1>13, <2>3, <2>4 DEF Levels, Marked
  <2>6. Idles(u)
    BY ONLY <1>2, <1>8, <1>9, <2>5, errcode \in Errors, DeadIdles
  <2> QED BY <1>12, <2>2, <2>3, <2>4, <2>6 DEF Marked
<1>15. Absent(co, q.cs)
  BY <1>4, <1>5, <1>7, <1>14 DEF Absent
<1>16. Good(q) /\ ActiveIn(q.cs) = ActiveIn(m.cs) \ {co}
  <2>1. /\ n \in 0 .. Len(m.cs) /\ Len(q.cs) = n /\ \A j \in 1 .. n : q.cs[j] = m.cs[j]
        /\ \A j \in n + 1 .. Len(m.cs) : m.cs[j].th = co
    <3>1. \A j \in n + 1 .. Len(s) : j = k \/ j \in k + 1 .. Len(s)
      BY <1>3, <1>6
    <3> QED BY <1>1, <1>3, <1>6, <1>7, <1>14, <3>1
  <2>2. Good(m) /\ q \in Machine /\ co \in Coroutine /\ Idles(q.thread[co])
    BY <1>4, <1>14
  <2>3. \A o \in Threads \ {co} : q.thread[o] = m.thread[o]
    BY <1>12, <1>14
  <2>4. Lost(m, q, co)
    BY ONLY <2>1 DEF Lost
  <2> QED BY ONLY <1>15, <2>2, <2>3, <2>4, GoneIdle
<1>17. q.cs # <<>> /\ Last(q.cs) = s[n]
  <2>1. r # <<>> /\ Last(r) = r[n] /\ r[n] = s[n]
    BY <1>6, <1>7 DEF Last
  <2> QED BY <1>14, <2>1
<1>18. Without(m, q, co)
  <2>1. \A o \in Threads \ {co} : q.thread[o] = m.thread[o]
    BY <1>12, <1>14
  <2>2. Last(q.cs).kind = "cfun"
    BY <1>4, <1>5, <1>17
  <2>3. q.thread[co].status # "0"
    BY <1>14 DEF Errors
  <2> QED BY <1>4, <1>14, <1>15, <1>16, <1>17, <2>1, <2>2, <2>3 DEF Without
<1>19. co \in ActiveIn(m.cs)
  BY <1>1, <1>3 DEF ActiveIn
<1> QED BY <1>1, <1>5, <1>14, <1>17, <1>18, <1>19
-----------------------------------------------------------------------------
(* What a coroutine that is not on the C stack can be, and when one that   *)
(* is has yielded: on its way out of lua_resume.                           *)
Resting(t, l) ==
  \/ l = "new" /\ t.status = "0" /\ t.stack = <<Nil, "L">>
  \/ l = "begun" /\ t.status = "YIELD"
  \/ l \in {"refused", "over"} /\ t.status = "0" /\ Len(t.stack) = 1
  \/ l = "over" /\ t.status \in Errors

Leaving(m, co) ==
  m.mode = "return" /\ m.cs # <<>> /\ Last(m.cs).kind = "resume" /\ Last(m.cs).th = co

Lives(m, lf, co) ==
  IF co \in ActiveIn(m.cs)
  THEN /\ lf[co] = "begun"
       /\ \/ m.thread[co].status = "0"
          \/ m.thread[co].status = "YIELD" /\ Leaving(m, co)
  ELSE Resting(m.thread[co], lf[co])

Correct(m, lf) ==
  /\ Good(m) /\ ModeFits(m)
  /\ lf \in [Coroutine -> {"new", "refused", "begun", "over"}]
  /\ m.thread[Main].status = "0"
  /\ \A co \in Coroutine : Lives(m, lf, co)

IInv == Correct(Now, life) /\ script \in Scripts

RunningIn(m) == IF m.cs = <<>> THEN Main ELSE Last(m.cs).th

(* A thread runs unless it is about to leave lua_resume.                   *)
LEMMA Here ==
  ASSUME NEW m, NEW lf, Correct(m, lf), NEW th, th = RunningIn(m),
         ~ (m.mode = "return" /\ m.cs # <<>> /\ Last(m.cs).kind = "resume")
  PROVE  At(m, th) /\ th \in ActiveIn(m.cs)
<1>1. Good(m) /\ m.cs \in Seq(Activation) /\ m.thread[Main].status = "0"
  BY DEF Correct, Good, Machine
<1>2. OnTop(m.cs, th) /\ th \in ActiveIn(m.cs) /\ th \in Threads
  <2>1. CASE m.cs = <<>>
    BY <2>1 DEF RunningIn, OnTop, ActiveIn, Threads
  <2>2. CASE m.cs # <<>>
    <3>1. Len(m.cs) \in 1 .. Len(m.cs) /\ Last(m.cs) = m.cs[Len(m.cs)] /\ Last(m.cs) \in Activation
      BY <1>1, <2>2 DEF Last
    <3>2. th = m.cs[Len(m.cs)].th /\ th \in Threads
      BY <2>2, <3>1 DEF RunningIn, Activation
    <3> QED BY <2>2, <3>1, <3>2 DEF OnTop, ActiveIn
  <2> QED BY <2>1, <2>2
<1>3. m.thread[th].status = "0"
  <2>1. CASE th = Main
    BY <1>1, <2>1
  <2>2. CASE th \in Coroutine
    BY <1>2, <2>2 DEF Correct, Lives, Leaving
  <2> QED BY <1>2, <2>1, <2>2 DEF Threads
<1> QED BY <1>1, <1>2, <1>3 DEF At

(* What the running thread does keeps it all.                              *)
LEMMA DoesCorrect ==
  ASSUME NEW m, NEW lf, Correct(m, lf), NEW th, At(m, th), th \in ActiveIn(m.cs),
         NEW p, Does(m, p, th), ModeFits(p)
  PROVE  Correct(p, lf)
<1>1. /\ Good(p) /\ ActiveIn(p.cs) = ActiveIn(m.cs)
      /\ \A o \in Threads \ {th} : p.thread[o] = m.thread[o]
      /\ p.thread[th].status = m.thread[th].status /\ m.thread[th].status = "0"
  BY DEF Does, Apart, At
<1>2. \A o \in Threads : p.thread[o].status = m.thread[o].status
  BY <1>1
<1>3. p.thread[Main].status = "0"
  BY <1>2 DEF Correct, Threads
<1>4. ASSUME NEW co \in Coroutine PROVE Lives(p, lf, co)
  <2>1. co \in Threads /\ Lives(m, lf, co)
    BY DEF Correct, Threads
  <2>2. CASE co \in ActiveIn(m.cs)
    <3>1. ~ (m.thread[co].status = "YIELD")
      <4> SUFFICES ASSUME m.thread[co].status = "YIELD" PROVE FALSE
        OBVIOUS
      <4>1. Leaving(m, co)
        BY <2>1, <2>2 DEF Lives
      <4>2. m.cs \in Seq(Activation) /\ OnTop(m.cs, th)
        BY DEF At, Good, Machine
      <4>3. co = th
        BY <4>1, <4>2 DEF Leaving, OnTop, Last
      <4> QED BY <1>1, <4>3
    <3>2. lf[co] = "begun" /\ m.thread[co].status = "0"
      BY <2>1, <2>2, <3>1, Zenon DEF Lives
    <3>3. co \in ActiveIn(p.cs) /\ p.thread[co].status = "0"
      BY <1>1, <1>2, <2>1, <2>2, <3>2
    <3> QED BY <3>2, <3>3, Zenon DEF Lives
  <2>3. CASE co \notin ActiveIn(m.cs)
    <3>1. co # th
      BY <2>3
    <3> QED BY <1>1, <2>1, <2>3, <3>1 DEF Lives
  <2> QED BY <2>2, <2>3
<1> QED BY <1>1, <1>3, <1>4 DEF Correct

(* The next state's machine.                                               *)
LEMMA Becoming ==
  ASSUME NEW p \in Machine, Become(p)
  PROVE  Now' = p
<1>1. p = [thread |-> p.thread, cs |-> p.cs, mode |-> p.mode]
  BY DEF Machine
<1>2. Now' = [thread |-> p.thread, cs |-> p.cs, mode |-> p.mode]
  BY DEF Become, Now
<1> QED BY <1>1, <1>2

(* A step to a correct machine keeps the invariant.                        *)
LEMMA Becomes ==
  ASSUME NEW p, NEW lf, Correct(p, lf), Become(p), life' = lf, script \in Scripts, UNCHANGED script
  PROVE  IInv'
<1>1. p \in Machine
  BY DEF Correct, Good
<1>2. Now' = p
  BY <1>1, Becoming
<1> QED BY <1>2 DEF IInv

(* The machine there is, and the thread that runs.                         *)
Holds(m, th) ==
  /\ m = Now /\ th = Running /\ m.thread = thread /\ m.cs = cs /\ m.mode = mode
  /\ m.thread[th] = T /\ th = RunningIn(m) /\ (m.cs # <<>> => Last(m.cs) = Top /\ th = Top.th)

(* There are such a machine and thread.                                    *)
LEMMA ItHolds ==
  \E m, th : Holds(m, th)
<1>1. /\ Now.thread = thread /\ Now.cs = cs /\ Now.mode = mode
  BY DEF Now
<1>2. Now.thread[Running] = T /\ Running = RunningIn(Now)
      /\ (Now.cs # <<>> => Last(Now.cs) = Top /\ Running = Top.th)
  BY <1>1, Zenon DEF T, Running, RunningIn, Top
<1>3. Holds(Now, Running)
  BY <1>1, <1>2 DEF Holds
<1> QED BY <1>3

(* A step of the running thread that keeps the accounts keeps the          *)
(* invariant.                                                              *)
LEMMA StepKeeps ==
  ASSUME IInv, NEW m, NEW th, Holds(m, th), At(m, th), th \in ActiveIn(m.cs),
         NEW p, Does(m, p, th), ModeFits(p), Become(p), UNCHANGED <<life, script>>
  PROVE  IInv'
<1>1. Correct(m, life) /\ script \in Scripts
  BY DEF IInv, Holds
<1>2. Correct(p, life)
  BY <1>1, DoesCorrect
<1> QED BY <1>1, <1>2, Becomes
(* A step starts from the machine there is, with the thread that runs.     *)
Runs(m, th) == Holds(m, th) /\ At(m, th) /\ th \in ActiveIn(m.cs)

(* Unless lua_resume is about to be left, the running thread can make such *)
(* a step.                                                                 *)
LEMMA RunsHere ==
  ASSUME IInv, ~ Gets("resume")
  PROVE  \E m, th : Runs(m, th)
<1>1. PICK m, th : Holds(m, th)
  BY ItHolds
<1>2. Correct(m, life) /\ th = RunningIn(m)
  BY <1>1 DEF IInv, Holds
<1>3. ~ (m.mode = "return" /\ m.cs # <<>> /\ Last(m.cs).kind = "resume")
  BY <1>1 DEF Holds, Gets
<1>4. At(m, th) /\ th \in ActiveIn(m.cs)
  BY <1>2, <1>3, Here
<1> QED BY <1>1, <1>4 DEF Runs

(* StepKeeps for a thread that runs.                                       *)
LEMMA RunKeeps ==
  ASSUME IInv, NEW m, NEW th, Runs(m, th),
         NEW p, Does(m, p, th), ModeFits(p), Become(p), UNCHANGED <<life, script>>
  PROVE  IInv'
BY StepKeeps DEF Runs

(* An instruction is executed by the running thread's luaV_execute.        *)
LEMMA Interpreting ==
  ASSUME IInv, Interprets
  PROVE  \E m, th : /\ Runs(m, th) /\ m.mode = "run" /\ m.cs # <<>>
                    /\ Last(m.cs).kind = "execute"
<1>1. ~ Gets("resume")
  BY DEF Interprets, Gets
<1>2. PICK m, th : Runs(m, th)
  BY <1>1, RunsHere
<1> QED BY <1>2 DEF Interprets, Runs, Holds

(* A script calls values.                                                  *)
LEMMA ScriptCalls ==
  ASSUME script \in Scripts, NEW c \in script.calls
  PROVE  c \in Seq(Value) /\ Len(c) >= 1
<1>1. c \in Callees
  BY ScriptsAssumption
<1> QED BY <1>1, CalleesAreValues

(* OP_CALL.                                                                *)
LEMMA CallKeeps ==
  ASSUME IInv, NEW c \in script.calls, Call(c)
  PROVE  IInv'
<1>1. PICK m, th : /\ Runs(m, th) /\ m.mode = "run" /\ m.cs # <<>>
                   /\ Last(m.cs).kind = "execute"
  BY Interpreting DEF Call
<1>2. c \in Seq(Value) /\ Len(c) >= 1
  BY ScriptCalls DEF IInv
<1>3. PICK p : p = OneMore(luaD_precall(Push(m, th, c), th, Len(m.thread[th].stack) + 1, 0))
  OBVIOUS
<1>4. m = Now /\ th = Running /\ m.thread[th] = T
  BY <1>1 DEF Runs, Holds
<1>5. Become(p) /\ UNCHANGED <<life, script>>
  BY <1>3, <1>4, Zenon DEF Call
<1>6. Does(m, p, th) /\ ModeFits(p)
  BY <1>1, <1>2, <1>3, CallPushed DEF Runs
<1> QED BY <1>1, <1>5, <1>6, RunKeeps

(* A metamethod or an iterator is called.                                  *)
LEMMA MetaCallKeeps ==
  ASSUME IInv, NEW c \in script.calls, MetaCall(c)
  PROVE  IInv'
<1>1. PICK m, th : /\ Runs(m, th) /\ m.mode = "run" /\ m.cs # <<>>
                   /\ Last(m.cs).kind = "execute"
  BY Interpreting DEF MetaCall
<1>2. c \in Seq(Value) /\ Len(c) >= 1
  BY ScriptCalls DEF IInv
<1>3. PICK p : p = luaD_call(Push(m, th, c), th, Len(m.thread[th].stack) + 1, 1)
  OBVIOUS
<1>4. m = Now /\ th = Running /\ m.thread[th] = T
  BY <1>1 DEF Runs, Holds
<1>5. Become(p) /\ UNCHANGED <<life, script>>
  BY <1>3, <1>4, Zenon DEF MetaCall
<1>6. Does(m, p, th) /\ ModeFits(p)
  BY <1>1, <1>2, <1>3, MetaPushed DEF Runs
<1> QED BY <1>1, <1>5, <1>6, RunKeeps

(* OP_TAILCALL.                                                            *)
LEMMA TailCallKeeps ==
  ASSUME IInv, TailCall
  PROVE  IInv'
<1>1. PICK m, th : /\ Runs(m, th) /\ m.mode = "run" /\ m.cs # <<>>
                   /\ Last(m.cs).kind = "execute"
  BY Interpreting DEF TailCall
<1>2. PICK c : c = <<"L">>
  OBVIOUS
<1>3. c \in Seq(Value) /\ Len(c) >= 1
  BY <1>2 DEF Value
<1>4. PICK q : q = luaD_precall(Push(m, th, c), th, Len(m.thread[th].stack) + 1, LUA_MULTRET)
  OBVIOUS
<1>5. PICK p : p = Replaced(q, th, Func(m.thread[th]))
  OBVIOUS
<1>6. m = Now /\ th = Running /\ m.thread[th] = T
  BY <1>1 DEF Runs, Holds
<1>7. p = ReplaceFrame(q)
  BY <1>5, <1>6, Zenon DEF Replaced, ReplaceFrame, FrameLess
<1>8. Become(p) /\ UNCHANGED <<life, script>>
  BY <1>2, <1>4, <1>6, <1>7, Zenon DEF TailCall
<1>9. Does(m, p, th) /\ ModeFits(p)
  BY <1>1, <1>3, <1>4, <1>5, TailPushed DEF Runs
<1> QED BY <1>1, <1>8, <1>9, RunKeeps

(* OP_CLOSURE.                                                             *)
LEMMA CaptureKeeps ==
  ASSUME IInv, Capture
  PROVE  IInv'
<1>1. PICK m, th : /\ Runs(m, th) /\ m.mode = "run" /\ m.cs # <<>>
                   /\ Last(m.cs).kind = "execute"
  BY Interpreting DEF Capture
<1>2. PICK p : p = Opened(m, th)
  OBVIOUS
<1>3. /\ m = Now /\ th = Running /\ m.thread = thread /\ m.cs = cs /\ m.mode = mode
      /\ m.thread[th] = T /\ m \in Machine
  BY <1>1 DEF Runs, Holds, At, Good
<1>4. p = [thread |-> [m.thread EXCEPT ![th].open = @ \union {Func(m.thread[th]) + 1}],
           cs |-> m.cs, mode |-> m.mode]
  BY <1>2, <1>3 DEF Opened, Machine
<1>5. Become(p) /\ UNCHANGED <<life, script>>
  BY <1>3, <1>4 DEF Capture, Become
<1>6. Does(m, p, th) /\ ModeFits(p)
  BY <1>1, <1>2, CaptureFits DEF Runs
<1> QED BY <1>1, <1>5, <1>6, RunKeeps

(* OP_RETURN.                                                              *)
LEMMA ReturnKeeps ==
  ASSUME IInv, Return
  PROVE  IInv'
<1>1. PICK m, th : /\ Runs(m, th) /\ m.mode = "run" /\ m.cs # <<>>
                   /\ Last(m.cs).kind = "execute"
  BY Interpreting DEF Return
<1>2. PICK p : p = Returned(m, th)
  OBVIOUS
<1>3. /\ m = Now /\ th = Running /\ m.cs = cs /\ m.thread[th] = T /\ Last(m.cs) = Top
  BY <1>1 DEF Runs, Holds
<1>4. Become(p) /\ UNCHANGED <<life, script>>
  BY <1>2, <1>3, Zenon DEF Return, Returned, Popped
<1>5. Does(m, p, th) /\ ModeFits(p)
  BY <1>1, <1>2, ReturnStep DEF Runs
<1> QED BY <1>1, <1>4, <1>5, RunKeeps

(* An instruction fails, or memory runs out.                               *)
LEMMA FailKeeps ==
  ASSUME IInv, Fail
  PROVE  IInv'
<1>1. PICK m, th : /\ Runs(m, th) /\ m.mode = "run" /\ m.cs # <<>>
                   /\ Last(m.cs).kind = "execute"
  BY Interpreting DEF Fail
<1>2. m = Now /\ th = Running
  BY <1>1 DEF Runs, Holds
<1>3. UNCHANGED <<life, script>>
  BY DEF Fail
<1>4. CASE Become(Raise(Now, Running))
  <2>1. PICK p : p = Raise(m, th)
    OBVIOUS
  <2>2. Does(m, p, th) /\ ModeFits(p)
    BY <1>1, <2>1, RaiseFits DEF Runs
  <2> QED BY <1>1, <1>2, <1>3, <1>4, <2>1, <2>2, RunKeeps
<1>5. CASE Become(Doing(Now, "ERRMEM"))
  <2>1. PICK p : p = Doing(m, "ERRMEM")
    OBVIOUS
  <2>2. "ERRMEM" \in Errors
    BY DEF Errors
  <2>3. Does(m, p, th) /\ ModeFits(p)
    BY <1>1, <2>1, <2>2, ThrowFits DEF Runs
  <2> QED BY <1>1, <1>2, <1>3, <1>5, <2>1, <2>3, RunKeeps
<1> QED BY <1>4, <1>5 DEF Fail

(* An activation that gets a return is the last one of the running thread. *)
LEMMA Getting ==
  ASSUME IInv, NEW kind, Gets(kind), kind # "resume"
  PROVE  \E m, th : /\ Runs(m, th) /\ m.mode = "return" /\ m.cs # <<>>
                    /\ Last(m.cs).kind = kind
<1>1. ~ Gets("resume")
  BY DEF Gets
<1>2. PICK m, th : Runs(m, th)
  BY <1>1, RunsHere
<1> QED BY <1>2 DEF Gets, Runs, Holds

(* The end of luaD_call.                                                   *)
LEMMA CallReturnsKeeps ==
  ASSUME IInv, CallReturns
  PROVE  IInv'
<1>1. PICK m, th : /\ Runs(m, th) /\ m.mode = "return" /\ m.cs # <<>>
                   /\ Last(m.cs).kind = "call"
  BY Getting DEF CallReturns
<1>2. m = Now /\ th = Running /\ m.thread[th] = T
  BY <1>1 DEF Runs, Holds
<1>3. PICK q : q = Resumed(Leave(Uncounted(m, th)))
  OBVIOUS
<1>4. PICK p : p = IF q.mode = "run" THEN Cut(q, th, Func(m.thread[th]) + 1) ELSE q
  OBVIOUS
<1>5. Become(p) /\ UNCHANGED <<life, script>>
  BY <1>2, <1>3, <1>4, Zenon DEF CallReturns, Uncounted
<1>6. Does(m, p, th) /\ ModeFits(p)
  BY <1>1, <1>3, <1>4, CallLeaves DEF Runs
<1> QED BY <1>1, <1>5, <1>6, RunKeeps

(* The end of luaD_pcall.                                                  *)
LEMMA PcallReturnsKeeps ==
  ASSUME IInv, PcallReturns
  PROVE  IInv'
<1>1. PICK m, th : /\ Runs(m, th) /\ m.mode = "return" /\ m.cs # <<>>
                   /\ Last(m.cs).kind = "pcall"
  BY Getting DEF PcallReturns
<1>2. m = Now /\ th = Running /\ Last(m.cs) = Top
  BY <1>1 DEF Runs, Holds
<1>3. PICK p : p = Leave(Unguarded(m, th, Last(m.cs).old_errfunc))
  OBVIOUS
<1>4. Become(p) /\ UNCHANGED <<life, script>>
  BY <1>2, <1>3, Zenon DEF PcallReturns, Unguarded
<1>5. Does(m, p, th) /\ ModeFits(p)
  BY <1>1, <1>3, PcallLeaves DEF Runs
<1> QED BY <1>1, <1>4, <1>5, RunKeeps

(* The end of luaG_errormsg.                                               *)
LEMMA HandlerReturnsKeeps ==
  ASSUME IInv, HandlerReturns
  PROVE  IInv'
<1>1. PICK m, th : /\ Runs(m, th) /\ m.mode = "return" /\ m.cs # <<>>
                   /\ Last(m.cs).kind = "errormsg"
  BY Getting DEF HandlerReturns
<1>2. PICK p : p = Doing(Leave(m), "ERRRUN")
  OBVIOUS
<1>3. m = Now
  BY <1>1 DEF Runs, Holds
<1>4. Become(p) /\ UNCHANGED <<life, script>>
  BY <1>2, <1>3 DEF HandlerReturns
<1>5. Does(m, p, th) /\ ModeFits(p)
  BY <1>1, <1>2, HandlerLeaves DEF Runs
<1> QED BY <1>1, <1>4, <1>5, RunKeeps

(* The end of a C function.                                                *)
LEMMA CfunctionReturnsKeeps ==
  ASSUME IInv, CfunctionReturns
  PROVE  IInv'
<1>1. PICK m, th : /\ Runs(m, th) /\ m.mode = "return" /\ m.cs # <<>>
                   /\ Last(m.cs).kind = "cfun"
  BY Getting DEF CfunctionReturns
<1>2. PICK p : p = Resumed(luaD_poscall(Leave(m), th, <<"v">>))
  OBVIOUS
<1>3. m = Now /\ th = Running
  BY <1>1 DEF Runs, Holds
<1>4. Become(p) /\ UNCHANGED <<life, script>>
  BY <1>2, <1>3, Zenon DEF CfunctionReturns, Finish
<1>5. Does(m, p, th) /\ ModeFits(p)
  BY <1>1, <1>2, FinishFits DEF Runs
<1> QED BY <1>1, <1>4, <1>5, RunKeeps

(* A C function that starts is the last activation of the running thread.  *)
LEMMA Starting ==
  ASSUME IInv, NEW name, Starts(name)
  PROVE  \E m, th : /\ Runs(m, th) /\ m.mode = "run" /\ m.cs # <<>>
                    /\ Last(m.cs).kind = "cfun" /\ Last(m.cs).name = name
<1>1. ~ Gets("resume")
  BY DEF Starts, Gets
<1>2. PICK m, th : Runs(m, th)
  BY <1>1, RunsHere
<1> QED BY <1>2 DEF Starts, Runs, Holds

(* pcall.                                                                  *)
LEMMA PcallKeeps ==
  ASSUME IInv, luaB_pcall
  PROVE  IInv'
<1>1. PICK m, th : /\ Runs(m, th) /\ m.mode = "run" /\ m.cs # <<>>
                   /\ Last(m.cs).kind = "cfun" /\ Last(m.cs).name = "pcall"
  BY Starting DEF luaB_pcall
<1>2. m = Now /\ th = Running /\ m.thread[th] = T
  BY <1>1 DEF Runs, Holds
<1>3. PICK p : p = IF Len(m.thread[th].stack) = Func(m.thread[th]) THEN Raise(m, th)
                   ELSE luaD_pcall(m, th, Func(m.thread[th]) + 1, 0)
  OBVIOUS
<1>4. Become(p) /\ UNCHANGED <<life, script>>
  BY <1>2, <1>3, Zenon DEF luaB_pcall
<1>5. Does(m, p, th) /\ ModeFits(p)
  BY <1>1, <1>3, ProtectFits DEF Runs
<1> QED BY <1>1, <1>4, <1>5, RunKeeps

(* xpcall.                                                                 *)
LEMMA XpcallKeeps ==
  ASSUME IInv, luaB_xpcall
  PROVE  IInv'
<1>1. PICK m, th : /\ Runs(m, th) /\ m.mode = "run" /\ m.cs # <<>>
                   /\ Last(m.cs).kind = "cfun" /\ Last(m.cs).name = "xpcall"
  BY Starting DEF luaB_xpcall
<1>2. m = Now /\ th = Running /\ m.thread[th] = T
  BY <1>1 DEF Runs, Holds
<1>3. PICK func : func = Func(m.thread[th])
  OBVIOUS
<1>4. PICK p : p = luaD_pcall(Push(Cut(m, th, func), th, <<"H", "L">>), th, func + 2, func + 1)
  OBVIOUS
<1>5. Become(p) /\ UNCHANGED <<life, script>>
  BY <1>2, <1>3, <1>4, Zenon DEF luaB_xpcall
<1>6. Does(m, p, th) /\ ModeFits(p)
  BY <1>1, <1>3, <1>4, ProtectWithHandler DEF Runs
<1> QED BY <1>1, <1>5, <1>6, RunKeeps

(* error.                                                                  *)
LEMMA ErrorKeeps ==
  ASSUME IInv, luaB_error
  PROVE  IInv'
<1>1. PICK m, th : /\ Runs(m, th) /\ m.mode = "run" /\ m.cs # <<>>
                   /\ Last(m.cs).kind = "cfun" /\ Last(m.cs).name = "error"
  BY Starting DEF luaB_error
<1>2. m = Now /\ th = Running
  BY <1>1 DEF Runs, Holds
<1>3. PICK p : p = Raise(m, th)
  OBVIOUS
<1>4. Become(p) /\ UNCHANGED <<life, script>>
  BY <1>2, <1>3, Zenon DEF luaB_error
<1>5. Does(m, p, th) /\ ModeFits(p)
  BY <1>1, <1>3, RaiseFits DEF Runs
<1> QED BY <1>1, <1>4, <1>5, RunKeeps

(* luaG_errormsg.                                                          *)
LEMMA MessageKeeps ==
  ASSUME IInv, Message
  PROVE  IInv'
<1>1. ~ Gets("resume") /\ mode = "raise" /\ UNCHANGED <<life, script>>
  BY DEF Gets, Message
<1>2. PICK m, th : Runs(m, th)
  BY <1>1, RunsHere
<1>3. m = Now /\ th = Running /\ m.thread[th] = T /\ m.mode = "raise" /\ th = RunningIn(m)
  BY <1>1, <1>2 DEF Runs, Holds
<1>4. /\ m.cs # <<>> /\ Last(m.cs).kind \in {"call", "execute", "cfun", "resume"}
      /\ Fits(th, m.thread[th], m.cs, Len(m.thread[th].stack) - 1)
  <2>1. ModeFits(m)
    BY <1>2 DEF Runs, Holds, IInv, Correct
  <2>2. m.cs # <<>> /\ Goes(m, Last(m.cs).th)
    BY <1>3, <2>1 DEF ModeFits
  <2>3. th = Last(m.cs).th
    BY <1>3, <2>2 DEF RunningIn
  <2> QED BY <1>3, <2>2, <2>3 DEF Goes, Errors
<1>5. PICK p : p = IF m.thread[th].errfunc = 0 THEN Doing(m, "ERRRUN")
                   ELSE luaD_call(Activate(Informed(m, th), Handler(m, th)), th,
                                  Len(m.thread[th].stack), 1)
  OBVIOUS
<1>6. Become(p)
  BY <1>3, <1>5, Zenon DEF Message, Informed, Handler
<1>7. Does(m, p, th) /\ ModeFits(p)
  BY <1>2, <1>4, <1>5, MessageFits DEF Runs
<1> QED BY <1>1, <1>2, <1>6, <1>7, RunKeeps

(* An error that pcall or xpcall catches.                                  *)
LEMMA CatchKeeps ==
  ASSUME IInv, CatchInPcall
  PROVE  IInv'
<1>1. ~ Gets("resume") /\ mode \in Errors /\ UNCHANGED <<life, script>> /\ Caught.kind = "pcall"
  BY DEF Gets, CatchInPcall, Errors
<1>2. PICK m, th : Runs(m, th)
  BY <1>1, RunsHere
<1>3. m = Now /\ th = Running /\ m.cs = cs /\ m.mode = mode
  BY <1>2 DEF Runs, Holds
<1>4. m.cs # <<>>
  <2>1. ModeFits(m)
    BY <1>2 DEF Runs, Holds, IInv, Correct
  <2> QED BY <1>1, <1>3, <2>1 DEF ModeFits, Errors
<1>5. PICK k : k = CaughtAt(m)
  OBVIOUS
<1>6. k = Max(Catchers) /\ m.cs[k] = Caught
  BY <1>3, <1>5, Zenon DEF CaughtAt, CatchersOf, Catchers, Caught
<1>7. PICK p : p = Recovered(m, k)
  OBVIOUS
<1>8. Become(p)
  BY <1>3, <1>6, <1>7, Zenon DEF CatchInPcall, Recovered, Below, Caught
<1>9. Does(m, p, th) /\ ModeFits(p)
  <2>1. At(m, th) /\ m.cs[k].kind = "pcall"
    BY <1>1, <1>2, <1>6 DEF Runs
  <2> QED BY <1>4, <1>5, <1>7, <2>1, CatchFits
<1> QED BY <1>1, <1>2, <1>8, <1>9, RunKeeps

(* exec_lua begins.                                                        *)
LEMMA ExecKeeps ==
  ASSUME IInv, exec_lua
  PROVE  IInv'
<1>1. ~ Gets("resume") /\ cs = <<>> /\ mode = "run" /\ UNCHANGED <<life, script>>
  BY DEF Gets, exec_lua
<1>2. PICK m, th : Runs(m, th)
  BY <1>1, RunsHere
<1>3. m = Now /\ m.cs = <<>> /\ m.mode = "run" /\ th = Main
  BY <1>1, <1>2 DEF Runs, Holds, RunningIn
<1>4. Len(m.thread[Main].stack) = 1
  <2>1. ModeFits(m)
    BY <1>2 DEF Runs, Holds, IInv, Correct
  <2> QED BY <1>3, <2>1 DEF ModeFits
<1>5. PICK p : p = luaD_pcall(Push(m, Main, <<"L">>), Main, 2, 0)
  OBVIOUS
<1>6. Become(p)
  BY <1>3, <1>5, Zenon DEF exec_lua
<1>7. Does(m, p, Main) /\ ModeFits(p)
  BY <1>2, <1>3, <1>4, <1>5, ExecFits DEF Runs
<1> QED BY <1>1, <1>2, <1>3, <1>6, <1>7, RunKeeps

(* exec_lua is over.                                                       *)
LEMMA ExecReturnsKeeps ==
  ASSUME IInv, exec_luaReturns
  PROVE  IInv'
<1>1. ~ Gets("resume") /\ cs = <<>> /\ UNCHANGED <<life, script>>
  BY DEF Gets, exec_luaReturns
<1>2. PICK m, th : Runs(m, th)
  BY <1>1, RunsHere
<1>3. m = Now /\ m.cs = <<>> /\ th = Main
  BY <1>1, <1>2 DEF Runs, Holds, RunningIn
<1>4. PICK p : p = Doing(Cut(m, Main, 1), "run")
  OBVIOUS
<1>5. Become(p)
  BY <1>3, <1>4, Zenon DEF exec_luaReturns
<1>6. Does(m, p, Main) /\ ModeFits(p)
  BY <1>2, <1>3, <1>4, ExecEnds DEF Runs
<1> QED BY <1>1, <1>2, <1>3, <1>5, <1>6, RunKeeps

(* What happens to a coroutine leaves the others as they are.              *)
LEMMA LivesOn ==
  ASSUME NEW m, NEW lf, Correct(m, lf), NEW o \in Coroutine, ~ Leaving(m, o)
  PROVE  IF o \in ActiveIn(m.cs) THEN lf[o] = "begun" /\ m.thread[o].status = "0"
                                 ELSE Resting(m.thread[o], lf[o])
<1>1. Lives(m, lf, o)
  BY DEF Correct
<1> QED BY <1>1, Zenon DEF Lives

(* While a thread runs no other is leaving lua_resume.                     *)
LEMMA NotLeaving ==
  ASSUME NEW m, NEW lf, Correct(m, lf), NEW th, At(m, th), NEW o, o # th
  PROVE  ~ Leaving(m, o)
<1> SUFFICES ASSUME Leaving(m, o) PROVE FALSE
  OBVIOUS
<1>1. m.cs # <<>> /\ Last(m.cs).th = o
  BY DEF Leaving
<1>2. m.cs \in Seq(Activation) /\ m.cs[Len(m.cs)].th = th
  BY <1>1 DEF At, Good, OnTop, Machine
<1> QED BY <1>1, <1>2 DEF Last

Untouched(m, p, lf, lf2, o) ==
  /\ ~ Leaving(m, o) /\ lf2[o] = lf[o]
  /\ p.thread[o].status = m.thread[o].status
  /\ o \in ActiveIn(p.cs) <=> o \in ActiveIn(m.cs)
  /\ o \in ActiveIn(m.cs) \/ p.thread[o] = m.thread[o]

(* A step that settles one coroutine, and leaves the others untouched,     *)
(* keeps it all.                                                           *)
LEMMA SettlesCorrect ==
  ASSUME NEW m, NEW lf, Correct(m, lf), NEW p, Good(p), ModeFits(p), NEW co \in Coroutine,
         NEW lf2 \in [Coroutine -> {"new", "refused", "begun", "over"}],
         p.thread[Main].status = "0", Lives(p, lf2, co),
         \A o \in Coroutine \ {co} : Untouched(m, p, lf, lf2, o)
  PROVE  Correct(p, lf2)
<1>1. ASSUME NEW o \in Coroutine, o # co PROVE Lives(p, lf2, o)
  <2>1. Untouched(m, p, lf, lf2, o)
    BY <1>1
  <2>2. ~ Leaving(m, o)
    BY <2>1 DEF Untouched
  <2>3. IF o \in ActiveIn(m.cs) THEN lf[o] = "begun" /\ m.thread[o].status = "0"
                                ELSE Resting(m.thread[o], lf[o])
    BY <2>2, LivesOn
  <2>4. CASE o \in ActiveIn(m.cs)
    <3>1. o \in ActiveIn(p.cs) /\ lf2[o] = "begun" /\ p.thread[o].status = "0"
      BY <2>1, <2>3, <2>4 DEF Untouched
    <3> QED BY <3>1, Zenon DEF Lives
  <2>5. CASE o \notin ActiveIn(m.cs)
    <3>1. o \notin ActiveIn(p.cs) /\ lf2[o] = lf[o] /\ p.thread[o] = m.thread[o]
      BY <2>1, <2>5 DEF Untouched
    <3>2. Resting(p.thread[o], lf2[o])
      BY <2>3, <2>5, <3>1
    <3> QED BY <3>1, <3>2, Zenon DEF Lives
  <2> QED BY <2>4, <2>5
<1>2. \A o \in Coroutine : Lives(p, lf2, o)
  BY <1>1
<1> QED BY <1>2 DEF Correct

(* A yield does that.                                                      *)
LEMMA YieldCorrect ==
  ASSUME NEW m, NEW lf, Correct(m, lf), NEW co, At(m, co), co \in ActiveIn(m.cs),
         NEW p, Yields(m, p, co)
  PROVE  Correct(p, lf)
<1>1. /\ Good(p) /\ ModeFits(p) /\ co \in Coroutine /\ p.thread[co].status = "YIELD"
      /\ p.mode = "return" /\ p.cs # <<>> /\ Last(p.cs).kind = "resume" /\ Last(p.cs).th = co
      /\ ActiveIn(p.cs) = ActiveIn(m.cs)
      /\ \A o \in Threads \ {co} : p.thread[o] = m.thread[o]
  BY DEF Yields
<1>2. /\ lf \in [Coroutine -> {"new", "refused", "begun", "over"}]
      /\ m.thread[Main].status = "0" /\ Lives(m, lf, co)
  BY <1>1 DEF Correct
<1>3. p.thread[Main].status = "0"
  BY <1>1, <1>2, MainAssumption DEF Threads
<1>4. Lives(p, lf, co)
  <2>1. lf[co] = "begun"
    BY <1>2, Zenon DEF Lives
  <2>2. Leaving(p, co)
    BY <1>1 DEF Leaving
  <2> QED BY <1>1, <2>1, <2>2 DEF Lives
<1>5. \A o \in Coroutine \ {co} : Untouched(m, p, lf, lf, o)
  BY <1>1, NotLeaving DEF Untouched, Threads
<1> QED BY <1>1, <1>2, <1>3, <1>4, <1>5, SettlesCorrect

(* So does entering lua_resume,                                            *)
LEMMA EnterCorrect ==
  ASSUME NEW m, NEW lf, Correct(m, lf), m.mode = "run", NEW co \in Coroutine,
         NEW q, Resuming(m, q, co), NEW p, Enters(q, p, co),
         NEW lf2, lf2 = [lf EXCEPT ![co] = "begun"]
  PROVE  Correct(p, lf2)
<1>1. /\ Good(p) /\ ModeFits(p) /\ p.thread[co].status = "0"
      /\ ActiveIn(p.cs) = ActiveIn(m.cs) \union {co}
      /\ \A o \in Threads \ {co} : p.thread[o] = m.thread[o]
  BY DEF Enters, Resuming, At
<1>2. /\ lf \in [Coroutine -> {"new", "refused", "begun", "over"}]
      /\ m.thread[Main].status = "0"
  BY DEF Correct
<1>3. p.thread[Main].status = "0"
  BY <1>1, <1>2, MainAssumption DEF Threads
<1>4. /\ lf2 \in [Coroutine -> {"new", "refused", "begun", "over"}] /\ lf2[co] = "begun"
      /\ \A o \in Coroutine \ {co} : lf2[o] = lf[o]
  BY <1>2
<1>5. Lives(p, lf2, co)
  BY <1>1, <1>4 DEF Lives
<1>6. \A o \in Coroutine \ {co} : ~ Leaving(m, o)
  BY DEF Leaving
<1>7. \A o \in Coroutine \ {co} : Untouched(m, p, lf, lf2, o)
  BY <1>1, <1>4, <1>6 DEF Untouched, Threads
<1> QED BY <1>1, <1>3, <1>4, <1>5, <1>7, SettlesCorrect

(* and leaving it.                                                         *)
LEMMA LeftCorrect ==
  ASSUME NEW m, NEW lf, Correct(m, lf), NEW p, NEW L, NEW co, Left(m, p, L, co),
         \A o \in Coroutine \ {co} : ~ Leaving(m, o),
         NEW lf2 \in [Coroutine -> {"new", "refused", "begun", "over"}],
         \A o \in Coroutine \ {co} : lf2[o] = lf[o], Resting(p.thread[co], lf2[co])
  PROVE  Correct(p, lf2)
<1>1. /\ Good(p) /\ ModeFits(p) /\ co \in Coroutine /\ L \in ActiveIn(m.cs) /\ L # co
      /\ L \in Threads
      /\ \A o \in Threads \ {co, L} : p.thread[o] = m.thread[o]
      /\ p.thread[L].status = m.thread[L].status
      /\ ActiveIn(p.cs) = ActiveIn(m.cs) \ {co}
  BY DEF Left, At
<1>2. \A o \in Threads \ {co} : p.thread[o].status = m.thread[o].status
  BY <1>1
<1>3. p.thread[Main].status = "0"
  BY <1>1, <1>2, MainAssumption DEF Threads, Correct
<1>4. Lives(p, lf2, co)
  BY <1>1, Zenon DEF Lives
<1>5. ASSUME NEW o \in Coroutine \ {co} PROVE Untouched(m, p, lf, lf2, o)
  <2>1. o \in Threads /\ o # co
    BY DEF Threads
  <2>2. o \in ActiveIn(m.cs) \/ p.thread[o] = m.thread[o]
    BY <1>1, <2>1
  <2> QED BY <1>1, <1>2, <2>1, <2>2 DEF Untouched
<1> QED BY <1>1, <1>3, <1>4, <1>5, SettlesCorrect

(* A C function that gets the results of lua_resume has not yielded.       *)
LEMMA UnderHasNotYielded ==
  ASSUME NEW m, NEW lf, Correct(m, lf), NEW q, NEW co, Without(m, q, co),
         \A o \in Coroutine \ {co} : ~ Leaving(m, o), NEW L, L = Last(q.cs).th
  PROVE  m.thread[L].status = "0"
<1>1. q.cs \in Seq(Activation) /\ q.cs # <<>> /\ ActiveIn(q.cs) = ActiveIn(m.cs) \ {co}
  BY DEF Without, Good, Machine
<1>2. Len(q.cs) \in 1 .. Len(q.cs) /\ Last(q.cs) = q.cs[Len(q.cs)] /\ Last(q.cs) \in Activation
  BY <1>1 DEF Last
<1>3. L \in ActiveIn(m.cs) /\ L # co /\ L \in Threads
  BY <1>1, <1>2 DEF ActiveIn, Activation
<1>4. CASE L = Main
  BY <1>4 DEF Correct
<1>5. CASE L \in Coroutine
  <2>1. m.thread[L].status = "0"
    BY <1>3, <1>5, LivesOn
  <2> QED BY <2>1
<1> QED BY <1>3, <1>4, <1>5 DEF Threads

(* coroutine.yield, allowed or refused.                                    *)
LEMMA YieldKeeps ==
  ASSUME IInv, luaB_yield
  PROVE  IInv'
<1>1. PICK m, th : /\ Runs(m, th) /\ m.mode = "run" /\ m.cs # <<>>
                   /\ Last(m.cs).kind = "cfun" /\ Last(m.cs).name = "yield"
  BY Starting DEF luaB_yield
<1>2. m = Now /\ th = Running /\ m.thread[th] = T /\ At(m, th) /\ th \in ActiveIn(m.cs)
  BY <1>1 DEF Runs, Holds
<1>3. UNCHANGED <<life, script>>
  BY DEF luaB_yield
<1>4. CASE ~ CanYield(T)
  <2>1. PICK p : p = Raise(m, th)
    OBVIOUS
  <2>2. Become(p)
    BY <1>2, <1>4, <2>1, Zenon DEF luaB_yield
  <2>3. Does(m, p, th) /\ ModeFits(p)
    BY <1>1, <1>2, <2>1, RaiseFits
  <2> QED BY <1>1, <1>3, <2>2, <2>3, RunKeeps
<1>5. CASE CanYield(T)
  <2>1. PICK p : p = Yielded(m, th)
    OBVIOUS
  <2>2. Become(p)
    BY <1>2, <1>5, <2>1, Zenon DEF luaB_yield, Yielded
  <2>3. Yields(m, p, th)
    BY <1>1, <1>2, <1>5, <2>1, YieldFits
  <2>4. Correct(m, life) /\ script \in Scripts
    BY <1>2 DEF IInv
  <2>5. Correct(p, life)
    BY <1>2, <2>3, <2>4, YieldCorrect
  <2> QED BY <1>3, <2>2, <2>4, <2>5, Becomes
<1> QED BY <1>4, <1>5

(* coroutine.status is right: a coroutine that can be resumed is not on    *)
(* the C stack, and has yielded or never run.                              *)
Resumable(m, lf, co) ==
  /\ Absent(co, m.cs)
  /\ \/ lf[co] = "begun" /\ m.thread[co].status = "YIELD"
     \/ lf[co] = "new" /\ m.thread[co].status = "0" /\ m.thread[co].stack = <<Nil, "L">>

(* The coroutines costatus calls suspended are those.                      *)
LEMMA SuspendedResumes ==
  ASSUME IInv, NEW m, NEW L, Runs(m, L), NEW co \in Coroutine, costatus(L, co) = "suspended"
  PROVE  Resumable(m, life, co)
<1>1. /\ Correct(m, life) /\ m.thread = thread /\ At(m, L) /\ Good(m)
      /\ m.cs \in Seq(Activation) /\ Stacked(m.cs) /\ OnTop(m.cs, L)
  BY DEF Runs, Holds, IInv, At, Good, Machine
<1>2. /\ L # co
      /\ \/ m.thread[co].status = "YIELD"
         \/ m.thread[co].status = "0" /\ ~ (Len(m.thread[co].ci) > 1) /\ Len(m.thread[co].stack) # 1
  BY <1>1, Zenon DEF costatus
<1>3. co # Main /\ co \in Threads /\ ~ Leaving(m, co)
  BY <1>1, <1>2, MainAssumption, NotLeaving DEF Threads
<1>4. IF co \in ActiveIn(m.cs) THEN life[co] = "begun" /\ m.thread[co].status = "0"
                               ELSE Resting(m.thread[co], life[co])
  BY <1>1, <1>3, LivesOn
<1>5. co \notin ActiveIn(m.cs)
  <2> SUFFICES ASSUME co \in ActiveIn(m.cs) PROVE FALSE
    OBVIOUS
  <2>1. PICK i \in 1 .. Len(m.cs) : m.cs[i].th = co
    BY <1>3 DEF ActiveIn
  <2>2. m.cs # <<>> /\ m.cs[i].th # m.cs[Len(m.cs)].th
    BY <1>1, <1>2, <2>1 DEF OnTop
  <2>3. Depth(m.cs, co, Len(m.cs)) > 1
    BY <1>1, <2>1, <2>2, UnderResume
  <2>4. m.thread[co].status = "0" /\ Framed(co, m.thread[co], m.cs)
    BY <1>1, <1>3, <1>4 DEF Good, Accounts
  <2>5. Len(m.thread[co].ci) = Depth(m.cs, co, Len(m.cs))
    BY <2>4 DEF Framed
  <2> QED BY <1>2, <2>3, <2>4, <2>5
<1>6. Absent(co, m.cs)
  BY <1>3, <1>5 DEF Absent, ActiveIn
<1>7. Resting(m.thread[co], life[co])
  BY <1>4, <1>5
<1> QED BY <1>2, <1>6, <1>7 DEF Resting, Resumable, Errors

(* resume and wrap are C functions of the running thread.                  *)
LEMMA ResumeStarting ==
  ASSUME IInv, NEW co \in Coroutine, Resume(co)
  PROVE  \E m, L : /\ Runs(m, L) /\ m.mode = "run" /\ m.cs # <<>>
                   /\ Last(m.cs).kind = "cfun" /\ UNCHANGED script
<1>1. Starts("resume") \/ Starts("wrap")
  BY DEF Resume
<1>2. UNCHANGED script
  BY DEF Resume
<1> QED BY <1>1, <1>2, Starting

(* The three ways lua_resume can go.                                       *)
LEMMA NotResumedKeeps ==
  ASSUME IInv, NEW co \in Coroutine, NEW m, NEW L, Runs(m, L), m.cs # <<>>,
         Last(m.cs).kind = "cfun", UNCHANGED <<life, script>>,
         NEW p, p = ResumeFails(m, L, Last(m.cs).name), Become(p)
  PROVE  IInv'
<1>1. Does(m, p, L) /\ ModeFits(p)
  BY FailsFits DEF Runs
<1> QED BY <1>1, RunKeeps

(* lua_resume refuses for lack of C stack.                                 *)
LEMMA RefusedKeeps ==
  ASSUME IInv, NEW co \in Coroutine, NEW m, NEW L, Runs(m, L), m.cs # <<>>,
         Last(m.cs).kind = "cfun", UNCHANGED script, Resumable(m, life, co),
         NEW q, q = Cut(m, co, Func(m.thread[co])),
         NEW p, p = ResumeFails(q, L, Last(m.cs).name), Become(p),
         life' = [life EXCEPT ![co] = IF @ = "new" THEN "refused" ELSE @]
  PROVE  IInv'
<1>1. /\ Correct(m, life) /\ script \in Scripts /\ At(m, L) /\ Good(m)
      /\ L = RunningIn(m) /\ life \in [Coroutine -> {"new", "refused", "begun", "over"}]
  BY DEF Runs, Holds, IInv, At, Correct
<1>2. /\ Without(m, q, co) /\ q.cs = m.cs /\ q.thread[co].status = m.thread[co].status
  BY <1>1, RefusedWithout DEF Resumable
<1>3. L = Last(q.cs).th /\ m.thread[L].status = "0"
  BY <1>1, <1>2 DEF RunningIn, At
<1>4. Left(m, p, L, co) /\ p.thread[co] = q.thread[co]
  <2>1. PICK name : name = Last(m.cs).name
    OBVIOUS
  <2>2. p = Resumed(luaD_poscall(Leave(q), L, <<"v">>)) \/ p = ResumeFails(q, L, name)
    BY <2>1
  <2> QED BY ONLY <1>2, <1>3, <2>2, LeftTo
<1>5. \A o \in Coroutine \ {co} : ~ Leaving(m, o)
  <2>1. m.cs # <<>> /\ Last(m.cs).kind = "cfun"
    OBVIOUS
  <2> QED BY <2>1 DEF Leaving
<1>6. /\ life' \in [Coroutine -> {"new", "refused", "begun", "over"}]
      /\ \A o \in Coroutine \ {co} : life'[o] = life[o]
      /\ life'[co] = IF life[co] = "new" THEN "refused" ELSE life[co]
  BY <1>1
<1>7. Resting(p.thread[co], life'[co])
  <2>1. p.thread[co].status = m.thread[co].status
        /\ (p.thread[co].status # "0" \/ Len(p.thread[co].stack) = 1)
    BY <1>2, <1>4 DEF Left
  <2>2. CASE life[co] = "begun" /\ m.thread[co].status = "YIELD"
    BY <1>6, <2>1, <2>2 DEF Resting
  <2>3. CASE life[co] = "new" /\ m.thread[co].status = "0"
    BY <1>6, <2>1, <2>3 DEF Resting
  <2> QED BY <2>2, <2>3 DEF Resumable
<1>8. PICK lf2 : lf2 = life'
  OBVIOUS
<1>9. Correct(p, lf2)
  <2>1. /\ lf2 \in [Coroutine -> {"new", "refused", "begun", "over"}]
        /\ \A o \in Coroutine \ {co} : lf2[o] = life[o]
        /\ Resting(p.thread[co], lf2[co])
    BY <1>6, <1>7, <1>8
  <2> QED BY ONLY <1>1, <1>4, <1>5, <2>1, LeftCorrect
<1> QED BY <1>1, <1>8, <1>9, Becomes

(* lua_resume enters the coroutine.                                        *)
LEMMA ResumedKeeps ==
  ASSUME IInv, NEW co \in Coroutine, NEW m, NEW L, Runs(m, L), m.cs # <<>>, m.mode = "run",
         Last(m.cs).kind = "cfun", UNCHANGED script, Resumable(m, life, co),
         NEW q, q = Levelled(m, co, m.thread[L].nCcalls),
         NEW r, r = Activate(q, [kind |-> "resume", th |-> co]),
         NEW p, p = Enter(r, co), Become(p), life' = [life EXCEPT ![co] = "begun"]
  PROVE  IInv'
<1>1. /\ Correct(m, life) /\ script \in Scripts /\ At(m, L) /\ m \in Machine
      /\ co \in Threads
  BY DEF Runs, Holds, IInv, At, Good, Threads
<1>2. m.thread[L].nCcalls \in Nat
  <2>1. m.thread[L] \in ThreadState
    BY <1>1, TopIs
  <2> QED BY <2>1, ThreadFields
<1>3. Levels(m, q, co, m.thread[L].nCcalls + 1)
  BY <1>1, <1>2, Levelling
<1>4. PICK a : a = [kind |-> "resume", th |-> co]
  OBVIOUS
<1>5. a \in Activation /\ a.kind = "resume" /\ a.th = co
  BY <1>1, <1>4 DEF Activation
<1>6. r = Activate(q, a) /\ Absent(co, m.cs)
  BY <1>4 DEF Resumable
<1>7. Resuming(m, r, co)
  BY <1>1, <1>3, <1>5, <1>6, ResumeBegins
<1>8. r.mode = "run" /\ r.thread[co].status = m.thread[co].status
      /\ r.thread[co].stack = m.thread[co].stack
  BY <1>7 DEF Resuming
<1>9. \/ r.thread[co].status = "YIELD"
      \/ r.thread[co].status = "0" /\ r.thread[co].stack = <<Nil, "L">>
  BY <1>8 DEF Resumable
<1>10. Enters(r, p, co)
  BY <1>7, <1>8, <1>9, EnterFits
<1>11. PICK lf2 : lf2 = [life EXCEPT ![co] = "begun"]
  OBVIOUS
<1>12. Correct(p, lf2)
  BY <1>1, <1>7, <1>10, <1>11, EnterCorrect
<1> QED BY <1>1, <1>11, <1>12, Becomes

(* coroutine.resume and the functions coroutine.wrap makes.                *)
LEMMA ResumeKeeps ==
  ASSUME IInv, NEW co \in Coroutine, Resume(co)
  PROVE  IInv'
<1>1. PICK m, L : /\ Runs(m, L) /\ m.mode = "run" /\ m.cs # <<>>
                  /\ Last(m.cs).kind = "cfun" /\ UNCHANGED script
  BY ResumeStarting
<1>2. m = Now /\ L = Running /\ m.thread[L] = T /\ m.thread = thread /\ Last(m.cs) = Top
  BY <1>1 DEF Runs, Holds
<1>3. CASE /\ costatus(Running, co) # "suspended"
           /\ Become(ResumeFails(Now, Running, Top.name))
           /\ UNCHANGED life
  <2>1. PICK p : p = ResumeFails(m, L, Last(m.cs).name)
    OBVIOUS
  <2>2. Become(p) /\ UNCHANGED <<life, script>>
    BY <1>1, <1>2, <1>3, <2>1
  <2> QED BY <1>1, <2>1, <2>2, NotResumedKeeps
<1>4. CASE /\ costatus(Running, co) = "suspended"
           /\ Become(ResumeFails(Cut(Now, co, Func(thread[co])), Running, Top.name))
           /\ life' = [life EXCEPT ![co] = IF @ = "new" THEN "refused" ELSE @]
  <2>1. PICK q : q = Cut(m, co, Func(m.thread[co]))
    OBVIOUS
  <2>2. PICK p : p = ResumeFails(q, L, Last(m.cs).name)
    OBVIOUS
  <2>3. Become(p)
    BY <1>2, <1>4, <2>1, <2>2
  <2>4. Resumable(m, life, co)
    BY <1>1, <1>2, <1>4, SuspendedResumes
  <2> QED BY <1>1, <1>4, <2>1, <2>2, <2>3, <2>4, RefusedKeeps
<1>5. CASE /\ costatus(Running, co) = "suspended"
           /\ Become(Enter(Activate(Levelled(Now, co, T.nCcalls),
                                    [kind |-> "resume", th |-> co]), co))
           /\ life' = [life EXCEPT ![co] = "begun"]
  <2>1. PICK q : q = Levelled(m, co, m.thread[L].nCcalls)
    OBVIOUS
  <2>2. PICK r : r = Activate(q, [kind |-> "resume", th |-> co])
    OBVIOUS
  <2>3. PICK p : p = Enter(r, co)
    OBVIOUS
  <2>4. Become(p)
    BY <1>2, <1>5, <2>1, <2>2, <2>3
  <2>5. Resumable(m, life, co)
    BY <1>1, <1>2, <1>5, SuspendedResumes
  <2> QED BY <1>1, <1>5, <2>1, <2>2, <2>3, <2>4, <2>5, ResumedKeeps
<1> QED BY <1>3, <1>4, <1>5, Zenon DEF Resume, Levelled

(* lua_resume returns.                                                     *)
LEMMA ResumeReturnsKeeps ==
  ASSUME IInv, ResumeReturns
  PROVE  IInv'
<1>1. PICK m, co : Holds(m, co)
  BY ItHolds
<1>2. /\ Correct(m, life) /\ script \in Scripts /\ Good(m)
      /\ life \in [Coroutine -> {"new", "refused", "begun", "over"}]
  BY <1>1 DEF Holds, IInv, Correct
<1>3. /\ m = Now /\ co = Running /\ m.thread[co] = T /\ m.cs # <<>> /\ m.mode = "return"
      /\ Last(m.cs).kind = "resume" /\ co = Last(m.cs).th
  BY <1>1 DEF Holds, ResumeReturns, Gets
<1>4. PICK q : q = Ended(m, co)
  OBVIOUS
<1>5. PICK L : L = Last(q.cs).th
  OBVIOUS
<1>6. PICK p : p = Resumed(luaD_poscall(Leave(q), L, <<"v">>))
  OBVIOUS
<1>7. Become(p) /\ UNCHANGED script
      /\ life' = IF T.status = "YIELD" THEN life ELSE [life EXCEPT ![co] = "over"]
  BY <1>3, <1>4, <1>5, <1>6, Zenon DEF ResumeReturns, Ended
<1>8. co \in Coroutine /\ co \in ActiveIn(m.cs)
  <2>1. PICK st, n : st = m.cs /\ n = Len(st)
    OBVIOUS
  <2>2. st \in Seq(Activation) /\ Stacked(st) /\ st # <<>>
    BY <1>2, <1>3, <2>1 DEF Good, Machine
  <2>3. n \in 1 .. Len(st) /\ st[n].kind = "resume" /\ st[n].th = co
    BY <1>3, <2>1, <2>2 DEF Last
  <2> QED BY <2>1, <2>2, <2>3, OnlyResumed DEF ActiveIn
<1>9. life[co] = "begun" /\ m.thread[co].status \in {"0", "YIELD"}
  <2>1. Lives(m, life, co)
    BY <1>2, <1>8 DEF Correct
  <2> QED BY <1>8, <2>1, Zenon DEF Lives
<1>10. Without(m, q, co) /\ q.thread[co].status = m.thread[co].status
  BY <1>2, <1>3, <1>4, <1>9, EndedWithout
<1>11. \A o \in Coroutine \ {co} : ~ Leaving(m, o)
  BY <1>3 DEF Leaving
<1>12. m.thread[L].status = "0"
  BY <1>2, <1>5, <1>10, <1>11, UnderHasNotYielded
<1>13. Left(m, p, L, co) /\ p.thread[co] = q.thread[co]
  BY <1>5, <1>6, <1>10, <1>12, LeftTo
<1>14. /\ life' \in [Coroutine -> {"new", "refused", "begun", "over"}]
       /\ \A o \in Coroutine \ {co} : life'[o] = life[o]
       /\ life'[co] = IF m.thread[co].status = "YIELD" THEN "begun" ELSE "over"
  <2>1. CASE T.status = "YIELD"
    BY <1>2, <1>3, <1>7, <1>9, <2>1
  <2>2. CASE T.status = "0"
    BY <1>2, <1>3, <1>7, <1>8, <2>2
  <2> QED BY <1>3, <1>9, <2>1, <2>2
<1>15. Resting(p.thread[co], life'[co])
  <2>1. p.thread[co].status = m.thread[co].status
        /\ (p.thread[co].status # "0" \/ Len(p.thread[co].stack) = 1)
    BY <1>10, <1>13 DEF Left
  <2> QED BY <1>9, <1>14, <2>1 DEF Resting
<1>16. PICK lf2 : lf2 = life'
  OBVIOUS
<1>17. Correct(p, lf2)
  BY <1>2, <1>11, <1>13, <1>14, <1>15, <1>16, LeftCorrect
<1> QED BY <1>2, <1>7, <1>16, <1>17, Becomes

(* An error that ends a coroutine.                                         *)
LEMMA CatchInResumeKeeps ==
  ASSUME IInv, CatchInResume
  PROVE  IInv'
<1>1. mode \in Errors /\ Caught.kind = "resume" /\ UNCHANGED script
      /\ life' = [life EXCEPT ![Caught.th] = "over"]
  BY Zenon DEF CatchInResume
<1>2. PICK m, th : Holds(m, th)
  BY ItHolds
<1>3. /\ Correct(m, life) /\ script \in Scripts /\ Good(m)
      /\ life \in [Coroutine -> {"new", "refused", "begun", "over"}]
      /\ m = Now /\ m.cs = cs /\ m.mode = mode
  BY <1>2 DEF Holds, IInv, Correct
<1>4. m.cs # <<>>
  BY <1>1, <1>3 DEF Correct, ModeFits, Errors
<1>5. PICK k : k = CaughtAt(m)
  OBVIOUS
<1>6. k = Max(Catchers) /\ m.cs[k] = Caught
  BY <1>3, <1>5, Zenon DEF CaughtAt, CatchersOf, Catchers, Caught
<1>7. PICK co : co = m.cs[k].th
  OBVIOUS
<1>8. PICK q : q = Killed(m, k, mode)
  OBVIOUS
<1>9. /\ Without(m, q, co) /\ q.thread[co].status = mode
      /\ q.cs = SubSeq(m.cs, 1, k - 1) /\ co \in ActiveIn(m.cs)
  <2>1. PICK errcode : errcode = mode
    OBVIOUS
  <2>2. errcode \in Errors /\ m.cs[k].kind = "resume" /\ q = Killed(m, k, errcode)
    BY <1>1, <1>6, <1>8, <2>1
  <2> QED BY ONLY <1>3, <1>4, <1>5, <1>7, <2>1, <2>2, KilledWithout
<1>10. PICK L : L = Last(q.cs).th
  OBVIOUS
<1>11. PICK p : p = ResumeFails(q, L, Last(q.cs).name)
  OBVIOUS
<1>12. Below.cs = q.cs
  <2>1. m \in Machine
    BY <1>3 DEF Good
  <2>2. Below = [m EXCEPT !.cs = SubSeq(@, 1, k - 1)]
    BY <1>3, <1>6 DEF Below
  <2> QED BY <1>9, <2>1, <2>2 DEF Machine
<1>13. Kill(Below, Caught.th, mode) = q
  BY <1>3, <1>6, <1>8, Zenon DEF Killed, Below
<1>14. Become(p)
  BY <1>7, <1>10, <1>11, <1>12, <1>13, Zenon DEF CatchInResume
<1>15. \A o \in Coroutine \ {co} : ~ Leaving(m, o)
  BY <1>1, <1>3 DEF Leaving, Errors
<1>16. m.thread[L].status = "0"
  BY <1>3, <1>9, <1>10, <1>15, UnderHasNotYielded
<1>17. Left(m, p, L, co) /\ p.thread[co] = q.thread[co]
  <2>1. PICK name : name = Last(q.cs).name
    OBVIOUS
  <2>2. p = Resumed(luaD_poscall(Leave(q), L, <<"v">>)) \/ p = ResumeFails(q, L, name)
    BY <1>11, <2>1
  <2>3. Without(m, q, co)
    BY <1>9
  <2> QED BY ONLY <1>10, <1>16, <2>2, <2>3, LeftTo
<1>18. co \in Coroutine
  BY <1>9 DEF Without
<1>19. /\ life' \in [Coroutine -> {"new", "refused", "begun", "over"}]
       /\ \A o \in Coroutine \ {co} : life'[o] = life[o] /\ life'[co] = "over"
       /\ life'[co] = "over"
  BY <1>1, <1>3, <1>6, <1>7, <1>18
<1>20. Resting(p.thread[co], life'[co])
  <2>1. p.thread[co].status = mode
        /\ (p.thread[co].status # "0" \/ Len(p.thread[co].stack) = 1)
    BY <1>9, <1>17 DEF Left
  <2> QED BY <1>1, <1>19, <2>1 DEF Resting, Errors
<1>21. PICK lf2 : lf2 = life'
  OBVIOUS
<1>22. Correct(p, lf2)
  BY <1>3, <1>15, <1>17, <1>19, <1>20, <1>21, LeftCorrect
<1> QED BY <1>1, <1>3, <1>14, <1>21, <1>22, Becomes

(* Two values pushed at once are pushed one after the other.               *)
LEMMA Pair ==
  ASSUME NEW S, NEW a \in S, NEW b \in S
  PROVE  <<a>> \o <<b>> = <<a, b>>
<1>1. PICK x, y : x = <<a>> /\ y = <<b>>
  OBVIOUS
<1>2. x \in Seq(S) /\ y \in Seq(S) /\ Len(x) = 1 /\ Len(y) = 1 /\ x[1] = a /\ y[1] = b
  BY <1>1
<1>3. PICK z : z = x \o y
  OBVIOUS
<1>4. z \in Seq(S) /\ Len(z) = 2 /\ z[1] = a /\ z[2] = b
  BY ONLY <1>2, <1>3, ConcatProperties
<1>5. PICK w : w = <<a, b>>
  OBVIOUS
<1>6. w \in Seq(S) /\ Len(w) = 2 /\ w[1] = a /\ w[2] = b
  BY <1>5
<1>7. \A i \in 1 .. Len(z) : z[i] = w[i]
  <2>1. \A i \in 1 .. 2 : i = 1 \/ i = 2
    OBVIOUS
  <2> QED BY <1>4, <1>6, <2>1
<1>8. z = w
  BY ONLY <1>4, <1>6, <1>7, SeqEqual
<1> QED BY <1>1, <1>3, <1>5, <1>8

(* The threads as lua_open and coroutine.create leave them.                *)
LEMMA NewThreadIdles ==
  ASSUME NEW values \in {<<>>, <<"L">>}, NEW u, u = NewThread(values)
  PROVE  /\ u \in ThreadState /\ Idles(u) /\ u.status = "0"
         /\ u.nCcalls = 0 /\ u.baseCcalls = 0
         /\ Len(u.stack) = IF values = <<>> THEN 1 ELSE 2
         /\ values = <<"L">> => u.stack = <<Nil, "L">>
<1> DEFINE frame == [func |-> 1, wanted |-> 0]
<1>1. PICK st, frames : st = <<Nil>> \o values /\ frames = <<frame>>
  OBVIOUS
<1>2. /\ st \in Seq(Value) /\ Len(st) = IF values = <<>> THEN 1 ELSE 2
      /\ values = <<"L">> => st = <<Nil, "L">>
  <2>1. Nil \in Value /\ "L" \in Value
    BY DEF Value
  <2>2. CASE values = <<>>
    <3>1. st = <<Nil>>
      BY <1>1, <2>2
    <3> QED BY <2>1, <2>2, <3>1
  <2>3. CASE values = <<"L">>
    <3>1. st = <<Nil, "L">>
      BY <1>1, <2>1, <2>3, Pair
    <3> QED BY <2>1, <2>3, <3>1
  <2> QED BY <2>2, <2>3
<1>3. frames \in Seq(Frame) /\ Len(frames) = 1 /\ frames[1].func = 1
  <2>1. frame \in Frame /\ frame.func = 1
    BY DEF Frame
  <2> HIDE DEF frame
  <2> QED BY <1>1, <2>1
<1>4. u = [stack |-> st, ci |-> frames, size_ci |-> BASIC_CI_SIZE,
           nCcalls |-> 0, baseCcalls |-> 0, status |-> "0", errfunc |-> 0, open |-> {}]
  BY <1>1 DEF NewThread
<1>5. u \in ThreadState
  BY <1>2, <1>3, <1>4, LimitsAssumption DEF ThreadState
<1>6. /\ u.stack = st /\ u.ci = frames /\ u.status = "0" /\ u.errfunc = 0 /\ u.open = {}
      /\ u.nCcalls = 0 /\ u.baseCcalls = 0
  BY <1>4
<1>7. Idles(u)
  <2>1. Len(u.ci) = 1 /\ u.ci[1].func = 1 /\ u.status = "0"
    BY <1>3, <1>6
  <2>2. Needs(u, 1) = 1
    BY <2>1 DEF Needs
  <2>3. \A k \in 1 .. Len(u.ci) : k = 1
    BY ONLY <2>1
  <2>4. \A k \in 1 .. Len(u.ci) : Needs(u, k) <= Len(u.stack)
    BY <1>2, <1>6, <2>2, <2>3
  <2>5. Captured(u)
    BY <1>6 DEF Captured
  <2>6. \A k, l \in 1 .. Len(u.ci) : k < l => Needs(u, k) < u.ci[l].func
    BY <2>3
  <2> QED BY <1>6, <2>1, <2>4, <2>5, <2>6 DEF Idles
<1> QED BY <1>2, <1>5, <1>6, <1>7

(* The main thread's accounts of an empty C stack.                         *)
LEMMA MainBegins ==
  ASSUME NEW t, Idles(t), t.status = "0", t.nCcalls = 0, t.baseCcalls = 0,
         NEW s \in Seq(Activation), s = <<>>
  PROVE  Accounts(Main, t, s)
<1>1. Len(s) = 0 /\ \A i \in 1 .. Len(s) : FALSE
  OBVIOUS
<1>2. Depth(s, Main, Len(s)) = 1
  BY <1>1, DepthStep
<1>3. Nearest(s, Main, Len(s)) = 0
  <2>1. {j \in 1 .. Len(s) : s[j].th = Main /\ s[j].kind = "pcall"} = {}
    BY <1>1
  <2> QED BY <2>1 DEF Nearest
<1>4. Counted(Main, t, s)
  BY <1>1 DEF Counted
<1>5. Framed(Main, t, s)
  BY <1>1, <1>2 DEF Framed, Idles
<1>6. LaidOut(Main, t, s) /\ Fits(Main, t, s, Len(t.stack)) /\ Captured(t)
  BY <1>1 DEF LaidOut, Fits, Idles
<1>7. Handled(Main, t, s)
  BY <1>1, <1>3 DEF Handled, Idles
<1> QED BY <1>4, <1>5, <1>6, <1>7 DEF Accounts

(* The invariant holds when the program starts.                            *)
LEMMA InitHolds == Init => IInv
<1> SUFFICES ASSUME Init PROVE IInv
  OBVIOUS
<1>1. PICK m : m = Now
  OBVIOUS
<1>2. /\ m.cs = <<>> /\ m.mode = "run" /\ m.thread = thread
      /\ thread = [th \in Threads |-> NewThread(IF th = Main THEN <<>> ELSE <<"L">>)]
      /\ m = [thread |-> thread, cs |-> cs, mode |-> mode] /\ cs = <<>> /\ mode = "run"
  BY <1>1 DEF Init, Now
<1>3. \A values \in {<<>>, <<"L">>} : NewThread(values) \in ThreadState
  BY NewThreadIdles
<1>4. \A th \in Threads : m.thread[th] = NewThread(IF th = Main THEN <<>> ELSE <<"L">>)
  BY <1>2
<1>5. m \in Machine
  <2>1. thread \in [Threads -> ThreadState]
    BY <1>2, <1>3
  <2>2. cs \in Seq(Activation) /\ mode \in Modes
    BY <1>2 DEF Modes
  <2> QED BY <1>2, <2>1, <2>2 DEF Machine
<1>6. m.cs \in Seq(Activation)
  BY <1>5 DEF Machine
<1>7. PICK t : t = m.thread[Main]
  OBVIOUS
<1>8. t = NewThread(<<>>)
  BY <1>4, <1>7 DEF Threads
<1>9. /\ Idles(t) /\ t.status = "0" /\ t.nCcalls = 0 /\ t.baseCcalls = 0 /\ Len(t.stack) = 1
  BY <1>8, NewThreadIdles
<1>10. Accounts(Main, m.thread[Main], m.cs)
  BY <1>2, <1>6, <1>7, <1>9, MainBegins
<1>11. ASSUME NEW co \in Coroutine
       PROVE  /\ Accounts(co, m.thread[co], m.cs) /\ Resting(m.thread[co], "new")
              /\ co \notin ActiveIn(m.cs)
  <2>1. co # Main /\ co \in Threads
    BY MainAssumption DEF Threads
  <2>2. PICK u : u = m.thread[co]
    OBVIOUS
  <2>3. u = NewThread(<<"L">>)
    BY <1>4, <2>1, <2>2
  <2>4. Idles(u) /\ u.status = "0" /\ u.stack = <<Nil, "L">>
    BY <2>3, NewThreadIdles
  <2>5. Absent(co, m.cs) /\ co \notin ActiveIn(m.cs)
    BY <1>2, <2>1 DEF Absent, ActiveIn
  <2>6. Accounts(co, m.thread[co], m.cs)
    BY <1>6, <2>2, <2>4, <2>5, IdleAccounts
  <2> QED BY <2>2, <2>4, <2>5, <2>6 DEF Resting
<1>12. Stacked(m.cs)
  <2>1. \A i \in 1 .. Len(m.cs) : FALSE
    BY <1>2
  <2>2. \A i \in 1 .. Len(m.cs) - 1 : FALSE
    BY <1>2
  <2> QED BY <1>2, <2>1, <2>2 DEF Stacked, Founded, StandsWell, InPieces, Begun
<1>13. Good(m)
  BY <1>5, <1>10, <1>11, <1>12 DEF Good, Threads
<1>14. ModeFits(m)
  BY <1>2, <1>7, <1>9 DEF ModeFits
<1>15. /\ life = [co \in Coroutine |-> "new"] /\ script \in Scripts
  BY DEF Init
<1>16. \A co \in Coroutine : Lives(m, life, co)
  <2> TAKE co \in Coroutine
  <2>1. life[co] = "new"
    BY <1>15
  <2> QED BY <1>11, <2>1 DEF Lives
<1>17. Correct(m, life)
  BY <1>7, <1>9, <1>13, <1>14, <1>15, <1>16 DEF Correct
<1> QED BY <1>1, <1>15, <1>17 DEF IInv

(* It is about the state only.                                             *)
LEMMA StutterKeeps ==
  ASSUME IInv, UNCHANGED vars
  PROVE  IInv'
<1>1. Now' = Now /\ life' = life /\ script' = script
  BY DEF vars, Now
<1> QED BY <1>1 DEF IInv

(* Every action keeps it.                                                  *)
LEMMA NextKeeps ==
  ASSUME IInv, [Next]_vars
  PROVE  IInv'
<1>1. CASE exec_lua
  BY <1>1, ExecKeeps
<1>2. CASE exec_luaReturns
  BY <1>2, ExecReturnsKeeps
<1>3. ASSUME NEW c \in script.calls, Call(c) PROVE IInv'
  BY <1>3, CallKeeps
<1>4. ASSUME NEW c \in script.calls \intersect Simple, MetaCall(c) PROVE IInv'
  <2>1. c \in script.calls
    OBVIOUS
  <2> QED BY <1>4, <2>1, MetaCallKeeps
<1>5. CASE TailCall
  BY <1>5, TailCallKeeps
<1>6. CASE Capture
  BY <1>6, CaptureKeeps
<1>7. CASE Return
  BY <1>7, ReturnKeeps
<1>8. CASE Fail
  BY <1>8, FailKeeps
<1>9. CASE CallReturns
  BY <1>9, CallReturnsKeeps
<1>10. CASE PcallReturns
  BY <1>10, PcallReturnsKeeps
<1>11. CASE HandlerReturns
  BY <1>11, HandlerReturnsKeeps
<1>12. CASE CfunctionReturns
  BY <1>12, CfunctionReturnsKeeps
<1>13. CASE luaB_pcall
  BY <1>13, PcallKeeps
<1>14. CASE luaB_xpcall
  BY <1>14, XpcallKeeps
<1>15. CASE luaB_error
  BY <1>15, ErrorKeeps
<1>16. CASE luaB_yield
  BY <1>16, YieldKeeps
<1>17. ASSUME NEW co \in Coroutine, Resume(co) PROVE IInv'
  BY <1>17, ResumeKeeps
<1>18. CASE ResumeReturns
  BY <1>18, ResumeReturnsKeeps
<1>19. CASE Message
  BY <1>19, MessageKeeps
<1>20. CASE CatchInPcall
  BY <1>20, CatchKeeps
<1>21. CASE CatchInResume
  BY <1>21, CatchInResumeKeeps
<1>22. CASE UNCHANGED vars
  BY <1>22, StutterKeeps
<1> QED BY <1>1, <1>2, <1>3, <1>4, <1>5, <1>6, <1>7, <1>8, <1>9, <1>10, <1>11, <1>12, <1>13,
           <1>14, <1>15, <1>16, <1>17, <1>18, <1>19, <1>20, <1>21, <1>22, Zenon DEF Next

(* The accounts are true whatever the scripts do.                          *)
THEOREM AccountsInvariant == Spec => []IInv
<1>1. IInv /\ [Next]_vars => IInv'
  BY NextKeeps
<1> QED BY InitHolds, <1>1, PTL DEF Spec

-----------------------------------------------------------------------------
(* What the invariant says of one thread.                                  *)
LEMMA AccountsHold ==
  ASSUME IInv, NEW th \in Threads
  PROVE  /\ cs \in Seq(Activation) /\ Stacked(cs) /\ thread[th] \in ThreadState
         /\ Accounts(th, thread[th], cs)
<1>1. PICK m, L : Holds(m, L)
  BY ItHolds
<1>2. Good(m) /\ m.thread = thread /\ m.cs = cs
  BY <1>1 DEF Holds, IInv, Correct
<1> QED BY <1>2 DEF Good, Machine

(* UpvalsInStack is the account Captured.                                  *)
LEMMA CapturedHolds == IInv => UpvalsInStack
<1> SUFFICES ASSUME IInv, NEW th \in Threads, NEW i \in thread[th].open
             PROVE  \E k \in 2 .. Len(thread[th].ci) :
                      /\ thread[th].ci[k].func = i - 1
                      /\ thread[th].stack[i - 1] \in LuaFunctions
  BY DEF UpvalsInStack
<1>1. Captured(thread[th])
  BY AccountsHold DEF Accounts
<1>2. PICK k \in 2 .. Len(thread[th].ci) : thread[th].ci[k].func = i - 1 /\ RunsLua(thread[th], k)
  BY <1>1 DEF Captured
<1> QED BY <1>2 DEF RunsLua

(* HandlerIsNearest is the account Handled, and that handlers are in their *)
(* place.                                                                  *)
LEMMA HandledHolds == IInv => HandlerIsNearest
<1> SUFFICES ASSUME IInv, NEW th \in Threads
             PROVE  LET own == Activations(th, {"pcall"})
                    IN  IF own = {} THEN thread[th].errfunc = 0
                        ELSE /\ thread[th].errfunc = cs[Max(own)].ef
                             /\ thread[th].errfunc # 0 =>
                                  thread[th].stack[thread[th].errfunc] = "H"
  BY DEF HandlerIsNearest
<1>1. /\ cs \in Seq(Activation) /\ Handled(th, thread[th], cs) /\ LaidOut(th, thread[th], cs)
  BY AccountsHold DEF Accounts
<1>2. PICK own : own = Activations(th, {"pcall"})
  OBVIOUS
<1>3. own = {j \in 1 .. Len(cs) : cs[j].th = th /\ cs[j].kind = "pcall"}
  BY <1>1, <1>2 DEF Activations
<1>4. thread[th].errfunc = Nearest(cs, th, Len(cs))
  BY <1>1 DEF Handled
<1>5. thread[th].errfunc = IF own = {} THEN 0 ELSE cs[Max(own)].ef
  BY <1>3, <1>4, Zenon DEF Nearest
<1>6. ASSUME thread[th].errfunc # 0 PROVE thread[th].stack[thread[th].errfunc] = "H"
  <2>1. Len(cs) \in 0 .. Len(cs)
    BY <1>1
  <2>2. PICK j \in 1 .. Len(cs) : /\ cs[j].th = th /\ cs[j].kind = "pcall"
                                  /\ cs[j].ef = Nearest(cs, th, Len(cs))
    BY <1>1, <1>4, <1>6, <2>1, NearestFound
  <2> QED BY <1>1, <1>4, <1>6, <2>2 DEF LaidOut
<1> QED BY <1>2, <1>5, <1>6

(* CallsCounted is the account Counted at a thread's last activation.      *)
LEMMA CountedHolds == IInv => CallsCounted
<1> SUFFICES ASSUME IInv, NEW th \in Active
             PROVE  LET mine == {i \in DOMAIN cs : cs[i].th = th}
                    IN  thread[th].nCcalls = IF mine = {} THEN 0 ELSE CallsIn(cs, Max(mine))
  BY DEF CallsCounted
<1>1. cs \in Seq(Activation)
  BY AccountsHold DEF Threads
<1>2. th \in Threads
  BY <1>1 DEF Active, Threads, Activation
<1>3. Counted(th, thread[th], cs)
  BY <1>2, AccountsHold DEF Accounts
<1>4. PICK mine : mine = {i \in DOMAIN cs : cs[i].th = th}
  OBVIOUS
<1>5. mine \subseteq 1 .. Len(cs) /\ Len(cs) \in Nat /\ DOMAIN cs = 1 .. Len(cs)
  BY <1>1, <1>4
<1>6. CASE mine = {}
  <2>1. th = Main /\ \A i \in 1 .. Len(cs) : cs[i].th # th
    BY <1>4, <1>5, <1>6 DEF Active
  <2>2. thread[th].nCcalls = 0
    BY <1>3, <2>1 DEF Counted
  <2> QED BY <1>4, <1>6, <2>2
<1>7. CASE mine # {}
  <2>1. PICK k : k = Max(mine)
    OBVIOUS
  <2>2. k \in mine /\ \A x \in mine : x <= k
    BY <1>5, <1>7, <2>1, MaxExists
  <2>3. k \in 1 .. Len(cs) /\ cs[k].th = th
    BY <1>4, <1>5, <2>2
  <2>4. \A j \in k + 1 .. Len(cs) : cs[j].th # th
    <3> SUFFICES ASSUME NEW j \in k + 1 .. Len(cs), cs[j].th = th PROVE FALSE
      OBVIOUS
    <3>1. j \in 1 .. Len(cs) /\ k < j
      BY <1>5, <2>3
    <3>2. j \in mine
      BY <1>4, <1>5, <3>1
    <3> QED BY <1>5, <2>2, <2>3, <3>1, <3>2
  <2>5. thread[th].nCcalls = CallsIn(cs, k)
    BY <1>3, <2>3, <2>4 DEF Counted
  <2> QED BY <1>4, <1>7, <2>1, <2>5
<1> QED BY <1>6, <1>7

(* FramesMatch is the account Framed.                                      *)
LEMMA FramedHolds == IInv => FramesMatch
<1> SUFFICES ASSUME IInv PROVE FramesMatch
  OBVIOUS
<1>1. cs \in Seq(Activation) /\ DOMAIN cs = 1 .. Len(cs)
  BY AccountsHold DEF Threads
<1>2. \A th \in Active : th \in Threads
  BY <1>1 DEF Active, Threads, Activation
<1>3. \A th \in Threads : Framed(th, thread[th], cs)
  BY AccountsHold DEF Accounts
<1>4. ASSUME NEW th \in Active, thread[th].status = "0"
      PROVE  /\ Len(thread[th].ci) = Depth(cs, th, Len(cs))
             /\ \A i \in DOMAIN cs : \A k \in Depth(cs, th, i - 1) + 1 .. Depth(cs, th, i) :
                  RunsLua(thread[th], k) <=> cs[i].kind = "execute"
  BY <1>1, <1>2, <1>3, <1>4, Zenon DEF Framed
<1>6. \A th \in Active : thread[th].status # "YIELD" => thread[th].status = "0"
  <2>1. PICK m : m = Now
    OBVIOUS
  <2>2. Correct(m, life) /\ m.cs = cs /\ m.thread = thread
    BY <2>1 DEF IInv, Now
  <2>3. ASSUME NEW th \in Active, thread[th].status # "YIELD" PROVE thread[th].status = "0"
    <3>1. th \in ActiveIn(m.cs)
      BY <1>1, <2>2 DEF Active, ActiveIn
    <3>2. CASE th = Main
      BY <2>2, <3>2 DEF Correct
    <3>3. CASE th \in Coroutine
      <4>1. Lives(m, life, th)
        BY <2>2, <3>3, Zenon DEF Correct
      <4> QED BY <2>2, <2>3, <3>1, <4>1, Zenon DEF Lives
    <3> QED BY <1>2, <3>2, <3>3 DEF Threads
  <2> QED BY <2>3
<1>5. ASSUME NEW co \in Coroutine, thread[co].status = "YIELD"
      PROVE  \A k \in 2 .. Len(thread[co].ci) : RunsLua(thread[co], k) <=> k < Len(thread[co].ci)
  <2>1. co \in Threads
    BY DEF Threads
  <2> QED BY <1>3, <1>5, <2>1, Zenon DEF Framed
<1> QED BY <1>4, <1>5, <1>6, Zenon DEF FramesMatch

(* StatusTruthful follows from how the coroutines live.                    *)
LEMMA StatusHolds == IInv => StatusTruthful
<1> SUFFICES ASSUME IInv, mode = "run", NEW co \in Coroutine
             PROVE  costatus(Running, co) =
                      IF co = Running THEN "running"
                      ELSE IF Activations(co, {"resume"}) # {} THEN "normal"
                      ELSE IF life[co] \in {"over", "refused"} THEN "dead"
                      ELSE "suspended"
  BY Zenon DEF StatusTruthful
<1>1. PICK m, L : Runs(m, L)
  BY RunsHere DEF Gets
<1>2. /\ L = Running /\ m.thread = thread /\ m.cs = cs /\ Correct(m, life) /\ At(m, L)
      /\ m.mode = "run"
  BY <1>1 DEF Runs, Holds, IInv
<1>3. /\ cs \in Seq(Activation) /\ Stacked(cs) /\ thread[co] \in ThreadState
      /\ Accounts(co, thread[co], cs) /\ OnTop(cs, L) /\ co # Main
  <2>1. co \in Threads
    BY DEF Threads
  <2> QED BY <1>2, <2>1, AccountsHold, MainAssumption DEF At
<1>4. IF co \in ActiveIn(cs) THEN life[co] = "begun" /\ thread[co].status = "0"
                             ELSE Resting(thread[co], life[co])
  <2>1. ~ Leaving(m, co)
    BY <1>2 DEF Leaving
  <2> QED BY <1>2, <2>1, LivesOn
<1>5. Activations(co, {"resume"}) # {} <=> co \in ActiveIn(cs)
  <2>1. ASSUME co \in ActiveIn(cs) PROVE Activations(co, {"resume"}) # {}
    <3>1. PICK i \in 1 .. Len(cs) : cs[i].th = co
      BY <1>3, <2>1 DEF ActiveIn
    <3>2. PICK j \in 1 .. i : cs[j].kind = "resume" /\ cs[j].th = co
      BY <1>3, <3>1 DEF Stacked, Begun
    <3>3. j \in DOMAIN cs
      BY <1>3, <3>1
    <3> QED BY <3>2, <3>3 DEF Activations
  <2>2. ASSUME Activations(co, {"resume"}) # {} PROVE co \in ActiveIn(cs)
    BY <1>3, <2>2 DEF ActiveIn, Activations
  <2> QED BY <2>1, <2>2
<1>6. CASE co = Running
  BY <1>6 DEF costatus
<1>7. CASE co # Running /\ co \in ActiveIn(cs)
  <2>1. PICK i \in 1 .. Len(cs) : cs[i].th = co
    BY <1>3, <1>7 DEF ActiveIn
  <2>2. cs # <<>> /\ cs[i].th # cs[Len(cs)].th
    BY <1>2, <1>3, <1>7, <2>1 DEF OnTop
  <2>3. Depth(cs, co, Len(cs)) > 1
    BY <1>3, <2>1, <2>2, UnderResume
  <2>4. Len(thread[co].ci) = Depth(cs, co, Len(cs))
    BY <1>3, <1>4, <1>7 DEF Accounts, Framed
  <2>5. costatus(Running, co) = "normal"
    BY <1>4, <1>7, <2>3, <2>4 DEF costatus
  <2> QED BY <1>5, <1>7, <2>5
<1>8. CASE co # Running /\ co \notin ActiveIn(cs)
  <2>1. Resting(thread[co], life[co])
    BY <1>4, <1>8
  <2>2. Absent(co, cs)
    BY <1>3, <1>8 DEF Absent, ActiveIn
  <2>3. thread[co].status = "0" => Len(thread[co].ci) = 1
    BY <1>3, <2>2, IdleAccounts DEF Idles
  <2>4. CASE life[co] = "new" /\ thread[co].status = "0" /\ thread[co].stack = <<Nil, "L">>
    <3>1. Len(thread[co].stack) = 2
      BY <2>4
    <3>2. thread[co].status = "0" /\ Len(thread[co].stack) # 1
          /\ ~ (Len(thread[co].ci) > 1)
      <4>1. thread[co].status = "0"
        BY <2>4
      <4>2. Len(thread[co].ci) = 1
        BY <2>3, <4>1
      <4>3. \A n : n = 1 => ~ (n > 1)
        OBVIOUS
      <4>4. Len(thread[co].stack) # 1
        BY ONLY <3>1
      <4> QED BY <4>1, <4>2, <4>3, <4>4, Zenon
    <3>3. costatus(Running, co) = "suspended"
      BY <1>8, <2>4, <3>2, Zenon DEF costatus
    <3> QED BY <1>5, <1>8, <2>4, <3>3
  <2>5. CASE life[co] = "begun" /\ thread[co].status = "YIELD"
    BY <1>5, <1>8, <2>5 DEF costatus
  <2>6. CASE /\ life[co] \in {"refused", "over"} /\ thread[co].status = "0"
             /\ Len(thread[co].stack) = 1
    <3>1. ~ (Len(thread[co].ci) > 1)
      <4>1. Len(thread[co].ci) = 1
        BY <2>3, <2>6
      <4>2. \A n : n = 1 => ~ (n > 1)
        OBVIOUS
      <4> QED BY <4>1, <4>2, Zenon
    <3>2. costatus(Running, co) = "dead"
      BY <1>8, <2>6, <3>1, Zenon DEF costatus
    <3> QED BY <1>5, <1>8, <2>6, <3>2
  <2>7. CASE life[co] = "over" /\ thread[co].status \in Errors
    <3>1. costatus(Running, co) = "dead"
      BY <1>8, <2>7 DEF costatus, Errors
    <3> QED BY <1>5, <1>8, <2>7, <3>1
  <2> QED BY <2>1, <2>4, <2>5, <2>6, <2>7 DEF Resting
<1> QED BY <1>6, <1>7, <1>8

(* An open upvalue is always the register of a function that has not       *)
(* returned, whichever way functions are left: by OP_RETURN, OP_TAILCALL,  *)
(* an error luaD_pcall catches, a yield, or the death of a coroutine.      *)
THEOREM UpvalsStayInStack == Spec => []UpvalsInStack
BY AccountsInvariant, CapturedHolds, PTL

(* L->errfunc is always the handler of the nearest protected call of its   *)
(* own thread, and that handler is still in its slot, so that              *)
(* luaG_errormsg never calls what is not one; luaD_pcall restores it       *)
(* however the call ends.                                                  *)
THEOREM NearestHandlerInvariant == Spec => []HandlerIsNearest
BY AccountsInvariant, HandledHolds, PTL

(* L->nCcalls always counts the luaD_calls and lua_resumes there are on    *)
(* the C stack, and L->ci has exactly the frames they run, through errors, *)
(* yields and resumes: the C stack limit and the refusal to yield across a *)
(* C call rest on it.                                                      *)
THEOREM CStackIsAccounted == Spec => []CStackAccounted
<1>1. IInv => CStackAccounted
  BY CountedHolds, FramedHolds DEF CStackAccounted
<1> QED BY <1>1, AccountsInvariant, PTL

(* coroutine.status (auxstatus in lbaselib.c), worked out from another     *)
(* thread's fields, always tells what has happened to that coroutine.      *)
THEOREM StatusIsTruthful == Spec => []StatusTruthful
BY AccountsInvariant, StatusHolds, PTL
=============================================================================
