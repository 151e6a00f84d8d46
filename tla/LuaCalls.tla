------------------------------ MODULE LuaCalls ------------------------------
(***************************************************************************)
(* Calls, errors and coroutines of the Lua library (ldo.c, with the call   *)
(* instructions of lvm.c, luaG_errormsg of ldebug.c and the functions of   *)
(* lbaselib.c that need them).  The program runs scripts with lua_pcall;   *)
(* they call Lua and C functions, which call back, fail, are caught, and   *)
(* resume each other.  A step is what one activation on the C stack does   *)
(* until it calls, returns, raises or jumps.                               *)
(***************************************************************************)
EXTENDS Integers, Sequences, SequencesExt

CONSTANTS
  Main,           \* the thread lua_open makes
  Coroutine,      \* the coroutines: each has been created, none resumed
  Nil,
  BASIC_CI_SIZE,
  MAXCALLS,       \* LUAI_MAXCALLS
  MAXCCALLS,      \* LUAI_MAXCCALLS
  CErrorRoom,     \* LUAI_MAXCCALLS >> 3
  Scripts         \* bound: what a script calls, and the upvalues open at a time

VARIABLES
  thread,  \* the lua_State of each thread
  cs,      \* the C stack: the activations that matter, the last one on top
  mode,    \* "run"; "return": the activation above has returned; "raise":
           \*   luaG_errormsg is next; or an error code: luaD_throw is
  life,    \* history: "new", "refused", "begun", "over" for each coroutine
  script   \* the script that runs: chosen once

vars == <<thread, cs, mode, life, script>>

Threads == {Main} \union Coroutine
Errors == {"ERRRUN", "ERRMEM", "ERRERR"}
LUA_MULTRET == -1
LuaFunctions == {"L", "H"}   \* "H": one used as the handler of xpcall

(* What scripts may call: a function and its arguments, each in one slot.  *)
Simple == {<<"L">>, <<"yield">>, <<"error">>, <<"pcall">>}
Callees == Simple
             \union {<<"xpcall", "L", "H">>}
             \union {<<"pcall">> \o c : c \in Simple}
             \union {<<f, co>> : f \in {"resume", "wrap"}, co \in Coroutine}

ASSUME MainAssumption == Main \notin Coroutine
ASSUME LimitsAssumption ==
  BASIC_CI_SIZE \in Nat /\ MAXCALLS \in Nat /\ MAXCCALLS \in Nat /\ CErrorRoom \in Nat
ASSUME ScriptsAssumption ==
  \A s \in Scripts : s.calls \subseteq Callees /\ s.captures \in 0 .. 1

(* A thread as preinit_state and stack_init leave it, with `values' pushed *)
NewThread(values) ==
  [stack |-> <<Nil>> \o values,
   ci |-> <<[func |-> 1, wanted |-> 0]>>, size_ci |-> BASIC_CI_SIZE,
   nCcalls |-> 0, baseCcalls |-> 0, status |-> "0", errfunc |-> 0,
   open |-> {}]       \* the slots with an open upvalue

Top == Last(cs)
Running == IF cs = <<>> THEN Main ELSE Top.th
T == thread[Running]
Func(t) == Last(t.ci).func
-----------------------------------------------------------------------------
(* Operators on a machine: [thread, cs, mode].                             *)
Now == [thread |-> thread, cs |-> cs, mode |-> mode]
Become(m) == thread' = m.thread /\ cs' = m.cs /\ mode' = m.mode

Doing(m, what) == [m EXCEPT !.mode = what]
Push(m, th, values) == [m EXCEPT !.thread[th].stack = @ \o values]
Cut(m, th, top) == [m EXCEPT !.thread[th].stack = SubSeq(@, 1, top)]
Activate(m, a) == [m EXCEPT !.cs = Append(@, a)]
Leave(m) == [m EXCEPT !.cs = Front(@)]

Execute(th, n) == [kind |-> "execute", th |-> th, n |-> n]
Cfunction(th, name) == [kind |-> "cfun", th |-> th, name |-> name]

(* The value on top of the stack is an error message.                      *)
Raise(m, th) == Doing(Push(m, th, <<"v">>), "raise")

(* An activation has returned to the one below it.                         *)
Resumed(m) ==
  Doing(m, IF m.cs # <<>> /\ Last(m.cs).kind = "execute" THEN "run" ELSE "return")

(* A coroutine that is left: lua_resume sets its counters before they are  *)
(* read again.  One that has failed keeps its frames, its stack (the       *)
(* message is moved away) and its open upvalues until it is collected.     *)
Suspend(m, co) == [m EXCEPT !.thread[co].nCcalls = 0, !.thread[co].baseCcalls = 0]
Kill(m, co, errcode) == [Suspend(m, co) EXCEPT !.thread[co].status = errcode]

luaF_close(m, th, level) ==
  [m EXCEPT !.thread[th].open = {i \in @ : i < level}]

growCI(m, th) ==
  LET size == m.thread[th].size_ci
      grown == [m EXCEPT !.thread[th].size_ci = 2 * @]
  IN  IF size > MAXCALLS THEN Doing(m, "ERRERR")
      ELSE IF 2 * size > MAXCALLS THEN Raise(grown, th)
      ELSE grown

inc_ci(m, th) ==
  IF Len(m.thread[th].ci) = m.thread[th].size_ci THEN growCI(m, th) ELSE m

(* luaD_precall: a Lua function gets a frame with one register and the     *)
(* mode is "lua"; a C function gets its frame and starts.                  *)
luaD_precall(m, th, func, wanted) ==
  LET f       == m.thread[th].stack[func]
      grown   == inc_ci(Doing(m, "run"), th)
      entered == [grown EXCEPT !.thread[th].ci =
                                 Append(@, [func |-> func, wanted |-> wanted])]
  IN  IF grown.mode # "run" THEN grown
      ELSE IF f \in LuaFunctions
           THEN Doing(Push(Cut(entered, th, func), th, <<Nil>>), "lua")
      ELSE Activate(entered, Cfunction(th, f))

(* luaD_poscall: the results take the place of the function.               *)
luaD_poscall(m, th, results) ==
  LET frame == Last(m.thread[th].ci)
      moved == IF frame.wanted = LUA_MULTRET THEN results
               ELSE SubSeq(results, 1, Min({Len(results), frame.wanted}))
  IN  Push(Cut([m EXCEPT !.thread[th].ci = Front(@)], th, frame.func - 1), th, moved)

(* luaD_call up to the function's own steps.                               *)
luaD_call(m, th, func, wanted) ==
  LET counted == [Activate(m, [kind |-> "call", th |-> th])
                    EXCEPT !.thread[th].nCcalls = @ + 1]
      n       == counted.thread[th].nCcalls
      called  == luaD_precall(counted, th, func, wanted)
  IN  IF n = MAXCCALLS THEN Raise(counted, th)
      ELSE IF n >= MAXCCALLS + CErrorRoom THEN Doing(counted, "ERRERR")
      ELSE IF called.mode = "lua" THEN Doing(Activate(called, Execute(th, 1)), "run")
      ELSE called

(* luaD_pcall up to the call; ef is the handler's slot, or 0.              *)
luaD_pcall(m, th, func, ef) ==
  LET t == m.thread[th]
      saved == [kind |-> "pcall", th |-> th, old_top |-> func, old_ci |-> Len(t.ci),
                oldnCcalls |-> t.nCcalls, old_errfunc |-> t.errfunc, ef |-> ef]
  IN  luaD_call([Activate(m, saved) EXCEPT !.thread[th].errfunc = ef], th, func, LUA_MULTRET)
-----------------------------------------------------------------------------
(* Instructions of the Lua function that runs.                             *)
Interprets == mode = "run" /\ cs # <<>> /\ Top.kind = "execute"

OneMore(m) == IF m.mode # "lua" THEN m
              ELSE Doing([m EXCEPT !.cs[Len(m.cs)].n = @ + 1], "run")

(* OP_CALL, as a statement: no result is wanted.                           *)
Call(callee) ==
  /\ Interprets
  /\ Become(OneMore(luaD_precall(Push(Now, Running, callee), Running,
                                 Len(T.stack) + 1, 0)))
  /\ UNCHANGED <<life, script>>

(* OP_TAILCALL of a Lua function: its frame takes the place of the caller's*)
ReplaceFrame(m) ==
  IF m.mode # "lua" THEN m
  ELSE LET closed == luaF_close(m, Running, Func(T) + 1)
           below  == [closed EXCEPT !.thread[Running].ci = Front(@)]
       IN  Doing(Push(Cut(below, Running, Func(T) - 1), Running, <<"L", Nil>>), "run")

TailCall ==
  /\ Interprets
  /\ Become(ReplaceFrame(luaD_precall(Push(Now, Running, <<"L">>), Running,
                                      Len(T.stack) + 1, LUA_MULTRET)))
  /\ UNCHANGED <<life, script>>

(* A metamethod, or the function of a generic for: called through C.       *)
MetaCall(callee) ==
  /\ Interprets
  /\ Become(luaD_call(Push(Now, Running, callee), Running, Len(T.stack) + 1, 1))
  /\ UNCHANGED <<life, script>>

(* OP_CLOSURE captures the function's local variable.                      *)
Capture ==
  /\ Interprets
  /\ Cardinality(UNION {{th} \X thread[th].open : th \in Threads}) < script.captures
  /\ Func(T) + 1 \notin T.open
  /\ thread' = [thread EXCEPT ![Running].open = @ \union {Func(T) + 1}]
  /\ UNCHANGED <<cs, mode, life, script>>

(* OP_RETURN, with one result.                                             *)
Return ==
  LET closed   == luaF_close(Now, Running, Func(T) + 1)
      returned == luaD_poscall(closed, Running, <<"v">>)
  IN  /\ Interprets
      /\ Become(IF Top.n = 1 THEN Doing(Leave(returned), "return")
                ELSE [returned EXCEPT !.cs[Len(cs)].n = @ - 1])
      /\ UNCHANGED <<life, script>>

(* luaG_runerror in an instruction; luaM_realloc_ without memory.          *)
Fail ==
  /\ Interprets
  /\ Become(Raise(Now, Running)) \/ Become(Doing(Now, "ERRMEM"))
  /\ UNCHANGED <<life, script>>
-----------------------------------------------------------------------------
(* The activations that get a return.                                      *)
Gets(kind) == mode = "return" /\ cs # <<>> /\ Top.kind = kind

(* The end of luaD_call.  A metamethod's result is taken off the stack.    *)
CallReturns ==
  LET returned == Resumed(Leave([Now EXCEPT !.thread[Running].nCcalls = @ - 1]))
  IN  /\ Gets("call")
      /\ Become(IF returned.mode = "run" THEN Cut(returned, Running, Func(T) + 1)
                                         ELSE returned)
      /\ UNCHANGED <<life, script>>

(* The end of luaD_pcall after no error.                                   *)
PcallReturns ==
  /\ Gets("pcall")
  /\ Become(Leave([Now EXCEPT !.thread[Running].errfunc = Top.old_errfunc]))
  /\ UNCHANGED <<life, script>>

(* luaG_errormsg throws when the handler has returned.                     *)
HandlerReturns ==
  /\ Gets("errormsg")
  /\ Become(Doing(Leave(Now), "ERRRUN"))
  /\ UNCHANGED <<life, script>>

(* The C function that runs returns n results to luaD_precall.             *)
Finish(m) == Resumed(luaD_poscall(Leave(m), Running, <<"v">>))

CfunctionReturns ==
  /\ Gets("cfun")
  /\ Become(Finish(Now))
  /\ UNCHANGED <<life, script>>
-----------------------------------------------------------------------------
(* What a C function does first.  Its arguments start at Func(T) + 1.      *)
Starts(name) == mode = "run" /\ cs # <<>> /\ Top.kind = "cfun" /\ Top.name = name

(* luaL_checkany: pcall needs a function.                                  *)
luaB_pcall ==
  /\ Starts("pcall")
  /\ Become(IF Len(T.stack) = Func(T) THEN Raise(Now, Running)
            ELSE luaD_pcall(Now, Running, Func(T) + 1, 0))
  /\ UNCHANGED <<life, script>>

(* The handler is put under the function it guards.                        *)
luaB_xpcall ==
  LET swapped == Push(Cut(Now, Running, Func(T)), Running, <<"H", "L">>)
  IN  /\ Starts("xpcall")
      /\ Become(luaD_pcall(swapped, Running, Func(T) + 2, Func(T) + 1))
      /\ UNCHANGED <<life, script>>

luaB_error ==
  /\ Starts("error")
  /\ Become(Raise(Now, Running))
  /\ UNCHANGED <<life, script>>

CanYield(t) == t.nCcalls <= t.baseCcalls
(* coroutine.yield: no frame is popped, the C functions return down to     *)
(* lua_resume.                                                             *)
luaB_yield ==
  LET yielded == Leave([Now EXCEPT !.thread[Running].status = "YIELD"])
      left    == IF Last(yielded.cs).kind = "execute" THEN Leave(yielded) ELSE yielded
  IN  /\ Starts("yield")
      /\ Become(IF CanYield(T) THEN Doing(left, "return") ELSE Raise(Now, Running))
      /\ UNCHANGED <<life, script>>
-----------------------------------------------------------------------------
(* Coroutines.                                                             *)
costatusByStatus(L, co) ==
  IF L = co THEN "running"
  ELSE IF thread[co].status \in {"0", "YIELD"} THEN "suspended"
  ELSE "dead"

costatus(L, co) ==
  IF L = co THEN "running"
  ELSE IF thread[co].status = "YIELD" THEN "suspended"
  ELSE IF thread[co].status # "0" THEN "dead"
  ELSE IF Len(thread[co].ci) > 1 THEN "normal"
  ELSE IF Len(thread[co].stack) = 1 THEN "dead"
  ELSE "suspended"

(* auxresume has a message instead of results: coroutine.resume returns    *)
(* it, the function made by coroutine.wrap raises it.                      *)
ResumeFails(m, L, name) ==
  IF name = "wrap" THEN Raise(m, L) ELSE Resumed(luaD_poscall(Leave(m), L, <<"v">>))

EnterOnce(m, co) ==
  LET t       == m.thread[co]
      started == luaD_precall(m, co, Len(t.stack), LUA_MULTRET)
      goes    == luaD_poscall([m EXCEPT !.thread[co].status = "0"], co, <<"v">>)
  IN  IF t.status = "0"
      THEN IF started.mode # "lua" THEN started
           ELSE Doing(Activate(started, Execute(co, 1)), "run")
      ELSE Activate(goes, Execute(co, 1))

(* resume: a Lua function starts, or the call of yield is completed.       *)
Enter(m, co) ==
  LET t       == m.thread[co]
      started == luaD_precall(m, co, Len(t.stack), LUA_MULTRET)
      goes    == luaD_poscall([m EXCEPT !.thread[co].status = "0"], co, <<"v">>)
  IN  IF t.status = "0"
      THEN IF started.mode # "lua" THEN started
           ELSE Doing(Activate(started, Execute(co, 1)), "run")
      ELSE Activate(goes, Execute(co, Len(t.ci) - 2))

Resume(co) ==
  LET L       == Running
      levels  == [Now EXCEPT !.thread[co].nCcalls = T.nCcalls]
      dropped == Cut(Now, co, Func(thread[co]))
      counted == [levels EXCEPT !.thread[co].nCcalls = @ + 1,
                                !.thread[co].baseCcalls = T.nCcalls + 1]
  IN  /\ Starts("resume") \/ Starts("wrap")
      /\ T.stack[Func(T) + 1] = co
      /\ UNCHANGED script
      /\ \/ /\ costatus(L, co) # "suspended"
            /\ Become(ResumeFails(Now, L, Top.name))
            /\ UNCHANGED life
         \/ /\ costatus(L, co) = "suspended" /\ T.nCcalls >= MAXCCALLS
            /\ Become(ResumeFails(dropped, L, Top.name))
            /\ life' = [life EXCEPT ![co] = IF @ = "new" THEN "refused" ELSE @]
         \/ /\ costatus(L, co) = "suspended" /\ T.nCcalls < MAXCCALLS
            /\ Become(Enter(Activate(counted, [kind |-> "resume", th |-> co]), co))
            /\ life' = [life EXCEPT ![co] = "begun"]

(* lua_resume after a yield or the end of the coroutine's function: what   *)
(* is above the base of the coroutine is moved to the one that resumed it. *)
ResumeReturns ==
  LET co    == Running
      moved == Cut(Leave(Suspend(Now, co)), co, Func(T))
      L     == Last(moved.cs).th
  IN  /\ Gets("resume")
      /\ Become(Resumed(luaD_poscall(Leave(moved), L, <<"v">>)))
      /\ life' = IF T.status = "YIELD" THEN life ELSE [life EXCEPT ![co] = "over"]
      /\ UNCHANGED script
-----------------------------------------------------------------------------
(* Errors.                                                                 *)
(* luaG_errormsg: the handler gets the message, if there is one.           *)
Message ==
  LET under == Push(Cut(Now, Running, Len(T.stack) - 1), Running,
                    <<T.stack[T.errfunc], "v">>)
  IN  /\ mode = "raise"
      /\ Become(IF T.errfunc = 0 THEN Doing(Now, "ERRRUN")
                ELSE luaD_call(Activate(under, [kind |-> "errormsg", th |-> Running]),
                               Running, Len(T.stack), 1))
      /\ UNCHANGED <<life, script>>

restore_stack_limit(t) ==
  IF t.size_ci > MAXCALLS /\ Len(t.ci) < MAXCALLS
  THEN [t EXCEPT !.size_ci = MAXCALLS] ELSE t

RestoredOpen(t, a) ==
  restore_stack_limit(
    [t EXCEPT !.stack = SubSeq(@, 1, a.old_top - 1) \o <<"v">>,
              !.nCcalls = a.oldnCcalls,
              !.ci = SubSeq(@, 1, a.old_ci),
              !.errfunc = a.old_errfunc])

RestoredNotHandler(t, a) ==
  restore_stack_limit(
    [t EXCEPT !.open = {i \in @ : i < a.old_top},
              !.stack = SubSeq(@, 1, a.old_top - 1) \o <<"v">>,
              !.nCcalls = a.oldnCcalls,
              !.ci = SubSeq(@, 1, a.old_ci)])

(* What luaD_pcall puts back after an error.                               *)
Restored(t, a) ==
  restore_stack_limit(
    [t EXCEPT !.open = {i \in @ : i < a.old_top},
              !.stack = SubSeq(@, 1, a.old_top - 1) \o <<"v">>,
              !.nCcalls = a.oldnCcalls,
              !.ci = SubSeq(@, 1, a.old_ci),
              !.errfunc = a.old_errfunc])

Catchers == {i \in DOMAIN cs : cs[i].kind \in {"pcall", "resume"}}

(* luaD_throw: down to the nearest luaD_rawrunprotected.                   *)
Caught == cs[Max(Catchers)]
Below == [Now EXCEPT !.cs = SubSeq(@, 1, Max(Catchers) - 1)]

CatchInPcall ==
  /\ mode \in Errors
  /\ Caught.kind = "pcall"
  /\ Become(Doing([Below EXCEPT !.thread[Caught.th] = Restored(@, Caught)], "return"))
  /\ UNCHANGED <<life, script>>

CatchInResume ==
  LET co   == Caught.th
      L    == Last(Below.cs).th
  IN  /\ mode \in Errors
      /\ Caught.kind = "resume"
      /\ Become(ResumeFails(Kill(Below, co, mode), L, Last(Below.cs).name))
      /\ life' = [life EXCEPT ![co] = "over"]
      /\ UNCHANGED script
-----------------------------------------------------------------------------
(* exec_lua: lua_pcall of a chunk, whose results or message the screen     *)
(* takes.                                                                  *)
exec_lua ==
  /\ cs = <<>> /\ mode = "run"
  /\ Become(luaD_pcall(Push(Now, Main, <<"L">>), Main, 2, 0))
  /\ UNCHANGED <<life, script>>

exec_luaReturns ==
  /\ cs = <<>> /\ mode = "return"
  /\ Become(Doing(Cut(Now, Main, 1), "run"))
  /\ UNCHANGED <<life, script>>

Init ==
  /\ thread = [th \in Threads |-> NewThread(IF th = Main THEN <<>> ELSE <<"L">>)]
  /\ cs = <<>>
  /\ mode = "run"
  /\ life = [co \in Coroutine |-> "new"]
  /\ script \in Scripts

Next ==
  \/ exec_lua \/ exec_luaReturns
  \/ \E c \in script.calls : Call(c)
  \/ \E c \in script.calls \intersect Simple : MetaCall(c)
  \/ TailCall \/ Capture \/ Return \/ Fail
  \/ CallReturns \/ PcallReturns \/ HandlerReturns \/ CfunctionReturns
  \/ luaB_pcall \/ luaB_xpcall \/ luaB_error \/ luaB_yield
  \/ \E co \in Coroutine : Resume(co)
  \/ ResumeReturns
  \/ Message \/ CatchInPcall \/ CatchInResume

Spec == Init /\ [][Next]_vars
-----------------------------------------------------------------------------
(* The activations of a thread; how many of the first i count as C calls;  *)
(* how many frames the thread has for those among the first i.             *)
Activations(th, kinds) == {i \in DOMAIN cs : cs[i].th = th /\ cs[i].kind \in kinds}
Active == {Main} \union {cs[i].th : i \in DOMAIN cs}

CallsIn(stack, i) == Cardinality({j \in 1 .. i : stack[j].kind \in {"call", "resume"}})

FramesOf(a) ==
  IF a.kind = "execute" THEN 1 .. a.n ELSE IF a.kind = "cfun" THEN {1} ELSE {}

Depth(stack, th, i) ==
  1 + Cardinality(UNION {{j} \X FramesOf(stack[j]) : j \in {j \in 1 .. i : stack[j].th = th}})

(* nCcalls, by which runaway recursion is stopped and yields are allowed,  *)
(* is in every active thread the number of nested luaD_call and lua_resume *)
(* there are on the C stack, through all the threads below it - also while *)
(* an error is on its way and after it has been caught.                    *)
CallsCounted ==
  \A th \in Active :
    LET mine == {i \in DOMAIN cs : cs[i].th = th}
    IN  thread[th].nCcalls = IF mine = {} THEN 0 ELSE CallsIn(cs, Max(mine))

(* The frames of a thread are exactly those its activations on the C stack *)
(* are running: `nexeccalls' Lua functions for each luaV_execute, one C    *)
(* function for each that was called, in that order.  A coroutine that has *)
(* yielded has nothing on the C stack, only frames of Lua functions and    *)
(* that of yield: nothing C is lost.                                       *)
RunsLua(t, k) == t.stack[t.ci[k].func] \in LuaFunctions

FramesMatch ==
  /\ \A th \in Active : thread[th].status # "YIELD" =>
       /\ Len(thread[th].ci) = Depth(cs, th, Len(cs))
       /\ \A i \in DOMAIN cs : \A k \in Depth(cs, th, i - 1) + 1 .. Depth(cs, th, i) :
            RunsLua(thread[th], k) <=> cs[i].kind = "execute"
  /\ \A co \in Coroutine : thread[co].status = "YIELD" =>
       \A k \in 2 .. Len(thread[co].ci) :
         RunsLua(thread[co], k) <=> k < Len(thread[co].ci)

(* The two accounts a thread keeps of the C stack are true of it.          *)
CStackAccounted == CallsCounted /\ FramesMatch

(* An open upvalue is the local variable of a function that has not        *)
(* returned: whatever way a function is left, its upvalues are closed      *)
(* before its slots are used again.  Those of a failed coroutine stay open *)
(* with its frames (ldo.c:428).                                            *)
UpvalsInStack ==
  \A th \in Threads : \A i \in thread[th].open :
    \E k \in 2 .. Len(thread[th].ci) :
      /\ thread[th].ci[k].func = i - 1
      /\ thread[th].stack[i - 1] \in LuaFunctions

(* An error is handled by the handler of the nearest protected call of its *)
(* own thread: errfunc is never one that has been left, never one of       *)
(* another thread, and is a function still in its place.                   *)
HandlerIsNearest ==
  \A th \in Threads :
    LET own == Activations(th, {"pcall"})
    IN  IF own = {} THEN thread[th].errfunc = 0
        ELSE /\ thread[th].errfunc = cs[Max(own)].ef
             /\ thread[th].errfunc # 0 => thread[th].stack[thread[th].errfunc] = "H"

(* coroutine.status, computed from the fields of the other thread, tells   *)
(* what has happened to it: which are on the way to the running one, which *)
(* have ended, which can be resumed.  (A coroutine whose very first resume *)
(* was refused for lack of C stack has lost its function and is dead.)     *)
StatusTruthful ==
  mode = "run" => \A co \in Coroutine :
    costatus(Running, co) =
      IF co = Running THEN "running"
      ELSE IF Activations(co, {"resume"}) # {} THEN "normal"
      ELSE IF life[co] \in {"over", "refused"} THEN "dead"
      ELSE "suspended"
=============================================================================
