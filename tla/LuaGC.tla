-------------------------------- MODULE LuaGC --------------------------------
(***************************************************************************)
(* The collector of the Lua library (lgc.c), with the upvalues of lfunc.c, *)
(* the string table of lstring.c and the closing of a state in lstate.c.   *)
(* Scripts - a main thread and a coroutine - run between its steps: they   *)
(* make objects and move references about, and only the barriers tell the  *)
(* collector.  Finalizers run between the steps too, and may bring their   *)
(* userdata back to life.                                                  *)
(***************************************************************************)
EXTENDS Naturals, Sequences, FiniteSets, SequencesExt

CONSTANTS
  Object,   \* addresses an object may have
  Main,     \* the main thread
  Globals,  \* the table of globals, which is a root
  Mixes,    \* what may be allocated at each address
  Nil,
  Number,   \* a value that is not collectable
  Level     \* the levels of a stack

Tables == {"table", "weakkeys", "weakvalues"}
Kinds == Tables \union {"string", "udata", "upval", "closure", "thread", "none"}

ASSUME ObjectAssumption ==
  /\ IsFiniteSet(Object)
  /\ {Main, Globals} \subseteq Object
  /\ Nil \notin Object /\ Number \notin Object /\ Nil # Number
ASSUME MixesAssumption ==
  \A mix \in Mixes : /\ mix \in [Object -> Kinds]
                     /\ mix[Main] = "thread" /\ mix[Globals] = "table"
ASSUME LevelAssumption == IsFiniteSet(Level) /\ Level = 1 .. Cardinality(Level) /\ 1 \in Level

VARIABLES
  kind,     \* what is allocated at each address: chosen once
  exists,   \* the addresses of the objects there are
  node,     \* the one entry of each table
  env,      \* the environment of each userdata
  upval,    \* the upvalue of each closure
  place,    \* where each upvalue has its value: a level of a stack, or itself
  value,    \* the value of a closed upvalue
  stack,    \* the stack of each thread
  running,  \* the thread that runs
  gc,       \* the collector: see GCInit
  called    \* history: the userdata whose finalizer has run, and those that
            \*   were made too late to be finalized

heap == <<node, env, upval, place, value, stack>>
vars == <<kind, exists, heap, running, gc, called>>

Of(k) == {o \in exists : kind[o] = k}
TableObjects == {o \in exists : kind[o] \in Tables}

EmptyNode == [key |-> Nil, val |-> Nil]
NoStack == [i \in Level |-> Nil]
Closed == [thread |-> Nil, level |-> 0]
At(th, i) == [thread |-> th, level |-> i]
IsOpen(uv) == place[uv] # Closed

(* The value of an upvalue, uv->v.                                         *)
Contents(uv) == IF IsOpen(uv) THEN stack[place[uv].thread][place[uv].level]
                              ELSE value[uv]

GCInit ==
  [state     |-> "pause",   \* gcstate
   full      |-> FALSE,     \* luaC_fullgc goes on
   closing   |-> FALSE,     \* lua_close has begun
   mark      |-> [o \in Object |-> "white"],
   gray      |-> {}, grayagain |-> {}, weak |-> {},   \* lists, in any order
   strings   |-> {},        \* what is left to sweep of the string table
   unswept   |-> {},        \* and of rootgc
   finalized |-> {},        \* userdata with the FINALIZEDBIT
   tmudata   |-> <<>>]
-----------------------------------------------------------------------------
(* Colours: the current white, the other one - of what the sweep is to     *)
(* free -, gray and black.                                                 *)
iswhite(g, o) == g.mark[o] \in {"white", "dead"}
isblack(g, o) == g.mark[o] = "black"
isdead(g, o) == g.mark[o] = "dead"
valiswhite(g, v) == v \in Object /\ iswhite(g, v)

Paint(g, o, colour) == [g EXCEPT !.mark[o] = colour]
makewhite(g, o) == Paint(g, o, "white")

(* What a set of objects leads to by references: the least set they are in *)
(* that is closed under them.                                              *)
Reached(from, refs) ==
  {o \in Object : \A set \in SUBSET Object :
                    from \subseteq set /\ (\A p \in set : refs[p] \subseteq set) => o \in set}

(* What marking or traversing an object marks in its turn.                 *)
Strong(o) ==
  Object \intersect
    CASE kind[o] = "table"      -> {node[o].key, node[o].val}
      [] kind[o] = "weakkeys"   -> {node[o].val}
      [] kind[o] = "weakvalues" -> {node[o].key}
      [] kind[o] = "closure"    -> {upval[o], Globals}
      [] kind[o] = "upval"      -> {Contents(o)}
      [] kind[o] = "udata"      -> {env[o]}
      [] kind[o] = "thread"     -> Range(stack[o])
      [] OTHER                  -> {}

(* The gray list has the objects that are traversed later on.  Strings are *)
(* in no list; what userdata and upvalues refer to is marked with them.    *)
Listed(o) == kind[o] \in Tables \union {"closure", "thread"}
PassesOn(o) == IF kind[o] \in {"udata", "upval"} THEN Strong(o) ELSE {}

(* The colour of an object that has been marked and, if that is to be,     *)
(* traversed: weak tables, threads and open upvalues are never black.      *)
Finished(o) ==
  IF kind[o] \in {"table", "closure", "udata"} \/ (kind[o] = "upval" /\ ~ IsOpen(o))
  THEN "black" ELSE "gray"

(* markvalue, markobject: reallymarkobject of the white ones of a set.     *)
Newly(g, values) ==
  {o \in Reached(values \intersect Object,
                 [o \in Object |-> IF iswhite(g, o) THEN PassesOn(o) ELSE {}]) : iswhite(g, o)}

markvalues(g, values) ==
  LET new == Newly(g, values)
  IN  [g EXCEPT !.mark = [o \in Object |-> IF o \notin new THEN g.mark[o]
                                            ELSE IF Listed(o) THEN "gray" ELSE Finished(o)],
                !.gray = @ \union {o \in new : Listed(o)}]

(* An object has been traversed: a weak table goes to the list of those to *)
(* be cleared, a thread to those traversed again.                          *)
Traversed(g, set) ==
  [g EXCEPT !.mark = [o \in Object |-> IF o \in set THEN Finished(o) ELSE g.mark[o]],
            !.gray = @ \ set,
            !.grayagain = @ \union {o \in set : kind[o] = "thread"},
            !.weak = @ \union {o \in set : kind[o] \in {"weakkeys", "weakvalues"}}]

propagatemark(g, o) == markvalues(Traversed(g, {o}), Strong(o))

(* All gray objects are traversed, and all that are found.                 *)
propagateall(g) ==
  LET pending(o) == o \in g.gray \/ iswhite(g, o)
      found == Reached(g.gray, [o \in Object |-> IF pending(o) THEN Strong(o) ELSE {}])
  IN  Traversed(g, {o \in found : pending(o)})
-----------------------------------------------------------------------------
luaC_barrierSkipped(g, o, v) ==
  IF valiswhite(g, v) /\ isblack(g, o) /\ g.state # "propagate" THEN makewhite(g, o) ELSE g

(* Barriers: the field of o, or the entry of the table t, now holds v.     *)
luaC_barrier(g, o, v) ==
  IF ~ (valiswhite(g, v) /\ isblack(g, o)) THEN g
  ELSE IF g.state = "propagate" THEN markvalues(g, {v}) ELSE makewhite(g, o)

luaC_barriert(g, t, v) ==
  IF valiswhite(g, v) /\ isblack(g, t)
  THEN [Paint(g, t, "gray") EXCEPT !.grayagain = @ \union {t}]
  ELSE g

ResurrectNot(g, o) == g

(* luaF_findupval and luaS_newlstr find an object the sweep has yet to     *)
(* reach.                                                                  *)
Resurrect(g, o) == IF isdead(g, o) THEN makewhite(g, o) ELSE g

(* luaF_close of the levels of th from level on: the dead upvalues are     *)
(* freed, the others take their values along (luaC_linkupval).             *)
OpenFrom(th, level) ==
  {uv \in Of("upval") : place[uv].thread = th /\ place[uv].level >= level}

(* Those that are gray take part in the marking, or are swept.             *)
luaC_linkupvals(g, uvs) ==
  LET gray == {uv \in uvs : g.mark[uv] = "gray"}
      painted(colour) ==
        [g EXCEPT !.mark = [o \in Object |-> IF o \in gray THEN colour ELSE g.mark[o]]]
  IN  IF g.state = "propagate" THEN markvalues(painted("black"), {Contents(uv) : uv \in gray})
                               ELSE painted("white")

DeadFrom(th, level) == {uv \in OpenFrom(th, level) : isdead(gc, uv)}

(* Objects are freed, upvalues closed.  Nothing is left at the addresses.  *)
Keep(field, gone, blank) == [o \in Object |-> IF o \in gone THEN blank ELSE field[o]]

Free(gone, closed) ==
  /\ exists' = exists \ gone
  /\ node' = Keep(node, gone, EmptyNode)
  /\ env' = Keep(env, gone, Globals)
  /\ upval' = Keep(upval, gone, Nil)
  /\ place' = Keep(place, gone \union closed, Closed)
  /\ value' = [o \in Object |-> IF o \in gone THEN Nil
                                ELSE IF o \in closed THEN Contents(o) ELSE value[o]]
  /\ stack' = Keep(stack, gone, NoStack)
  /\ called' = [called EXCEPT !.done = @ \ gone, !.late = @ \ gone]

Linked(th, level) ==
  luaC_linkupvals([gc EXCEPT !.mark = Keep(@, DeadFrom(th, level), "white")],
                  OpenFrom(th, level) \ DeadFrom(th, level))

luaF_close(th, level) ==
  \E dead \in {DeadFrom(th, level)} : Free(dead, OpenFrom(th, level) \ dead)
-----------------------------------------------------------------------------
(* The scripts.  Their operands are levels of the running stack, results   *)
(* go to the first that is free.                                           *)
Here == stack[running]
FirstFree == {i \in Level : Here[i] = Nil /\ \A k \in 1 .. i - 1 : Here[k] # Nil}
Put(i, v) == stack' = [stack EXCEPT ![running][i] = v]
Runs == ~ gc.full /\ ~ gc.closing

Init ==
  /\ kind \in Mixes
  /\ exists = {Main, Globals}
  /\ node = [o \in Object |-> EmptyNode]
  /\ env = [o \in Object |-> Globals]
  /\ upval = [o \in Object |-> Nil]
  /\ place = [o \in Object |-> Closed]
  /\ value = [o \in Object |-> Nil]
  /\ stack = [o \in Object |-> NoStack]
  /\ running = Main
  /\ gc = GCInit
  /\ called = [done |-> {}, late |-> {}]

(* luaC_link, luaS_newudata: objects are born white, as free addresses are. *)
Born(new) == /\ new \intersect exists = {}
             /\ exists' = exists \union new

(* A new table, coroutine or userdata.                                     *)
New(o, i) ==
  /\ Runs /\ kind[o] \in Tables \union {"thread", "udata"}
  /\ Born({o}) /\ Put(i, o)
  /\ UNCHANGED <<kind, node, env, upval, place, value, running, gc, called>>

(* luaS_newlstr: the string there is may be dead.                          *)
Intern(s, i) ==
  /\ Runs /\ kind[s] = "string" /\ Put(i, s)
  /\ \/ s \in exists /\ gc' = Resurrect(gc, s) /\ exists' = exists
     \/ Born({s}) /\ gc' = gc
  /\ UNCHANGED <<kind, node, env, upval, place, value, running, called>>

(* OP_CLOSURE: a closure c over level j of the running function.           *)
Closure(c, i, j) ==
  LET open == {uv \in OpenFrom(running, j) : place[uv].level = j}
  IN  /\ Runs /\ kind[c] = "closure" /\ Put(i, c)
      /\ \E uv \in {o \in Object : kind[o] = "upval"} :
           /\ IF open = {}
              THEN Born({c, uv}) /\ gc' = gc
              ELSE uv \in open /\ Born({c}) /\ gc' = Resurrect(gc, uv)
           /\ upval' = [upval EXCEPT ![c] = uv]
           /\ place' = [place EXCEPT ![uv] = At(running, j)]
      /\ UNCHANGED <<kind, node, env, value, running, called>>

Drop(i) ==
  /\ Runs /\ Here[i] # Nil /\ stack' = [stack EXCEPT ![running][i] = Nil]
  /\ UNCHANGED <<kind, exists, node, env, upval, place, value, running, gc, called>>

(* luaV_settable: key and value are at levels, or not collectable.         *)
Operand == {Number} \union {Here[i] : i \in Level}

SetTable(t, k, v) ==
  /\ Runs /\ t \in TableObjects /\ t \in Range(Here) \union {Globals}
  /\ {k, v} \intersect Object # {}
  /\ k # Nil /\ node[t] # [key |-> k, val |-> v]
  /\ (kind[t] = "table" => k = Number) /\ node[t].key \in {Nil, k}
  /\ node' = [node EXCEPT ![t] = IF v = Nil THEN EmptyNode ELSE [key |-> k, val |-> v]]
  /\ gc' = luaC_barriert(luaC_barriert(gc, t, k), t, v)
  /\ UNCHANGED <<kind, exists, env, upval, place, value, stack, running, called>>

(* A field is read, or the key that next gives.                            *)
GetTable(t, i) ==
  /\ Runs /\ t \in TableObjects /\ t \in Range(Here) \union {Globals}
  /\ \E v \in {node[t].key, node[t].val} \intersect Object : Put(i, v)
  /\ UNCHANGED <<kind, exists, node, env, upval, place, value, running, gc, called>>

(* lua_setfenv of a userdata.                                              *)
SetEnv(u, t) ==
  /\ Runs /\ {u, t} \subseteq Range(Here) /\ kind[u] = "udata" /\ kind[t] \in Tables
  /\ env[u] # t
  /\ env' = [env EXCEPT ![u] = t]
  /\ gc' = luaC_barrier(gc, u, t)
  /\ UNCHANGED <<kind, exists, node, upval, place, value, stack, running, called>>

(* OP_GETUPVAL and OP_SETUPVAL of the closure c that runs.                 *)
GetUpval(c, i) ==
  /\ Runs /\ c \in Range(Here) /\ kind[c] = "closure"
  /\ Put(i, Contents(upval[c]))
  /\ UNCHANGED <<kind, exists, node, env, upval, place, value, running, gc, called>>

SetUpval(c, i) ==
  /\ Runs /\ c \in Range(Here) /\ kind[c] = "closure"
  /\ LET uv == upval[c]
     IN  /\ Here[i] # Contents(uv)
         /\ IF IsOpen(uv)
            THEN /\ stack' = [stack EXCEPT ![place[uv].thread][place[uv].level] = Here[i]]
                 /\ value' = value
            ELSE value' = [value EXCEPT ![uv] = Here[i]] /\ stack' = stack
         /\ gc' = luaC_barrier(gc, uv, Here[i])
  /\ UNCHANGED <<kind, exists, node, env, upval, place, running, called>>

(* OP_CLOSE and OP_RETURN: the variables from level on go out of scope.    *)
Close(level) ==
  /\ Runs /\ OpenFrom(running, level) # {}
  /\ luaF_close(running, level)
  /\ gc' = Linked(running, level)
  /\ UNCHANGED <<kind, running>>

(* A coroutine is resumed with, and yields, the value of a level.          *)
Resume(co, i) ==
  /\ Runs /\ running = Main /\ co \in Range(Here) /\ kind[co] = "thread" /\ co # Main
  /\ running' = co
  /\ stack' = [stack EXCEPT ![co][1] = Here[i]]
  /\ UNCHANGED <<kind, exists, node, env, upval, place, value, gc, called>>

Yield(i, j) ==
  /\ Runs /\ running # Main
  /\ running' = Main
  /\ stack' = [stack EXCEPT ![Main][j] = Here[i]]
  /\ UNCHANGED <<kind, exists, node, env, upval, place, value, gc, called>>
-----------------------------------------------------------------------------
(* The steps of the collector (singlestep).                                *)
markroot(g) ==
  markvalues([g EXCEPT !.state = "propagate", !.gray = {}, !.grayagain = {}, !.weak = {}],
             {Main, Globals})

remarkupvals(g) ==
  markvalues(g, {Contents(uv) : uv \in {o \in Of("upval") : IsOpen(o) /\ g.mark[o] = "gray"}})

separateudataUnflagged(g, all) ==
  LET found == {u \in Of("udata") : (iswhite(g, u) \/ all) /\ u \notin g.finalized}
  IN  [g EXCEPT !.tmudata = @ \o SetToSeq(found)]

(* luaC_separateudata: all userdata have a finalizer here.                 *)
luaC_separateudata(g, all) ==
  LET found == {u \in Of("udata") : (iswhite(g, u) \/ all) /\ u \notin g.finalized}
  IN  [g EXCEPT !.finalized = @ \union found, !.tmudata = @ \o SetToSeq(found)]

(* Those to be finalized may be marked, if left from a previous cycle.     *)
marktmu(g) ==
  LET left == Range(g.tmudata)
  IN  markvalues([g EXCEPT !.mark = [o \in Object |-> IF o \in left THEN "white" ELSE g.mark[o]]],
                 left)

(* cleartable: the entries that go.  Strings count as values: they are     *)
(* marked, and stay.                                                       *)
iscleared(g, o, iskey) ==
  /\ o \in Object /\ kind[o] # "string"
  /\ iswhite(g, o) \/ (kind[o] = "udata" /\ ~ iskey /\ o \in g.finalized)

ClearedValues(g) == {t \in g.weak : iscleared(g, node[t].val, FALSE)}

Cleared(g) == {t \in g.weak : \/ iscleared(g, node[t].key, TRUE)
                                     \/ iscleared(g, node[t].val, FALSE)}

StringMarks(g) ==
  {s \in Of("string") : \E t \in g.weak :
     \/ s = node[t].key
     \/ s = node[t].val /\ ~ iscleared(g, node[t].key, TRUE)}

(* The sweep begins at the heads of the string table and of rootgc.        *)
StartSweep(g) ==
  [g EXCEPT !.state = "sweepstring",
            !.strings = Of("string"),
            !.unswept = {o \in exists : /\ kind[o] # "string"
                                        /\ ~ (kind[o] = "upval" /\ IsOpen(o))
                                        /\ o \notin Range(g.tmudata)}]

(* atomic, up to cleartable.                                               *)
MarkRest(g) ==
  LET upvals == propagateall(remarkupvals(g))
      weak   == propagateall(markvalues([upvals EXCEPT !.gray = upvals.weak, !.weak = {}],
                                        {running}))
      again  == propagateall([weak EXCEPT !.gray = weak.grayagain, !.grayagain = {}])
  IN  propagateall(marktmu(luaC_separateudata(again, FALSE)))

(* Strings are kept, and the white of this cycle becomes the other one.    *)
Flipped(g) ==
  [o \in Object |-> IF o \in StringMarks(g) THEN "gray"
                   ELSE IF o \in exists /\ g.mark[o] = "white" THEN "dead" ELSE g.mark[o]]

atomic(g) ==
  \E marked \in {MarkRest(g)} :
    /\ node' = Keep(node, Cleared(marked), EmptyNode)
    /\ gc' = [StartSweep(marked) EXCEPT !.mark = Flipped(marked)]

Start ==
  /\ gc.state = "pause" /\ ~ gc.closing
  /\ gc' = markroot(gc)
  /\ UNCHANGED <<kind, exists, heap, running, called>>

Propagate ==
  /\ gc.state = "propagate" /\ ~ gc.closing /\ gc.gray # {}
  /\ IF gc.full THEN gc' = propagateall(gc)
                ELSE \E o \in gc.gray : gc' = propagatemark(gc, o)
  /\ UNCHANGED <<kind, exists, heap, running, called>>

Atomic ==
  /\ gc.state = "propagate" /\ ~ gc.closing /\ gc.gray = {}
  /\ atomic(gc)
  /\ UNCHANGED <<kind, exists, env, upval, place, value, stack, running, called>>

(* sweeplist of the objects of a set: the white of the dead is the other   *)
(* one.  With a thread its open upvalues are swept; those left of a dead   *)
(* thread are closed (luaE_freethread).                                    *)
OpenIn(set) == UNION {OpenFrom(th, 1) : th \in set}
Gone(set) == {o \in set \union OpenIn(set) : isdead(gc, o)}

Swept(g, set) ==
  [g EXCEPT !.mark = [o \in Object |-> IF o \in set \union OpenIn(set) THEN "white"
                                                                    ELSE g.mark[o]],
            !.strings = @ \ set, !.unswept = @ \ set, !.finalized = @ \ Gone(set)]

FreeDead(set) == \E gone \in {Gone(set)} : Free(gone, OpenIn(set \intersect gone))

(* The order of rootgc: objects are linked at its head, userdata behind    *)
(* the main thread, which was the first.                                   *)
InFront(o, p) ==
  \/ o \notin {Main, Globals} /\ kind[o] # "udata" /\ (p \in {Main, Globals} \/ kind[p] = "udata")
  \/ o = Globals /\ (p = Main \/ kind[p] = "udata")
  \/ o = Main /\ kind[p] = "udata"

FirstOf(left) == {o \in left : \A p \in left : ~ InFront(p, o)}

(* A step frees at most GCSWEEPMAX objects, a full collection stops for    *)
(* nothing.                                                                *)
Sweep ==
  /\ gc.state \in {"sweepstring", "sweep"} /\ ~ gc.closing
  /\ LET left == IF gc.state = "sweepstring" THEN gc.strings ELSE gc.unswept
         next == IF gc.state = "sweepstring" THEN "sweep" ELSE "finalize"
     IN  \/ /\ left = {}
            /\ gc' = [gc EXCEPT !.state = next]
            /\ UNCHANGED <<exists, heap, called>>
         \/ \E set \in IF gc.full THEN {left} ELSE {{o} : o \in FirstOf(left)} :
              /\ set # {} /\ FreeDead(set) /\ gc' = Swept(gc, set)
  /\ UNCHANGED <<kind, running>>

(* GCTM: the finalizer may keep its userdata, in a level that is free.     *)
CallFinalizer ==
  LET u == Head(gc.tmudata)
  IN  /\ gc' = [makewhite(gc, u) EXCEPT !.tmudata = Tail(@)]
      /\ called' = [called EXCEPT !.done = @ \union {u}]
      /\ \/ stack' = stack
         \/ \E i \in FirstFree : Put(i, u)

Finalize ==
  /\ gc.state = "finalize" /\ ~ gc.closing
  /\ IF gc.tmudata # <<>>
     THEN exists' = exists /\ CallFinalizer
     ELSE /\ gc' = [gc EXCEPT !.state = "pause", !.full = FALSE]
          /\ UNCHANGED <<exists, stack, called>>
  /\ UNCHANGED <<kind, node, env, upval, place, value, running>>

(* luaC_fullgc: a mark phase is given up for a sweep that kills nothing,   *)
(* and a sweep is ended, before a collection is made at once.              *)
GiveUpMarksNot(g) == g

GiveUpMarks(g) ==
  IF g.state \in {"pause", "propagate"} THEN StartSweep(g) ELSE g

FullGC ==
  /\ Runs
  /\ \E g \in {GiveUpMarks(gc)} : \E left \in {g.strings \union g.unswept} :
       FreeDead(left) /\ gc' = [markroot(Swept(g, left)) EXCEPT !.full = TRUE]
  /\ UNCHANGED <<kind, running>>

(* lua_close: finalizers are called for all userdata; one of them may make *)
(* another userdata.  Then everything is freed.                            *)
BeginClose ==
  /\ Runs /\ running = Main
  /\ luaF_close(Main, 1)
  /\ LET g == luaC_separateudata(gc, TRUE)
     IN  gc' = [GCInit EXCEPT !.closing = TRUE, !.finalized = g.finalized,
                              !.tmudata = g.tmudata]
  /\ UNCHANGED <<kind, running>>

CloseNew(u) ==
  /\ gc.closing /\ gc.tmudata # <<>> /\ kind[u] = "udata" /\ Born({u})
  /\ called' = [called EXCEPT !.late = @ \union {u}]
  /\ UNCHANGED <<kind, heap, running, gc>>

CloseState ==
  /\ gc.closing
  /\ IF gc.tmudata # <<>>
     THEN /\ CallFinalizer
          /\ exists' = exists
     ELSE /\ exists # {Main} /\ exists' = {Main}
          /\ UNCHANGED <<gc, stack, called>>
  /\ UNCHANGED <<kind, node, env, upval, place, value, running>>

Collector == Start \/ Propagate \/ Atomic \/ Sweep \/ Finalize

Script ==
  \/ \E i \in FirstFree :
       \/ \E o \in Object : New(o, i) \/ Intern(o, i) \/ \E j \in Level : Closure(o, i, j)
       \/ \E t \in TableObjects : GetTable(t, i)
       \/ \E c \in Of("closure") : GetUpval(c, i)
  \/ \E i \in Level :
       \/ Drop(i) \/ Close(i) \/ \E j \in Level : Yield(i, j)
       \/ \E c \in Of("closure") : SetUpval(c, i)
       \/ \E co \in Of("thread") : Resume(co, i)
  \/ \E t \in TableObjects, k, v \in Operand : SetTable(t, k, v)
  \/ \E u \in Of("udata"), t \in TableObjects : SetEnv(u, t)
  \/ FullGC \/ BeginClose \/ CloseState \/ \E u \in Object : CloseNew(u)

Next == Script \/ Collector

Spec == Init /\ [][Next]_vars
-----------------------------------------------------------------------------
(* What an object refers to, but for the weak references: those to strings *)
(* are not.                                                                *)
Strings(values) == {s \in values \intersect Object : kind[s] = "string"}

Refers(o) ==
  CASE kind[o] = "weakkeys"   -> Strong(o) \union Strings({node[o].key})
    [] kind[o] = "weakvalues" -> Strong(o) \union Strings({node[o].val})
    [] OTHER                  -> Strong(o)

ReachableFrom(roots) == Reached(roots, [o \in Object |-> Refers(o)])

Reachable == ReachableFrom({Main, Globals, running})
-----------------------------------------------------------------------------
(* What the scripts can reach is there, an open upvalue with the stack it  *)
(* points into, and none of it is condemned by the sweep that goes on.     *)
ReachableSurvives ==
  ~ gc.closing =>
    /\ Reachable \subseteq exists
    /\ \A o \in Reachable :
         /\ ~ isdead(gc, o)
         /\ kind[o] = "upval" /\ IsOpen(o) => place[o].thread \in exists

(* The invariant of the incremental mark phase, which the barriers keep:   *)
(* an object that has been traversed refers to none that was never marked, *)
(* but for userdata left black by the cycle that is to finalize them.      *)
BlackToNoWhite ==
  gc.state = "propagate" /\ ~ gc.closing =>
    \A o \in exists \ Range(gc.tmudata) : isblack(gc, o) => \A r \in Refers(o) : ~ iswhite(gc, r)

(* A weak table that can be reached gives nothing that has been, or is to  *)
(* be, freed.                                                              *)
WeakEntriesLive ==
  ~ gc.closing =>
    \A t \in Reachable : kind[t] \in Tables =>
      \A o \in {node[t].key, node[t].val} \intersect Object :
        o \in exists /\ ~ isdead(gc, o)

(* A finalizer is called once, and before its userdata is freed: also when *)
(* the state is closed, but for userdata that the last finalizers made.    *)
FinalizedOnce ==
  [][\A u \in Object : kind[u] = "udata" =>
       /\ u \in exists \ exists' => u \in called.done \union called.late
       /\ u \in Range(gc.tmudata) \ Range(gc'.tmudata) => u \notin called.done]_vars

(* A full collection condemns all but what the scripts can reach, or could *)
(* from the userdata that wait for their finalizers, however far the mark  *)
(* phase it gave up had come; it ends when what it has condemned is freed. *)
FullCollects ==
  [][gc.full =>
       /\ gc.state = "propagate" /\ gc'.state # "propagate" =>
            \A o \in exists :
              isdead(gc', o) \/
                o \in ReachableFrom({Main, Globals, running} \union Range(gc'.tmudata))
       /\ ~ gc'.full => \A o \in exists : ~ isdead(gc, o)]_vars
=============================================================================
