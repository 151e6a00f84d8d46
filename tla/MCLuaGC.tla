------------------------------ MODULE MCLuaGC ------------------------------
(* LuaGC for TLC: besides the main thread and the globals, the objects of  *)
(* one of five mixes - a coroutine with a closure and its upvalue, weak    *)
(* tables with a userdata or a string, and two userdata.                   *)
EXTENDS LuaGC, TLC

CONSTANTS M, G, a, b, c

Mix(ka, kb, kc) == (M :> "thread") @@ (G :> "table")
                     @@ (a :> ka) @@ (b :> kb) @@ (c :> kc)

MCLevel == 1 .. 2

MCMixes == {Mix("thread", "closure", "upval"),
            Mix("weakkeys", "udata", "none"),
            Mix("weakvalues", "udata", "none"),
            Mix("weakvalues", "string", "none"),
            Mix("udata", "udata", "none")}
=============================================================================
