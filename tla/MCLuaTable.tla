----------------------------- MODULE MCLuaTable -----------------------------
(* LuaTable for TLC: three integers and two other keys, with hashes that  *)
(* collide in tables of two and of four nodes.                             *)
EXTENDS LuaTable, TLC

CONSTANTS Name, Thing

MCArraySizes == {0, 1, 3}
MCHashSizes == {0, 3}
MCStrings == {Name}
MCObjects == {Thing}
MCHash == [k \in 0 .. 8 |-> k] @@ (Name :> 1) @@ (Thing :> 4)
MCValue == [k \in 0 .. 8 |-> 10 + k] @@ (Name :> 20) @@ (Thing :> 21)
(* A length is asked for between traversals: luaH_getn reads the table     *)
(* and nothing of a traversal.                                             *)
LengthBetweenVisits == search = NoSearch \/ visit = NoVisit
=============================================================================
