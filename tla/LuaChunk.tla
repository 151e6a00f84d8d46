------------------------------ MODULE LuaChunk ------------------------------
(***************************************************************************)
(* Compiled functions as precompiled chunks: written (ldump.c) and read    *)
(* back (lundump.c).                                                       *)
(*                                                                         *)
(* A chunk is the sequence of the blocks given to the writer; one of no    *)
(* bytes leaves nothing.  A function has the fields the compiler model     *)
(* gives it and those only a chunk needs: its source's name, a line for    *)
(* each instruction and the names of its variables and upvalues.           *)
(***************************************************************************)
EXTENDS LuaCode

CONSTANT LUAI_MAXCCALLS

NULL == <<"NULL">>
Unknown == <<"=?">>
HEADER == "Lua 5.1, the sizes and the byte order"
-----------------------------------------------------------------------------
Vector(v) == IF v = <<>> THEN <<0>> ELSE <<Len(v), v>>
DumpString(s) == IF s = NULL THEN <<0>> ELSE <<Len(s) + 1, s>>
DumpConstant(o) ==
  CASE ttype(o) = "nil" -> <<"nil">>
    [] ttype(o) = "boolean" -> <<"boolean", IF o[2] THEN 1 ELSE 0>>
    [] ttype(o) = "number" -> <<"number", o[2]>>
    [] ttype(o) = "string" -> <<"string">> \o DumpString(o[2])
Each(F(_), s) == FlattenSeq([i \in DOMAIN s |-> F(s[i])])
DumpLocvar(v) == DumpString(v.varname) \o <<v.startpc, v.endpc>>

DumpDebug(f, strip) ==
  IF strip THEN <<0, 0, 0>>
  ELSE Vector(f.lineinfo) \o <<Len(f.locvars)>> \o Each(DumpLocvar, f.locvars)
         \o <<Len(f.upvalues)>> \o Each(DumpString, f.upvalues)

(* A function names its source unless that is the enclosing one's.         *)
RECURSIVE DumpFunction(_, _, _)
DumpFunction(f, p, strip) ==
  DumpString(IF f.source = p \/ strip THEN NULL ELSE f.source)
    \o <<f.linedefined, f.lastlinedefined, f.nups, f.numparams, f.is_vararg, f.maxstacksize>>
    \o Vector(f.code)
    \o <<Len(f.k)>> \o Each(DumpConstant, f.k)
    \o <<Len(f.p)>> \o FlattenSeq([i \in DOMAIN f.p |-> DumpFunction(f.p[i], f.source, strip)])
    \o DumpDebug(f, strip)

(* The writer takes room blocks; it is not called again once it has failed.*)
luaU_dump(f, strip, room) ==
  LET blocks == <<HEADER>> \o DumpFunction(f, NULL, strip)
  IN [data |-> SubSeq(blocks, 1, Min({room, Len(blocks)})),
      status |-> IF room < Len(blocks) THEN 1 ELSE 0]
-----------------------------------------------------------------------------
(* Reading: a value and the place after it.  Reading past the end of the   *)
(* chunk is an error; what is read there does not matter any more.         *)
Block(c, i) == IF i <= Len(c) THEN c[i] ELSE 0
Ended(c, at) == at > Len(c) + 1
LoadString(c, i) ==
  IF Block(c, i) = 0 THEN [v |-> NULL, at |-> i + 1]
  ELSE [v |-> IF i < Len(c) THEN c[i + 1] ELSE NULL, at |-> i + 2]
LoadVector(c, i) ==
  IF Block(c, i) = 0 THEN [v |-> <<>>, at |-> i + 1] ELSE [v |-> Block(c, i + 1), at |-> i + 2]

LoadConstant(c, i) ==
  LET t == IF Ended(c, i + 1) THEN "nil" ELSE c[i]
      s == LoadString(c, i + 1)
  IN CASE t = "nil" -> [v |-> NIL, at |-> i + 1]
       [] t = "boolean" -> [v |-> Bool(Block(c, i + 1) # 0), at |-> i + 2]
       [] t = "number" -> [v |-> Num(Block(c, i + 1)), at |-> i + 2]
       [] t = "string" -> [v |-> Str(s.v), at |-> s.at]
LoadLocvar(c, i) ==
  LET s == LoadString(c, i)
  IN [v |-> [varname |-> s.v, startpc |-> Block(c, s.at), endpc |-> Block(c, s.at + 1)],
      at |-> s.at + 2]

(* A count at i and so many of what Item reads.                            *)
LoadList(Item(_, _), c, i) ==
  FoldLeft(LAMBDA r, n : LET one == Item(c, r.at) IN [v |-> Append(r.v, one.v), at |-> one.at],
           [v |-> <<>>, at |-> i + 1], [n \in 1 .. Block(c, i) |-> n])

RECURSIVE LoadFunction(_, _, _)
LoadProtosOfNone(c, i, source) == LoadList(LAMBDA d, j : LoadFunction(d, j, Unknown), c, i)
LoadProtos(c, i, source) == LoadList(LAMBDA d, j : LoadFunction(d, j, source), c, i)
LoadFunction(c, i, p) ==
  LET source == LoadString(c, i)
      name == IF source.v = NULL THEN p ELSE source.v
      at == source.at
      code == LoadVector(c, at + 6)
      k == LoadList(LoadConstant, c, code.at)
      ps == LoadProtos(c, k.at, name)
      lineinfo == LoadVector(c, ps.at)
      locvars == LoadList(LoadLocvar, c, lineinfo.at)
      upvalues == LoadList(LoadString, c, locvars.at)
  IN [v |-> [source |-> name, linedefined |-> Block(c, at), lastlinedefined |-> Block(c, at + 1),
             nups |-> Block(c, at + 2), numparams |-> Block(c, at + 3),
             is_vararg |-> Block(c, at + 4), maxstacksize |-> Block(c, at + 5),
             code |-> code.v, k |-> k.v, p |-> ps.v,
             lineinfo |-> lineinfo.v, locvars |-> locvars.v, upvalues |-> upvalues.v],
      at |-> upvalues.at]

RECURSIVE Depth(_)
Depth(f) == 1 + Max({0} \union {Depth(g) : g \in ToSet(f.p)})
RECURSIVE AllChecked(_)
AllChecked(f) == luaG_checkcode(f) /\ \A g \in ToSet(f.p) : AllChecked(g)

(* The function a chunk holds, or why it is refused.                       *)
luaU_undump(c) ==
  LET main == LoadFunction(c, 2, Unknown)
  IN CASE c = <<>> -> [error |-> "unexpected end"]
       [] c # <<>> /\ c[1] # HEADER -> [error |-> "bad header"]
       [] OTHER -> IF Ended(c, main.at) THEN [error |-> "unexpected end"]
                   ELSE IF Depth(main.v) > LUAI_MAXCCALLS THEN [error |-> "code too deep"]
                   ELSE IF ~AllChecked(main.v) THEN [error |-> "bad code"]
                   ELSE [error |-> "", f |-> main.v]
-----------------------------------------------------------------------------
(* A compiled function with what a chunk needs besides: the parser gives   *)
(* all the functions of a text the same source (lparser.c, open_func).     *)
RECURSIVE Named(_, _)
Named(f, source) ==
  [code |-> f.code, k |-> f.k, nups |-> f.nups, numparams |-> f.numparams,
   is_vararg |-> f.is_vararg, maxstacksize |-> f.maxstacksize,
   p |-> [i \in DOMAIN f.p |-> Named(f.p[i], source)], source |-> source,
   linedefined |-> 0, lastlinedefined |-> Len(f.code),
   lineinfo |-> [pc \in DOMAIN f.code |-> pc],
   locvars |-> [i \in 1 .. f.numparams |-> [varname |-> <<"x">>, startpc |-> 0, endpc |-> Len(f.code)]],
   upvalues |-> [i \in 1 .. f.nups |-> <<"u">>]]
RECURSIVE Stripped(_)
Stripped(f) ==
  [f EXCEPT !.source = Unknown, !.lineinfo = <<>>, !.locvars = <<>>, !.upvalues = <<>>,
            !.p = [i \in DOMAIN f.p |-> Stripped(f.p[i])]]
=============================================================================
