--------------------------- MODULE MCLuaLanguage ---------------------------
(***************************************************************************)
(* The compiler and the virtual machine together: each program of a family *)
(* is written as text, compiled and executed.  In other runs of the model  *)
(* the scanner reads a text, or a function of the libraries is called.     *)
(***************************************************************************)
EXTENDS LuaVM, LuaMeaning

Families == INSTANCE LuaPrograms
Chunk == INSTANCE LuaChunk
CONSTANTS
  Family,      \* the programs: a name
  Compiled(_), \* what luaY_parser returns for one of them: see MCCompiled
  Meant(_)     \* what it means: see MCMeant

VARIABLE program   \* chosen once; NoProgram while the compiler is idle
VARIABLES source, current, linenumber, lastline, t, lookahead, consumed   \* the scanner
VARIABLES call, result                                                    \* the libraries
libraryVars == <<source, current, linenumber, lastline, t, lookahead, consumed, call, result>>
Library == INSTANCE MCLuaLibrary WITH LUA_MAXCAPTURES <- 2

Programs == CASE Family = "all" -> Families!AllPrograms [] Family = "deep" -> Families!DeepPrograms
NoProgram == <<>>

(* Constants: a program is compiled and evaluated by them alone.           *)
MCCompiled(tree) == LET parsed == luaY_parser(Block(tree)) IN parsed
MCMeant(tree) == LET meaning == Meaning(tree) IN meaning

CompilerInit ==
  /\ program \in Programs
  /\ proto = [error |-> ""]
  /\ Init
  /\ Library!Idle
CompilerNext ==
  /\ program # NoProgram
  /\ Load(Compiled(program)) \/ Begin \/ luaV_execute
  /\ UNCHANGED program
  /\ UNCHANGED libraryVars
CompilerSpec == CompilerInit /\ [][CompilerNext]_<<program, vars, libraryVars>>

LanguageInit ==
  \/ CompilerInit
  \/ program = NoProgram /\ proto = [error |-> ""] /\ Init /\ Library!Init
LanguageNext ==
  \/ CompilerNext
  \/ program = NoProgram /\ Library!Next /\ UNCHANGED program /\ UNCHANGED vars
LanguageSpec == LanguageInit /\ [][LanguageNext]_<<program, vars, libraryVars>>
-----------------------------------------------------------------------------
(* A program that compiles does what it means: when it ends it has made    *)
(* the calls, and gives the results or the error, that the tree            *)
(* evaluated directly makes and gives (lcode.c's jump lists and registers, *)
(* lparser.c, lvm.c); a well-formed program is refused only for a limit    *)
(* it reaches (lparser.c:63, 98, lcode.c:208), or for a call whose (       *)
(* begins a line (lparser.c:616), and such a call never runs.              *)
Ran == [log |-> machine.log, failed |-> outcome = "failed",
        results |-> IF outcome = "failed" THEN <<>>
                    ELSE [n \in 1 .. machine.top |-> Shown(Slot(machine, n - 1))]]
CompiledMeansSource ==
  /\ outcome \in {"returned", "failed"} =>
       Ran = Meant(program) /\ program \notin Families!RefusedPrograms
  /\ outcome = "syntax error" =>
       \/ program \in Families!RefusedPrograms /\ proto.error = "ambiguous syntax"
       \/ /\ program \in Families!LimitPrograms
          /\ proto.error \in {"too many", "function or expression too complex", "control structure too long"}

(* The assertions of the parser, the code generator and the machine hold:  *)
(* every function compiled passes the checks made before foreign code runs *)
(* (lparser.c:375, ldebug.c:484), and between instructions the top of the  *)
(* stack is the frame's, but before one that takes a variable number of    *)
(* values (lvm.c:399-401).                                                 *)
RECURSIVE Protos(_)
Protos(p) == {p} \union UNION {Protos(q) : q \in ToSet(p.p)}
AssertionsHold ==
  /\ outcome = "loaded" => ~proto.failed /\ \A p \in Protos(proto.f) : luaG_checkcode(p)
  /\ outcome = "running" => machine.top = Frame(machine).top \/ luaG_checkopenop(Here)

(* A dumped function loads back equal, or without its debug information    *)
(* when that is stripped; a chunk cut short is refused, and the writer's   *)
(* failure is told (ldump.c:153, lundump.c:195).                           *)
ChunkLoadsBack == outcome = "loaded" =>
  LET f == Chunk!Named(proto.f, <<"chunk">>)
      whole == Chunk!luaU_dump(f, FALSE, 1000)
      bare == Chunk!luaU_dump(f, TRUE, 1000)
  IN /\ whole.status = 0 /\ Chunk!luaU_undump(whole.data) = [error |-> "", f |-> f]
     /\ Chunk!luaU_undump(bare.data) = [error |-> "", f |-> Chunk!Stripped(f)]
     /\ \A room \in 0 .. Len(whole.data) - 1 :
          LET part == Chunk!luaU_dump(f, FALSE, room)
          IN part.status # 0 /\ Chunk!luaU_undump(part.data).error = "unexpected end"

(* The scanner hands out the words of the text: each the longest there is, *)
(* with its value, and an error where the text has none (llex.c:332); the  *)
(* line each is reported in is one more than the line breaks before its    *)
(* end, whatever they are in and however they are written (llex.c:127).    *)
TokensAreLongest == program = NoProgram => Library!TokensAreLongest

(* A search gives the first place where the pattern matches, the longest   *)
(* or shortest match its repetitions ask for, and the captures of that     *)
(* match and no other (lstrlib.c:365, 444).                                *)
MatchIsFirst == Library!MatchIsFirst

(* gsub replaces exactly the matches that gmatch gives, up to max_s, each  *)
(* with what its captures make of the replacement, and keeps the text      *)
(* between them; it raises an error when that is so of one of these        *)
(* replacements, and otherwise only when gmatch does (lstrlib.c:548, 583,  *)
(* 605, 644).                                                              *)
GsubFollowsGmatch == Library!GsubFollowsGmatch

(* Sorting loses no element whatever the order function says, of a nil     *)
(* too when it takes one, and sorts with a strict weak order               *)
(* (ltablib.c:193); insert and remove move what stands from the place on   *)
(* and nothing else (ltablib.c:90, 118).                                   *)
ListsKept == Library!ListsKept
=============================================================================
