# A TLA+ model of Suffix-Array

This directory models the repository's full-text search: a suffix array built
in C++ (`sufarr.cpp`), searched on disk and in memory from Lua (`indexer.lua`),
behind a small iPhone application (`xcode/Classes`) with its sounds and music;
and the Lua 5.1.4 interpreter (`lua-5.1.4/src`) that the repository ships and
everything but the suffix set runs on. The modules are translated from the
source; `PROJECT.json` gives, for every definition, the lines it stands for.

Contents: [the system](#the-system) · [the modules](#the-modules) ·
[the runs](#the-runs) · [what is proved](#what-is-proved) ·
[disagreements found](#disagreements-found) · [not modelled](#not-modelled) ·
[the plan](#the-plan)

## The system

    source text --create_indexer--> Indexer (std::set) --save_index--> kjv.idx
                                                                        |
    mkindex: search of "\n" in kjv.idx --------pack_pos--------> kjv.pidx
                                                                        |
    search_on_file / select_item (indexer.lua) <---- exec_lua ---- screens
    load_index / search_*_bound (sufarr.cpp)   <---- search (indexer.lua)

| part | source | state it keeps | operations | what makes it correct |
|---|---|---|---|---|
| suffix set | `sufarr.cpp` 16-65, 129-154 | the text, the set of suffix pointers | constructor, `operator<<`, `create_indexer`, `save_index` | no suffix lost, the file in strict suffix order, an order the Lua searches can use |
| index file | `sufarr.cpp` 52-65, 106-127; `sufarr.i`; `indexer.lua` 70-84, 179-187 | four-byte big-endian positions | write a record, read bytes, seek | what is read is what was written, also from a file cut short |
| search on disk | `indexer.lua` 137-195 | bracket `n1`, `n2`, `size` | `lower_bound`, `search_range` | assertions hold, the rank is returned, it ends |
| paragraph lookup | `indexer.lua` 93-135 | the same, and `mpos` | `lower_bound_paragraph` | the last paragraph at or before a position |
| mkindex and session | `indexer.lua` 1-63, 197-283; `mkindex.lua` | the two index files; `last_*` | `mkindex`, `search_on_file`, `select_item`, `previous_*`, `get_paragraph` | counts and rows are the occurrences; a selection shows the line of its row |
| search in memory | `sufarr.cpp` 67-219; `indexer.lua` 65-68, 287-314 | `Index` (text and vector) | `load_index`, `search_lower_bound`, `search_upper_bound`, `get_position`, `search` | nothing read outside the vector, rows begin with the word |
| screens | `gsSearchScreen.m`, `gsTextScreen.m`, `gsAboutScreen.m`, `globalLuaState.m` | rows, search box, header, title and body; the Lua stack | type, tap, about, back, header | what is shown agrees with what Lua holds; the stack stays empty |
| delegate | `Chapter3_FrameworkAppDelegate.m`, `GameState*.m` | the current view | launch, terminate, `doStateChange`, timer, memory warning | a new screen sees what the last one left |
| sounds | `ResourceManager.m` 118-145, `SoundEngine.cpp` 860-1440 | the number of each file asked for; the engine's effects; OpenAL's sources and buffers | `getSound`, `playSound`, `purgeSounds`, `shutdown`; `LoadEffect`, `UnloadEffect`, `StartEffect`, `Teardown` | a loaded sound is the one heard; nothing left at the end |
| music | `ResourceManager.m` 151-162, `SoundEngine.cpp` 430-853 | the track manager, its track, its audio queue and buffers | `playMusic`, `stopMusic`, `QueueCallback` | packets in order, one queue, repeats for ever |
| rest of the resource manager | `ResourceManager.m` | texture and font caches, a storage | get, purge, shutdown | cached values usable until purged |
| Lua tables | `ltable.c` | array part, nodes with their chains, the last free node | `luaH_set`, `luaH_get*`, `luaH_next`, `luaH_getn`, `rehash` | a table is the dictionary of what was assigned, `#` is a border, a traversal is complete |
| Lua collector | `lgc.c`, `lfunc.c`, parts of `lstring.c`, `lstate.c` | colours, phase, gray lists, sweep position, open upvalues, userdata to be finalized | `singlestep`, barriers, `luaC_fullgc`, `GCTM`, `lua_close` | what is reachable stays, what is not goes, finalizers run once |
| Lua calls | `ldo.c`, parts of `lvm.c`, `ldebug.c`, `lbaselib.c` | frames, `nCcalls`, handler, status of each thread; the C stack | calls, returns, `pcall`, `xpcall`, `error`, `resume`, `wrap`, `yield` | every way out leaves the thread as its frames say |
| Lua compiler and machine | `lparser.c`, `lcode.c`, `lvm.c`, parts of `ldebug.c`, `lopcodes.c` | function states, jump lists, registers; the stack and the frames | the grammar, the code generator, every opcode, `luaG_checkcode` | a program does what it means |
| Lua chunks | `ldump.c`, `lundump.c` | the bytes of a chunk | `luaU_dump`, `luaU_undump` | what was dumped loads back, what is cut is refused |
| Lua scanner | `llex.c` | position, line, current token and the one ahead | `luaX_next`, `luaX_lookahead`, `llex` | longest tokens, right lines |
| Lua libraries | `lstrlib.c`, `ltablib.c`, `lbaselib.c` | the match state; the list being sorted | `find`, `match`, `gmatch`, `gsub`; `sort`, `insert`, `remove` | the first match with its captures; no element lost |
| rest of Lua | `lapi.c`, `lauxlib.c`, `liolib.c`, ... | | | see [not modelled](#not-modelled) |
| not the program's own | `GLTexture`, `GLFont`, `GLESGameState`, xib files, generated wrapper | | | |

The parts interact by calls and files. The scripts are sequential, and the
application is one thread with one Lua state; only the system's audio queue
plays on a thread of its own, and it calls back on the main run loop, so never
inside another call. Inside Lua it is otherwise: the collector works between any
two steps of a script, and coroutines, errors and finalizers cut across its
calls. What makes the program hard to test:

- **two implementations that must agree**: the index is ordered in C++ by
  `strcasecmp` of whole suffixes and searched in Lua by `lower ()` and `<` on
  a few bytes; positions are counted in what `ifs >> &buf` loaded and used in
  the file; records are written twice and read three times;
- **boundaries**: a binary search that never compares its first record, a
  vector with one element too many, `+ 1` and `lb + 10` in the right place;
- **failures nobody looks at**: unchecked writes, chunks whose error message
  stays on the Lua stack, a paragraph index that was never written;
- **state spread over owners**: rows in the screen, positions in Lua, a count
  read when the table is drawn; the order of typing, tapping and changing
  screens is the user's;
- **scarce things with numbers**: OpenAL's sources, whose numbers are used
  again after a purge, and the number a failed load never assigned;
- **an audio queue beside the program**: buffers end while earlier callbacks
  wait, and the file ends in the middle of a callback;
- **a collector between the steps**: a reference stored where the collector has
  already been, an upvalue that dies and is used again, a table whose keys die
  during a traversal;
- **code that writes code**: jumps patched long after they were made, registers
  freed in another order than they were taken, for every nesting of constructs;
- **ways out of a call**: returns, errors, yields and overflows must each leave
  the same accounts.

`PROJECT.json` lists these at their lines (`hazards`) with the properties that
watch them.

## The modules

Definitions have the source's names where they can. A definition that stands
before another and has its name with a suffix (`MidRoundsLow` before `Mid`) is
a variant with a plausible mistake; nothing uses it. `PROJECT.json`
(`mutants`) says which property notices each.

- **`Bisection`** — what the two binary searches share: the probe `Mid`, and
  where the verdicts of a table change (`IsBoundary`, `BelowFirst`).
- **`LowerBound`** — `lower_bound`, one step per turn. The index is a table of
  verdicts (`below[k]`: the text at record k is below the word) and a set of
  records that point past the text; tables in any order are allowed, because
  an index file may stand beside a text it was not made from.
  **`Boundary`** is the abstract specification: one answer, where the verdicts
  change. `LowerBound` implements it (`answer` is `n1` once `pc = "done"`).
- **`ParagraphLookup`** — `lower_bound_paragraph`, one step per turn; its leave
  by the middle, by a hit and by the last record are separate actions.
- **`Records`** — a record's bytes, with the byte size as a parameter, what the
  first of them make (`Leading`), and the int that `get_position` returns. **`IndexFile`** — writing a set of positions,
  losing an arbitrary tail of the file, and `operator>>`'s two nested loops
  byte by byte; `got` says how many bytes of the record are in `x`.
- **`SourceText`** — texts as bytes: loading (`LoadedText` skips leading
  blanks, as the formatted extraction does), the two comparisons, the UTF-8
  filter, reads of n bytes or of a line; `SuffixArray`, the records an index of
  the text has, each at the place its rank gives it. **`Indexer`** — the constructor's loop
  with `std::set`'s insertion (`Insert`: no effect when an equivalent key is
  there) and the ordered write.
- **`FileSearch`** — composes the above: `mkindex`'s two files from a text,
  then searches and selections in any order. The index is used by what
  `Indexer` is shown to write (`SuffixArray`), the binary searches by what their
  loops are shown to return (`lower_bound`: where the verdicts change, as
  `Boundary` says; `ParagraphAt`: what `FindsParagraph` says). No write is checked,
  so of either file any number of the first records may be there (`SaveIndex`,
  `SaveParagraphs`); `StopMkindex` is a `mkindex` that is stopped, or whose search
  raises, before it writes a paragraph; `SearchFails` and `SelectFails` are raised
  errors, with what had been assigned before.
- **`MemorySearch`** — `load_index`'s vector (records of a complete or cut
  file, and the element made up of the bytes left of the next one, 0 when there
  are none), `std::lower_bound` and `std::upper_bound` probe by
  probe because the vector is out of order, and `search`'s loop over the rows.
  **`IndexReaders`** puts it beside `LowerBound`, `ParagraphLookup` and
  `IndexFile`: in a behaviour one of the four readers of index files runs.
- **`SearchApp`** — the three screens, one action per event handler, with the
  Lua stack as a sequence that `exec_lua` pushes on and handlers read by
  absolute index. A word has a list of hits; `Malformed` words make the chunk
  they are pasted into no Lua, `Raising` words raise after the word has been
  remembered, positions in `Unselectable` make `select_item` raise (no
  paragraph index, or one of one record). `tapped` is a history variable: the
  row as it was shown when tapped. `laidOut` is false from a reload until the
  table asks for its header; the run loop lays out before the next event.
- **`SoundEffects`** — `getSound`'s dictionary over the engine's map of effects
  over the device's sources and buffers. A load may fail at any step
  (`LoadFails`): what it took stays taken and the number it should have assigned
  is any number. `loaded` and `started` are history variables: whether a number
  came from a load that succeeded, and what the last `playSound` asked for and
  started.
- **`BackgroundMusic`** — `playMusic` and `stopMusic` over the track manager.
  `pc` is where the main thread is: a call proceeds from `allocate` through the
  turns of `QueueCallback`'s read loop (`reading`, `ended`) to `start`; between
  calls it is `idle`. `BufferPlayed` is the queue's thread and may step at any
  time, `QueueCallback` is the run loop taking up a buffer that ended. Packets
  are numbers, buffers intervals of them. A use of the track after its deletion
  is the state `undefined`, from which nothing is claimed.
- **`ResourceManager`** — the manager of both: the calls of the screens, and the
  termination that ends sounds and music together.

The Lua modules stand for the interpreter under all of this.

- **`LuaTable`** — one table. `luaH_set` has `newkey`'s three cases (`Placed`: the
  main position is free; `Moved`: the colliding node makes way; `Chained`: the new
  node does). When none is free `rehash` begins a resize, which puts the elements
  in `old` back one by one (`PutBack`) and then the field that made it necessary
  (`pending`). `luaH_getn` is also a machine of its own, one probe per step, its
  place in `search`. Nothing else happens during a resize, as in the C code. A
  traversal may have assignments of existing fields and a collection between two
  calls of `next`; `RemoveEntries` is what the collector does to a table's dead
  keys. Chains are the least sets closed under `next` (`From`), not recursive
  functions, so that the prover can reason about them. `dict` is a history
  variable: the dictionary promised.
- **`LuaGC`** — the collector as a state machine with one action per
  `singlestep`, the atomic part whole, the sweeps object by object, the roots and the userdata
  last as in `rootgc`; between them
  the script's actions, each with the barrier its C function has. Five kinds of
  objects and the weak tables; a mix of kinds is chosen once. Finalizers run as
  scripts and may store their userdata again. There is no pacing: a step of the
  collector may come at any time. Gray lists are sets, for nothing depends on
  the order their objects are taken in; what `propagatemark` colours until the
  lists are empty is the least set that has the gray objects and what its
  members pass their mark on to (`Reached`).
- **`LuaCalls`** — the C stack as a sequence of activations (`luaD_call`,
  `luaV_execute`, `lua_resume`, `pcall`, handlers), the `lua_State` of each
  thread, and an error as a value of `mode` that unwinds to the nearest
  `luaD_rawrunprotected`. A coroutine that has failed keeps its frames, its stack
  and its open upvalues (`Kill`), since nothing unwinds them before it is
  collected. `life` is a history variable. **`LuaCallsAccounts`**
  has the accounts that C stack and threads keep of each other, for the proofs in
  **`LuaCallsProofs`**.
- **`LuaValue`** — values and arithmetic, shared by compiler, machine and
  meaning. **`LuaCode`** — `lcode.c`: expression descriptions, jump lists,
  registers; and `luaG_checkcode` and `luaG_checkopenop`, which say of compiled
  code what may run. **`LuaParser`** — `lparser.c`, every rule of the grammar over the
  tokens, with the limits it checks. **`LuaVM`** — `luaV_execute`, one action
  per opcode (tests, jumps, calls and loops included), with the calls, upvalues
  and tables it needs. **`LuaChunk`** — `luaU_dump` to a writer that takes so
  many blocks, and `luaU_undump`.
- **`LuaMeaning`** — the abstract specification of compiler and machine: what a
  program means, evaluated on its tree with one cell per local variable, after
  the reference manual's sections 2.4 to 2.6; and the tokens of a tree, with the
  parentheses its precedences need and no others (`Token` is the parser's, the
  rest owes it nothing). Of the layout a token has whether its line begins with
  it (`first`), for calls split before their arguments.
  **`LuaPrograms`** — the families of programs.
- **`LuaLexer`** — `llex` over characters, one token per step, with the line
  counts and their limit (`MAX_INT`), and the token ahead.
- **`LuaStrings`** — `match` and its helpers as recursive operators on the match
  state, with the captures an unsuccessful try leaves behind; `find` (also plain),
  `match`, `gmatch`, and `gsub` with a string, a table or a function (`add_value`:
  what the latter two give is any value; nil and false keep the match, values that
  are no strings raise). **`LuaLibrary`** — the table library (`auxsort` exchange by
  exchange with any relation for the order function, which takes the nil past
  the list or raises for it; `insert`, `remove`), the
  calls of both libraries as actions, and the reference definitions they are
  checked against.

`MC*` modules give the constants their values; `MCLuaLanguage` (with
`MCLuaLibrary`) also puts components side by side that share a run, one of which
acts in a behaviour. `Compiled` and
`Meant`, constant operators of the latter, are the compiler and the meaning applied
to the program of the behaviour. `*Proofs`
modules hold the theorems.

## The runs

| run | question | bounds, and why they are enough |
|---|---|---|
| `index_readers` | do both binary searches end with the right record, is what is read what was written, how far does the made-up element spoil the search in memory? | verdicts on up to 6 records: brackets of even and odd size at three depths; up to 5 records of 6 positions for paragraphs: equal records, positions before, between and after; 3 written records, bytes of base 2 (16 positions, an int up to 7, and texts that need two bytes for a position), cut after any byte; all texts of up to 4 of 4 bytes, their index cut after any byte. The theorems have no bound |
| `indexer` | is the file complete and in an order the searches can use? | all files of up to 4 of 7 bytes: NUL, newline, both cases, `_` between them, a two-byte character; words of 1 or 2 bytes |
| `file_search` | are counts, rows and selections right? | all texts of up to 4 bytes over two alphabets and 6 over one: several lines, leading blanks, no final newline; `RowLimit` 1 so that results overflow it; both files cut at every record |
| `search_app` | do screens and Lua agree? | a word with more hits than rows, one, none; one word per failure; at most 2 messages left (`MaxLeft`), enough for both indices the text screen reads to be wrong |
| `resource_manager` | is the right sound heard, is everything released, is the music in order, single and endless? | 3 files, 3 sources, 3 buffers: loads exhaust both, sources are used again; 2 packets a buffer, tracks of 0, 3 (at once), 6 and 7 packets (streamed, ending with a full and a half-full buffer), 3 buffers, as in the code |
| `lua_tables` | is a table a dictionary, whatever moved in it? | integers 1, 2 and 4 (in the array part, at its end, beyond a hole), a string and an object whose hashes collide with them and each other in tables of 2 and 4 nodes; `MAX_INT` 4, so that the doubling search for `#` reaches it; a length is asked for between traversals (`LengthBetweenVisits`), which it neither reads nor changes. The theorems have no bound |
| `lua_collector` | is exactly what is reachable kept? | besides main thread and globals three addresses in five mixes (coroutine, closure and upvalue; weak keys or values with a userdata or a string; two userdata, one made by the other's finalizer), stacks of 2 slots: an object can be moved from where the collector has not been to where it has, and the address of a freed object be used again |
| `lua_calls` | do all ways out of a call leave the accounts right? | at most 4 C calls and one more for error handling, 5 frames (`BASIC_CI_SIZE` 5): both overflow within a few calls, the frames are resized; 2 coroutines that can resume themselves and each other; five scripts: protected calls with closures, a coroutine with closures, two coroutines that nest, two that fail, a coroutine with a handler |
| `lua_language` | does a compiled program do what it means, does its chunk load back, does it pass the checks; are the scanner and the libraries right? | 8415 programs: `and`, `or`, `not` and comparisons two operators deep as values and as conditions; assignments to several targets; loops with closures and breaks; functions called in every position; constructors; arithmetic; strings; methods; calls whose arguments begin a line; the limits. 14 registers, 9 locals, 3 upvalues, 2 constants an operand can name, 2 items per flush, 2 batches that fit the operand, jumps of 18: each limit is reached. Texts of up to 5 characters after a beginning; lines up to 4 (`MAX_INT` 5); subjects of up to 5 and patterns of a few items, 2 captures, replacements of every kind and with every kind of value; lists of up to 7 elements with every relation for the order, of up to 5 with every relation on the elements and nil |
| `paragraph_assert`, `plays_specified` | does the code do what its assertion or comment says? | the instances above |
| `and_or` | does a conjunction three operators deep mean what it should? | 1024 conjunctions of constants |

What the properties say beyond the obvious:

- `ImplementsBoundary` allows an assertion to fail only below two records, or a
  read past the end of the text. `ReturnsRank`: in suffix order the result is the
  number of records below the word, but 1 when there is none, because record 1
  is never compared; `CountsOccurrences` shows what follows: exactly the
  smallest suffix of the whole index is missed, and only by a word that is below
  all others. Of an index cut short it counts what there is.
- `LoadsOneMore`: n records load as n + 1, and however the file is cut every
  loaded position stays inside the text; both readers agree below half the width.
- `FirstOfClassKept`, `OrderServesSearch`: without NUL no suffix is lost; the
  C++ order puts the entries whose first bytes are below a word, as Lua compares
  them, first.
- `SelectsLine` needs a text that begins with no blank and ends with a newline
  (the distributed texts do); even then a first line is shown from its second
  byte. With a file cut short a selection may show a line before the right one.
- `HitsAreTheOccurrences`: besides the occurrences, the bounds may hold or miss
  the last record and the made-up element, which may be a position of the text,
  and nothing else. For the file
  `"A\n\nb"` and the word `a` the program prints the rows `A`, `b`, `A`.
- `TableShowsSearch`: with a clean Lua stack every row has its position, the box
  names the rows unless its search raised, and the header counts the hits of the
  word in the box. `TextShowsTappedRow`: a tapped row opens its own paragraph;
  `OnlyRaisingTapsLeak`: failed searches never dirty the stack. The premise is
  real: after a selection that raises, the text screen takes the error message
  for the title.
- `LoadedSoundPlays` holds although failed loads leave numbers of other effects
  in the dictionary, because a number that was loaded is kept as long as its
  effect. It would not hold if a purge kept the numbers, or if unloading went by
  index as in the commented-out original.
- `PlaysInOrder` is about what is heard, across the end of the file, lost buffers
  and changes of track; `OneQueue` holds in every state, errors included.
- `HoldsDict` and `BrentsVariation` relate the nodes to what was assigned
  whatever collided, moved and was rehashed; `LengthIsBorder` is about tables
  with holes; `TraversalExact` about traversals whose keys die on the way.
- `ReachableSurvives` says nothing reachable is freed or condemned,
  `BlackToNoWhite` is the invariant that the barriers keep in the mark phase (one
  exception, userdata left black by the cycle that finalizes them, is in the
  property), `WeakEntriesLive` is about weak tables, `FinalizedOnce` and
  `FullCollects` about steps: a finalizer runs once and before its userdata is
  freed; the atomic step of a full collection, from whatever phase it was asked
  for, condemns all that is out of reach, and none of it is left when the
  collection ends. That nothing unreachable is left then, which holds on the
  small instance, is false in general: the value of a weak table's entry whose
  key is collected is marked, and stays for one cycle more (`lgc.c:344`).
- `CStackAccounted`: `nCcalls` of every active thread is the number of C calls
  there are, and its frames are those its activations run, also while an error is
  on its way. `UpvalsInStack`, `HandlerIsNearest` and `StatusTruthful` are the
  accounts of open upvalues, error handlers and coroutines.
- `CompiledMeansSource` compares calls made, results and errors of the executed
  code with the program's meaning, and says that a program is refused only at a
  limit, or for a parenthesis that begins a line and might continue a call. `AssertionsHold` is the code's own: `luaG_checkcode` accepts all that is
  compiled, and the top of the stack between instructions is the frame's.
  `ChunkLoadsBack` cuts each program's chunk after every block.
- `TokensAreLongest`, `MatchIsFirst`, `GsubFollowsGmatch` and `ListsKept` compare
  with definitions that do not follow the code: the longest word of the grammar,
  the set of all matches, what the matches of `gmatch` make of a replacement, permutations. `gsub` raises
  when a capture the replacement names does not exist, or a table or function
  gives neither a string nor a number, nil nor false, as far as its limit lets it
  come; and else only when `gmatch` does.

Deadlock is checked where the program can always go on (`search_app`,
`lua_tables`, `lua_calls`); the other models end with the call or script they
model, the application's with its termination, the collector's with
`lua_close`, and `file_search` ends where a session has nothing to select and
searches change nothing.

**Fairness.** A loop of the scripts or of C++ never blocks, so `LowerBound` and
`ParagraphLookup` assume weak fairness of their next step, which `EveryCallEnds`
needs. `resource_manager` assumes it of the main thread's steps within a call and
of its callbacks (`MainStep`: one thread that runs on, over a run loop that
delivers what is due) and of `BufferPlayed` (a started queue plays what it has),
never of the calls that change the music. Neither fairness lets a step that may
fail succeed, so `Repeats` is about a track without failures. All else is driven
by a user or a script who may stop; nothing but safety is claimed of it, and it
assumes none.

## What is proved

`tlapm` checks these theorems for all values of the constants; TLC checks the
properties they name on small instances too.

| theorem | states | what it says, for every text, word, file and order of calls |
|---|---|---|
| `RankReturned` | `ReturnsRank` | in an index in suffix order `lower_bound` returns the number of records below the word, or 1 |
| `Refinement` | `ImplementsBoundary` | `lower_bound` implements `Boundary`, on tables in any order |
| `ParagraphFound` | `FindsParagraph` | the last paragraph at or before a position is found |
| `LoadedWithOneMore` | `LoadsOneMore` | however the file is cut, its whole records and one element more are loaded |
| `OccurrencesFound` | `HitsAreTheOccurrences` | the search in memory finds the occurrences, but for the last record and the element made up, wherever the index file is cut |
| `FirstKept`, `InOrder`, `ServesSearch` | `FirstOfClassKept`, `WrittenInOrder`, `OrderServesSearch` | the index has the first of each class of equal suffixes, in order, in an order the searches can use |
| `RowsShown`, `EveryOccurrenceCounted`, `LineSelected` | `RowsAreHits`, `CountsOccurrences`, `SelectsLine` | rows are occurrences, counts are right but for the smallest suffix and what has not reached the file, a selection shows its line, or with files cut short none after it |
| `TableIsOfOneSearch`, `TextIsOfTappedRow`, `OnlySelectionLeaks` | `TableShowsSearch`, `TextShowsTappedRow`, `OnlyRaisingTapsLeak` | screens and Lua agree as long as the Lua stack is clean, and what makes it dirty |
| `OwnSoundPlays`, `NothingLeft` | `LoadedSoundPlays`, `NothingLeftBehind` | a loaded sound is the one heard; termination leaves no effect |
| `MusicInOrder`, `OnlyQueue` | `PlaysInOrder`, `OneQueue` | the packets are heard in order; one queue at most is alive |
| `CStackIsAccounted` | `CStackAccounted` | the count of C calls and the frames of every Lua thread are true of the C stack, through errors, overflows and yields |
| `UpvalsStayInStack` | `UpvalsInStack` | an open upvalue is the register of a function that has not returned, in coroutines that failed too |
| `NearestHandlerInvariant` | `HandlerIsNearest` | errors go to the handler of the nearest protected call of their own thread, which is still in its slot |
| `StatusIsTruthful` | `StatusTruthful` | `coroutine.status` tells what has happened to a coroutine |
| `KeysGiveWhatWasAssigned` | `HoldsDict` | every key of a Lua table gives what was last assigned to it, for any keys and hashes and however often it was rehashed; a resize has a node for all it puts back |
| `CollidersAreAtHome` | `BrentsVariation` | an element outside its main position collides with one that is in its own |
| `LengthsAreBorders` | `LengthIsBorder` | the length of a table, with holes too, is a border |
| `TraversalsAreExact` | `TraversalExact` | a traversal keeps its place when keys are cleared and die, and returns each key that stays once |
| `ReachableIsKept` | `ReachableSurvives` | between any two steps of a script, nothing it can reach is freed or condemned, for any heap of any mix of kinds |
| `BarriersKeepTheInvariant` | `BlackToNoWhite` | in the mark phase no black object refers to a white one |
| `WeakEntriesAreLive` | `WeakEntriesLive` | a weak table never gives a script an object that is gone |
| `FinalizersRunOnce` | `FinalizedOnce` | a finalizer runs once, and before its userdata is freed |
| `FullCollectionsCollect` | `FullCollects` | a full collection condemns and frees all that is out of reach |

Also proved: no assertion of the two loops fails over two records or more
(`AssertionsHold`, `LookupAsserts`), each turn halves the bracket
(`HalvesEveryTurn`), a packed record unpacks to the same position for every byte
size (`RoundTrip`), C++'s int holds the lower half of them
(`IntHoldsLowerHalf`), and no suffix of a text without NUL is lost (`NothingLost`).

Each rests on an inductive invariant, a theorem of its own. TLC finds it to hold
before it is proved; what it adds to the property is what makes it inductive:

- `LowerBound` (`Inductive`), `ParagraphLookup` (`LookupInductive`): the record
  at `n1` was found below (at or before the position) or is the first, the one at
  `n2` not or does not exist, and `size = n2 - n1` with at least two records left
  when a turn starts. Without the last two the probe could not be shown to fall
  inside the bracket.
- `IndexFile` (`LoaderInductive`): what is loaded are the first records of the
  file, `got` bytes of the next are in `x`, and the file is a beginning of what
  was written. The last turn of the outer loop, which finds no byte, adds the
  element too many.
- `MemorySearch` (`MemoryInductive`): all but the made-up last element are in
  order (`RecordsInOrder`), and one element out of order misleads only the probes
  that meet it. So both algorithms keep, of the records before and after their
  bracket, that they are below the word and not (`LowerHalved`, `UpperHalved`),
  except that the last record may be on the wrong side; this gives `LowerFound`
  and `UpperFound` when they end, and `RowsSoFar` follows the rows.
- `Indexer` (`IndexInductive`): what is left to write follows all that is
  written, and the two make up the set.
- `FileSearch` (`SessionInductive`): both files are beginnings of what `mkindex`
  makes of the text (`FilesAreMade`); the rows are those of the bounds of the
  word they belong to (`RowsOfWord`, `CountOfWord`), the paragraph shown is the
  one of the row last selected (`SelectedRow`). The properties follow from facts
  on texts: a record's place is its rank; between the bounds of a word are the
  records that begin with it (`HitsBetweenBounds`), of which there are as many
  as occurrences (`HitsCounted`); the records of a newline are where the lines
  end (`NewlinesFound`), so that the paragraph index has the line starts but the
  first (`ParagraphsStart`).
- `SearchApp` (`Invariant`): table, box, header and text belong to one search and
  one tap, unless the stack is dirty, for each screen.
- `SoundEffects` (`SoundsInductive`): every effect is remembered
  (`EffectsTracked`) and every loaded number an effect of its file
  (`NumbersKept`). The first makes a purge reach all effects; without the second
  a purge or a load could not be shown to leave the numbers right.
- `BackgroundMusic` (`ManagerInvariant`): the buffers not yet taken back are
  filled from the track one after the other (`FilledFromTrack`), a track that
  fits is whole in one buffer (`WholeInOneBuffer`), and where the read loop is
  says how far the track has been read (`ReadToTheEnd`).
- `LuaCalls` (`AccountsInvariant`): none of the four properties is inductive, for
  each relies on what the next return, error or resume finds. The invariant is
  `Correct`:
  - `Stacked`: what may stand on what on the C stack, the program's protected call
    at the bottom, and each thread's activations in one piece that begins with its
    `lua_resume`. So a step disturbs one thread only (`OthersKeep`), a coroutine is
    never resumed twice, and a yield that the count allows has only a
    `luaV_execute` between itself and `lua_resume` (`YieldUnder`).
  - each thread's `Accounts`: `nCcalls`, `baseCcalls` and the counts remembered by
    `luaD_pcall` (`Counted`); which activation runs which frames (`Framed`); where
    the frames lie in the stack, those of a protected call over its handler and
    the others under it (`LaidOut`, `Fits`), without which putting back `ci` and
    the stack's top after an error could not be shown to leave the frames their
    registers; open upvalues (`Captured`) and handlers (`Handled`), with what
    `luaD_pcall` remembers to put back.
  - `ModeFits`: where control may be when an action ends, so that a message is
    always on top of the stack when one is raised, and someone is there to return
    to.
  - `Lives`: a coroutine that is not on the C stack is new, has yielded, has an
    empty stack, or has failed, with the frames and upvalues it had; one that is
    there has begun. `costatus` reads just that.

  A step is an operation on a machine (thread, C stack, mode), and the proofs
  follow the C functions: a lemma for each of `luaD_precall`, `luaD_call`,
  `luaD_pcall`, `luaD_poscall`, `luaF_close` and the rest says what it leaves of
  the accounts, and an action's proof cites those of the calls it makes.
- `LuaTable` (`TablesInvariant`): what the scripts see says too little of the nodes
  to be inductive. `IInv` adds:
  - `Shape`, of the table alone: no two nodes have the same next, no chain is a
    circle and none has an unused node (`Linked`); a key, dead or not, is in the
    chain of its main position, where a key stands that is in its own (`Hashed`);
    a key that is not dead is in one node, and dead ones with its address are
    further down the same chain (`Distinct`: an object's key may die in one node
    and be assigned again in another); from `lastfree` on nothing is free
    (`FreeList`). A chain before and after `newkey` differs by one node
    (`BehindLinks`).
  - `Restoring`, during a resize: every key gives what was assigned to it or waits
    in `old` or `pending`, once.
  - `Room`: the nodes in use and the keys that wait and do not belong in the array
    are no more than the nodes. `rehash` establishes it, because `computesizes`
    counts just the keys that will be found in the array part (`RoomForAll`), so that no resize
    needs another one.
  - `Searching`: each loop of `luaH_getn` has a present index below an absent one.
    `Visiting`: a traversal has returned what stayed up to its place, and nothing
    beyond it.
- `LuaGC` (`CollectorInvariant`): none of the five properties is inductive, for a
  sweep frees by colour what only the marking knew to be out of reach. `IInv` says
  of every phase what the marks mean:
  - `Placed`: open upvalues are of threads that are there, environments are
    tables, closures have upvalues; `Blank`: what is not allocated is white, on no
    list, and refers to nothing.
  - `Safe`: what is there and not condemned holds nothing that is condemned or
    gone; neither do the roots and the userdata that wait for a finalizer.
  - `Finalizing`: a userdata with the `FINALIZEDBIT` waits for its finalizer, in
    one place of the list, or has had it.
  - `Sweeping`: what is condemned is still to be swept; outside the mark phase
    everything else is white but for what is still to be swept and userdata that
    wait. `Painted`: no open upvalue is black, no userdata gray.
  - `Marking`, in the mark phase: the gray objects are those on the lists, each on
    its own (`Listing`), and what a marked object refers to is marked, unless the
    object waits on a list (`BlackBut`): this is what the barriers keep. The
    atomic step is proved along its parts (`remarkupvals`, the weak lists, the
    running thread, `grayagain`, `luaC_separateudata`), each of which keeps
    `BlackBut` for what it leaves on the lists (`MarkedRest`).

  Full collections add `FullMarks`: what is marked is within what can be reached,
  since no script runs between their mark steps (`Within` is kept by each part
  of the marking, because the reachable set is closed under references). The
  proofs follow the C functions here too; that marking adds nothing beyond a
  closed set and leaves no reference behind are facts on the least closed set
  (`MarkValues`, `PropagateAll`, `ReachableLeast`) and need no induction.

The lemmas on texts are in `SourceTextProofs`: the comparisons are irreflexive,
transitive and, on the suffixes of a text without NUL, total; prefixes keep the
order; what lies between two suffixes that begin with a word begins with it
(`PrefixesBetween`, `OccursBetween`); a suffix array is in order and complete
(`SuffixArrayOrdered`, by ranks, since an induction over its construction is out
of reach). `IndexReadersProofs`, `FileSearchProofs`, `LuaTableProofs`,
`LuaCallsProofs` and `LuaGCProofs` have the theorems of the modules they are
named after, `FileSearchProofs` also those of `Indexer`, which writes the index it
reads, and `AppProofs` those of the application: its screens and its sounds.

**Assumptions**: only the named `ASSUME`s of the modules, which TLC evaluates in
the runs. Bounds and limits are natural numbers. Texts are UTF-8, which has no
byte 255, and have positions that fit an int, as records read in Lua and C++ need
(for the search in memory: are of at most half the positions a record holds);
those of `FileSearch` have no NUL; words of the search in memory have neither NUL
nor newline, since they are C strings typed on one line. No theorem assumes a
bound on the number or the length of texts, words, files, sounds or packets, nor
on coroutines, scripts, calls, frames, objects or keys; the limits of `LuaCalls` are any
natural numbers.

**Only model-checked**: liveness (`EveryCallEnds`, `Repeats`), which needs fairness
and `ENABLED`; and the seven properties of `lua_language`, because the parser, the
code generator, the chunks, the scanner and the libraries are recursions over data,
whose modules declare `RECURSIVE` operators the prover cannot use. That each search
for `#` and each resize ends is not stated.

## Disagreements found

| run | the repository says | the code does |
|---|---|---|
| `paragraph_assert` | `indexer.lua:113` `assert (n2 > m)` | fails for the paragraph index of a one-paragraph text |
| `plays_specified` | `ResourceManager.m:140` "play specified file." | after a failed load it may play another: `getSound` remembers an unassigned number |
| `and_or` | `lua-5.1.4/doc/manual.html:1039` "The conjunction operator `and` returns its first argument if this value is `false` or `nil`" | `((nil and nil) or false) and nil` gives `nil`, and `((1 or 2) and false) and 3` gives 1, where the first argument is `false`: a constant operand is coded as a plain jump, which takes over the jumps still pending, so that their value is given in its place (`lcode.c:547`; 575 does the same for `true` under `or`) |

The models show more, which no run is spent on:

- `test/index_test.lua:23` asserts `nextp > testpos`: a paragraph is missing when
  the text does not end with a newline or begins with a blank (`SelectsLine`);
  line 22 asserts `p <= testpos`: a hit at position 0 gets a paragraph that
  begins at 1.
- `indexer.lua:145` calls `lower_bound`'s result "minimum x; str(x) < word": it
  is the maximum (`ReturnsRank`).
- `SoundEngine.h:230` "Releases all resources associated with the given effect
  ID": no OpenAL buffer is ever deleted (`Unload` leaves `buffers` alone).
- `LoadTrack` (`SoundEngine.cpp:805`) deletes a track whose set-up failed and
  leaves it in `mBGFileInfo`, so the next unload, or a callback, uses and
  deletes it again (the state `undefined`).
- Loading a track without packets never returns (`SoundEngine.cpp:586`), if
  reading at its end gives no packets and no error, as line 596 takes it:
  `ReadNothing` and `Rewind` alternate for ever.
- The manual (2.10.2) says that a table with weak keys loses a pair when its key
  is collected; the value is marked as strong all the same (`lgc.c:344`), so a
  value that refers to its own key keeps the pair for ever.
- So does a value that nothing refers to but a pair whose key is collected: the
  atomic step of a full collection has marked it, and it stays until the next
  one (`FullCollects`).
- A weak key that is userdata to be finalized is kept until after its finalizer,
  and a userdata that waits in `tmudata` may be black although nothing marks it
  again: what `BlackToNoWhite` has to leave out. `lua_close` runs all
  finalizers, but not those of userdata that the last of them made.
- An error in an error handler calls the handler again, for the new message
  (`ldebug.c:624`), and so on until the C stack is used up; only that gives
  `LUA_ERRERR`, as does a handler that is no function. A coroutine whose very first resume is refused for lack of C stack
  has lost its function and is dead from then on (`StatusTruthful`).
- The scanner refuses `[[` inside a long string of level 0
  (`LUA_COMPAT_LSTR`), and after a token was read ahead `lastline` is the line
  of that token and not of the last one consumed, as `llex.h:58` says.
- `gsub` accepts a pattern that ends in an unfinished `(` when no match needs
  it, takes a `%` at the end of the replacement for a NUL, and `check_next`
  takes the NUL after the numeral for one of the characters it looks for.
- `sort` with a function that is no order compares elements outside the list
  before it raises "invalid order function" (`ltablib.c:226`), and exchanges
  them with its own: when the function takes nil, an element may be left beyond
  the end of the list and a nil in its place.
- `{f` and `(1)}` on the next line are a call, although the manual forbids the
  line break (2.5.8, `manual.html:1241`): the token after a name in a
  constructor has been read ahead, and with it its line (`lparser.c:616`).
- `gsub` raises for a `%2` without a second capture only when it comes to a match
  (`lstrlib.c:472`), and for a table whose value is `true` only when that is looked
  up (`lstrlib.c:639`).

## Not modelled

- `search_begin_of_paragraph_on_file`: no caller is left.
- Texts with NUL beyond `Indexer`: Lua 5.1's line reading cuts them its own way.
- Sessions on files cut inside a record: `IndexFile` and `MemorySearch` have the
  reading of such a file, `FileSearch` cuts between records.
- Positions and lengths from 2^31 on, except in `Records`.
- A failing `indexer.lua` at start (`initialize_lua`), which is in the bundle;
  words outside ASCII, which the keyboard asked for does not type; memory
  errors.
- Retain counts, animations, the keyboard's focus, the timer loop (its
  `Update` and `Render` are empty).
- Of `ResourceManager` the textures (a cache that is filled and emptied), the
  storage, which nothing writes to, the font and the bundle's data; the OpenGL
  code, which no screen uses.
- Of `SoundEngine` what `ResourceManager` never calls: looping effects and their
  thread, playlists of several tracks, stopping at the end, volumes and
  positions. The screens at this commit call none of the sound methods either;
  the manager is modelled for the calls it offers to them.
- What a device does with sources and buffers it cannot give beyond the error;
  the size of a sound; the run loop inside a call.
- The xib files, the generated wrapper; the wrapper's `luaopen_sufarr` is taken
  to leave the Lua stack as it found it.
- Of Lua: metatables and metamethods, hooks, memory errors from a particular
  allocation, the pacing of the collector (a step may come anywhere, which
  includes every pacing), the resizing of stacks and buffers, the texts of error
  messages; numbers other than small integers (`/` rounds down), characters
  beyond those the texts of the runs use, the locale.
- Order and replacement functions that have effects of their own, as on the list
  being sorted, and order functions that raise other than for a nil.
- Of Lua's libraries what passes values to the C library and back or is one
  loop: `io`, `os`, `math`, `debug`, `package`; `string.format`, `rep`, `byte`,
  the changes of case; `table.concat`, `foreach`, `maxn`; the API's stack
  functions, except as `SearchApp` and `LuaCalls` need them. `lua` and `luac`,
  the stand-alone programs, are not in the application.

## The plan

Done: 1 `Bisection`, `LowerBound`, `Boundary`; 2 `ParagraphLookup`; 3 `Records`,
`IndexFile`; 4 `SourceText`, `Indexer`; 5 `FileSearch`; 6 `MemorySearch`; 7
`SearchApp`; 8 `SoundEffects`; 9 `BackgroundMusic`, `ResourceManager`; the
theorems of all these; 10 `LuaTable`, 11 `LuaGC` and 12 `LuaCalls`, each with its
theorems; 13 `LuaCode`, `LuaParser`, `LuaVM`, `LuaMeaning` and the programs; 14
`luaG_checkcode`, `LuaChunk`; 15 `LuaLexer`; 16 `LuaStrings`, `LuaLibrary`.

Next:

1. `ViewLifecycle`: `doStateChange` with retain counts and the delegates of
   table and search bar, the release of a screen inside its own handler.
2. A module that composes `FileSearch` and `SearchApp` (a session's hits from
   texts, not from a constant), with `SearchApp` as the abstract specification.
3. Metamethods in `LuaVM`, and errors caught inside a compiled program: the
   composition of `LuaVM` with `LuaCalls`.
4. `str_format` and `luaL_Buffer`.
