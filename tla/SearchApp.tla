----------------------------- MODULE SearchApp -----------------------------
(***************************************************************************)
(* The iPhone application: three screens that share one Lua state.  Every  *)
(* screen is built anew when it is shown and gets all it knows by running  *)
(* Lua chunks (exec_lua) and reading their results off the Lua stack, by   *)
(* absolute index.  One action is one event handler of the main thread.    *)
(* What search_on_file and select_item compute is in module FileSearch;    *)
(* here a word has a list of hits, and a chunk may fail.                   *)
(***************************************************************************)
EXTENDS Integers, Sequences, FiniteSets

CONSTANTS
  Hits,          \* word |-> the positions it is found at, in index order
  Malformed,     \* words that make the chunk they are pasted into no Lua
  Raising,       \* words whose search raises
  NoSpace,       \* positions whose line has no space: no title, no body
  Unselectable,  \* positions whose selection raises
  RowLimit,      \* 10 in get_result_texts: rows beyond the first
  MaxLeft        \* bound on the messages left on the Lua stack

NoWord == ""
Words == DOMAIN Hits \union Malformed \union Raising \union {NoWord}
Positions == UNION {{Hits[w][k] : k \in DOMAIN Hits[w]} : w \in DOMAIN Hits}

ASSUME WordsAssumption ==
  /\ NoWord \notin DOMAIN Hits \union Malformed \union Raising
  /\ DOMAIN Hits \cap (Malformed \union Raising) = {}
  /\ Malformed \cap Raising = {}
ASSUME HitsAssumption == \A w \in DOMAIN Hits : Hits[w] \in Seq(Nat)
ASSUME BoundsAssumption == RowLimit \in Nat /\ MaxLeft \in Nat

VARIABLES
  screen,        \* "none", "search", "text" or "about"
  luaUp,         \* L # NULL
  stack,         \* the Lua stack, index 1 first
  word, count, positions, lines,    \* last_search_word, ..., last_text_list
  paragraph,     \* <<last_title, last_body>>, <<>> when nil
  items,         \* searchResultsArray
  box,           \* searchbar.text
  header,        \* the number in the title of the table
  laidOut,       \* the table has been laid out since it was reloaded
  title, body,   \* the text screen
  tapped         \* history: the row tapped last, as it was shown

session == <<word, count, positions, lines>>
table == <<items, box, header>>
textScreen == <<title, body, tapped>>
screenVars == <<screen, luaUp, stack, session, paragraph, table, laidOut, textScreen>>
-----------------------------------------------------------------------------
(* Lua values and the conversions the screens make.                        *)
Number(n) == <<"number", n>>
Text(w) == <<"word", w>>
Line(p) == <<"line", p>>
Message == <<"message">>
Dashes == <<<<"--">>, <<"---">>>>
NoText == <<>>

ToInteger(v) == IF v[1] = "number" THEN v[2] ELSE 0

(* exec_lua: the results on top of the stack and their number, or the      *)
(* error message and -1.                                                   *)
Returned(st, values) == [r |-> Len(values), stack |-> st \o values]
Failed(st) == [r |-> -1, stack |-> Append(st, Message)]

PopKeepsOnError(st, r) == IF r < 0 THEN st ELSE SubSeq(st, 1, Len(st) - r)

(* lua_pop (L, r), which is lua_settop (L, -r - 1): all of it for r = -1.  *)
Pop(st, r) == IF r < 0 THEN <<>> ELSE SubSeq(st, 1, Len(st) - r)

Rows(w) ==
  LET n == Len(Hits[w])
  IN  SubSeq(Hits[w], 1, IF n <= RowLimit THEN n ELSE RowLimit + 1)

LinesOf(ps) == [k \in DOMAIN ps |-> Line(ps[k])]

(* What selecting the row at a position makes of last_title and last_body. *)
ParagraphOf(p) ==
  IF p \in NoSpace THEN <<>> ELSE << <<"title", p>>, <<"body", p>> >>

(* get_paragraph.                                                          *)
Shown(par) == IF par = <<>> THEN Dashes ELSE par
-----------------------------------------------------------------------------
ScreensInit ==
  /\ screen = "none" /\ luaUp = FALSE /\ stack = <<>>
  /\ word = NoWord /\ count = 0 /\ positions = <<>> /\ lines = <<>>
  /\ paragraph = <<>>
  /\ items = <<>> /\ box = Text(NoWord) /\ header = 0 /\ laidOut = FALSE
  /\ title = NoText /\ body = NoText /\ tapped = NoText

ShowSearchWordFirst ==
  /\ screen' = "search" /\ laidOut' = FALSE
  /\ LET found == Returned(stack, <<Text(word)>> \o lines)
     IN  /\ items' = [k \in 1 .. found.r |-> found.stack[k]]
         /\ box' = found.stack[1]
         /\ stack' = Pop(found.stack, found.r)
  /\ UNCHANGED <<luaUp, session, paragraph, header, textScreen>>

(* doStateChange to a new gsSearchScreen, which runs searchScreenMain: the *)
(* previous results come back, then the word they were found for.          *)
ShowSearch ==
  /\ screen' = "search" /\ laidOut' = FALSE
  /\ LET found == Returned(stack, lines)
         asked == Returned(Pop(found.stack, found.r), <<Text(word)>>)
     IN  /\ items' = [k \in 1 .. found.r |-> found.stack[k]]
         /\ box' = asked.stack[1]
         /\ stack' = Pop(asked.stack, asked.r)
  /\ UNCHANGED <<luaUp, session, paragraph, header, textScreen>>

(* applicationDidFinishLaunching: the first search screen starts Lua.      *)
Launch ==
  /\ screen = "none" /\ ~ luaUp
  /\ screen' = "search" /\ luaUp' = TRUE /\ laidOut' = FALSE
  /\ UNCHANGED <<stack, session, paragraph, table, textScreen>>

(* The process ends, and with it everything Lua has kept.                  *)
WillTerminate ==
  /\ screen # "none"
  /\ screen' = "none" /\ luaUp' = FALSE /\ stack' = <<>>
  /\ word' = NoWord /\ count' = 0 /\ positions' = <<>> /\ lines' = <<>>
  /\ paragraph' = <<>>
  /\ items' = <<>> /\ box' = Text(NoWord) /\ header' = 0 /\ laidOut' = FALSE
  /\ title' = NoText /\ body' = NoText /\ tapped' = NoText

TableReady == screen = "search" /\ laidOut

(* titleForHeaderInSection, when the table is laid out.                    *)
Header ==
  /\ screen = "search" /\ ~ laidOut
  /\ LET asked == Returned(stack, <<Number(count)>>)
     IN  /\ header' = ToInteger(asked.stack[1])
         /\ stack' = Pop(asked.stack, asked.r)
  /\ laidOut' = TRUE
  /\ UNCHANGED <<screen, luaUp, session, paragraph, items, box, textScreen>>

(* search_and_update_table: the rows are emptied, then filled from the     *)
(* absolute indices 2 .. r; the table is reloaded.                         *)
UpdateTable(w, result) ==
  /\ box' = Text(w)
  /\ items' = [k \in 1 .. result.r - 1 |-> result.stack[k + 1]]
  /\ stack' = Pop(result.stack, result.r)
  /\ laidOut' = FALSE
  /\ UNCHANGED <<screen, luaUp, paragraph, header, textScreen>>

(* textDidChange, by what becomes of the chunk.                            *)
Clear ==
  /\ TableReady
  /\ count' = 0
  /\ UpdateTable(NoWord, Returned(stack, <<Number(0)>>))
  /\ UNCHANGED <<word, positions, lines>>

Type(w) ==
  /\ TableReady
  /\ word' = w
  /\ positions' = Rows(w) /\ lines' = LinesOf(Rows(w)) /\ count' = Len(Hits[w])
  /\ UpdateTable(w, Returned(stack, <<Number(count')>> \o lines'))

(* The chunk does not load: search_on_file is not called.                  *)
TypeMalformed(w) ==
  /\ TableReady
  /\ UpdateTable(w, Failed(stack))
  /\ UNCHANGED session

(* search_on_file raises, with the word remembered already.                *)
TypeRaising(w) ==
  /\ TableReady
  /\ word' = w
  /\ UpdateTable(w, Failed(stack))
  /\ UNCHANGED <<count, positions, lines>>

(* doStateChange to a new gsTextScreen, after the chunk of the tapped row. *)
ShowText(result) ==
  /\ screen' = "text"
  /\ LET shown == Returned(result.stack, Shown(paragraph'))
     IN  /\ title' = shown.stack[1] /\ body' = shown.stack[2]
         /\ stack' = Pop(shown.stack, shown.r)
  /\ laidOut' = FALSE
  /\ UNCHANGED <<luaUp, session, table>>

TapNextRow(k) ==
  /\ TableReady
  /\ positions[k] \notin Unselectable
  /\ paragraph' = ParagraphOf(positions[IF k < Len(positions) THEN k + 1 ELSE k])
  /\ tapped' = items[k]
  /\ ShowText(Returned(stack, <<>>))

(* didSelectRowAtIndexPath: select_item, whose result nobody looks at.     *)
Tap(k) ==
  /\ TableReady
  /\ positions[k] \notin Unselectable
  /\ paragraph' = ParagraphOf(positions[k])
  /\ tapped' = items[k]
  /\ ShowText(Returned(stack, <<>>))

TapRaises(k) ==
  /\ TableReady /\ Len(stack) < MaxLeft
  /\ positions[k] \in Unselectable
  /\ tapped' = items[k]
  /\ UNCHANGED paragraph
  /\ ShowText(Failed(stack))

(* aboutButtonTapped, and the buttons back.                                *)
About ==
  /\ TableReady
  /\ screen' = "about" /\ laidOut' = FALSE
  /\ UNCHANGED <<luaUp, stack, session, paragraph, table, textScreen>>

Back == screen \in {"text", "about"} /\ ShowSearch

ScreensNext ==
  \/ Launch \/ WillTerminate \/ Header \/ About \/ Back \/ Clear
  \/ \E w \in DOMAIN Hits : Type(w)
  \/ \E w \in Malformed : TypeMalformed(w)
  \/ \E w \in Raising : TypeRaising(w)
  \/ \E k \in DOMAIN items : Tap(k) \/ TapRaises(k)

ScreensSpec == ScreensInit /\ [][ScreensNext]_screenVars
-----------------------------------------------------------------------------
Clean == stack = <<>>

(* Every row of the table has a position in Lua, so that select_item never *)
(* finds none, whatever failed before and whatever the stack holds.        *)
RowHasPosition == screen = "search" => Len(items) <= Len(positions)

(* Whatever searches fail, whatever order the screens come in: the rows in *)
(* the table are those of the word in the box, and a word that Lua still   *)
(* remembers has all its rows.  Two exceptions: the box names a word whose *)
(* search raised (the rows are then older), or a message was left on the   *)
(* stack by a selection that raised.                                       *)
BoxNamesRows ==
  screen = "search" /\ Clean /\ (\A w \in Raising : box # Text(w)) =>
    /\ items # <<>> => \E w \in DOMAIN Hits : box = Text(w) /\ items = LinesOf(Rows(w))
    /\ box = Text(word) => items = lines

(* The number over the rows is that of all hits of the word in the box,    *)
(* shown or not; or 0, after the empty word has cleared the count and      *)
(* another screen has been shown, which brings the old rows back.          *)
HeaderCountsHits ==
  TableReady /\ Clean /\ items # <<>> /\ (\A w \in Raising : box # Text(w)) =>
    \/ header = 0
    \/ \E w \in DOMAIN Hits : box = Text(w) /\ header = Len(Hits[w])

(* The text screen shows the paragraph of the row as the user saw it when  *)
(* tapping it.                                                             *)
TextShowsTappedRow ==
  screen = "text" /\ Clean =>
    \E p \in Positions :
      tapped = Line(p) /\ <<title, body>> = Shown(ParagraphOf(p))

(* What the table, the box and the header show is of one search, with the  *)
(* exceptions named: these are kept in three places, in the screen and in  *)
(* Lua (gsSearchScreen.m:105, 119, 127).                                   *)
TableShowsSearch == RowHasPosition /\ BoxNamesRows /\ HeaderCountsHits

(* Only a selection that raises leaves something on the stack; all else,   *)
(* failed searches included, leaves nothing that was not there.            *)
OnlyRaisingTapsLeak ==
  [][Len(stack') > Len(stack) =>
       \E k \in DOMAIN items : positions[k] \in Unselectable /\ tapped' = items[k]]_screenVars
=============================================================================
