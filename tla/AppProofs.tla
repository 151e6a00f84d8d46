----------------------------- MODULE AppProofs -----------------------------
(***************************************************************************)
(* Proofs about the app: the screens of SearchApp, for any words, hits and *)
(* bounds; then ResourceManager, first the sounds alone, for any files,    *)
(* sources and buffers, then the music, for any tracks and sizes of        *)
(* buffers, then both of them in one manager.                              *)
(***************************************************************************)
EXTENDS SearchApp, ResourceManager, TLAPS

(* The Lua values the search screen meets.                                 *)
Value ==
  {Message} \union {Number(n) : n \in Nat} \union {Text(w) : w \in Words}
            \union {Line(p) : p \in Positions}

(* What the screens and Lua keep between two handlers.                     *)
ScreensTypeOK ==
  /\ screen \in {"none", "search", "text", "about"}
  /\ stack \in Seq({Message})
  /\ word \in DOMAIN Hits \union Raising \union {NoWord}
  /\ count \in Nat
  /\ positions \in Seq(Positions)
  /\ lines = LinesOf(positions)
  /\ items \in Seq(Value)
  /\ paragraph = <<>> \/ \E p \in Positions : paragraph = ParagraphOf(p)

(* What Lua remembers is of one word: of the last one, unless its search   *)
(* raised.                                                                 *)
SessionIsOfWord ==
  /\ word \in DOMAIN Hits =>
       positions = Rows(word) /\ (count = 0 \/ count = Len(Hits[word]))
  /\ word = NoWord => positions = <<>>

(* With nothing left on the stack, rows on the screen are those that Lua   *)
(* remembers, and the box has the word it remembers.                       *)
ScreenFollowsSession ==
  /\ screen = "none" => items = <<>> /\ stack = <<>> /\ box = Text(NoWord) /\ word = NoWord
  /\ screen = "search" => Len(items) <= Len(positions)
  /\ screen = "search" /\ Clean =>
       /\ items # <<>> => box = Text(word) /\ items = lines
       /\ box = Text(word) /\ word \notin Raising => items = lines

ScreensInv ==
  /\ ScreensTypeOK /\ SessionIsOfWord /\ ScreenFollowsSession
  /\ HeaderCountsHits /\ TextShowsTappedRow
-----------------------------------------------------------------------------
(* What a chunk that succeeds puts on the Lua stack, lua_pop takes off.    *)
LEMMA PopsItsOwn ==
  ASSUME NEW S, NEW st \in Seq(S), NEW values \in Seq(S)
  PROVE  Pop(Returned(st, values).stack, Returned(st, values).r) = st
BY DEF Pop, Returned

(* The rows of a word are among the positions, no more than its hits.      *)
LEMMA RowsType ==
  ASSUME NEW w \in DOMAIN Hits
  PROVE  Rows(w) \in Seq(Positions) /\ Hits[w] \in Seq(Nat)
<1>1. Hits[w] \in Seq(Nat)
  BY HitsAssumption
<1>2. \A k \in DOMAIN Hits[w] : Hits[w][k] \in Positions
  BY DEF Positions
<1>3. Hits[w] \in Seq(Positions)
  BY <1>1, <1>2
<1> DEFINE n == Len(Hits[w])
           m == IF n <= RowLimit THEN n ELSE RowLimit + 1
<1>4. m \in 0 .. n
  BY <1>1, BoundsAssumption
<1>5. SubSeq(Hits[w], 1, m) \in Seq(Positions)
  BY <1>3, <1>4
<1> QED BY <1>1, <1>5 DEF Rows

(* The lines of some positions are values, one for each.                   *)
LEMMA LinesType ==
  ASSUME NEW ps \in Seq(Positions)
  PROVE  /\ LinesOf(ps) \in Seq(Value)
         /\ Len(LinesOf(ps)) = Len(ps)
         /\ \A k \in DOMAIN ps : LinesOf(ps)[k] = Line(ps[k])
<1>1. \A k \in DOMAIN ps : Line(ps[k]) \in Value
  BY DEF Value
<1> QED BY <1>1 DEF LinesOf

(* A search screen that comes up leaves the stack as it was; with nothing  *)
(* on it, the rows and the word are those Lua remembers.                   *)
LEMMA ShowSearchAnswers ==
  ASSUME ScreensTypeOK, ShowSearch
  PROVE  /\ stack' = stack /\ items' \in Seq(Value) /\ Len(items') = Len(positions)
         /\ stack = <<>> => items' = lines /\ box' = Text(word)
<1> DEFINE found == Returned(stack, lines)
           asked == Returned(Pop(found.stack, found.r), <<Text(word)>>)
<1>1. /\ stack \in Seq(Value) /\ lines \in Seq(Value) /\ Len(lines) = Len(positions)
      /\ <<Text(word)>> \in Seq(Value)
  <2>1. lines \in Seq(Value) /\ Len(lines) = Len(positions)
    BY LinesType DEF ScreensTypeOK
  <2>2. stack \in Seq(Value)
    BY DEF ScreensTypeOK, Value
  <2>3. Text(word) \in Value
    BY DEF ScreensTypeOK, Value, Words
  <2> QED BY <2>1, <2>2, <2>3
<1>2. Pop(found.stack, found.r) = stack
  BY <1>1, PopsItsOwn
<1>3. asked = Returned(stack, <<Text(word)>>)
  BY <1>2
<1>4. Pop(asked.stack, asked.r) = stack
  BY <1>1, <1>3, PopsItsOwn
<1>5. /\ items' = [k \in 1 .. found.r |-> found.stack[k]]
      /\ box' = asked.stack[1] /\ stack' = stack
  BY <1>4 DEF ShowSearch
<1>6. found.r = Len(lines) /\ found.stack = stack \o lines
  BY DEF Returned
<1>7. items' \in Seq(Value) /\ Len(items') = Len(positions)
  BY <1>1, <1>5, <1>6
<1>8. ASSUME stack = <<>>
      PROVE  items' = lines /\ box' = Text(word)
  <2>1. items' = lines
    BY <1>1, <1>5, <1>6, <1>8
  <2>2. asked.stack = stack \o <<Text(word)>>
    BY <1>3 DEF Returned
  <2> QED BY <1>1, <1>5, <1>8, <2>1, <2>2
<1> QED BY <1>5, <1>7, <1>8

(* A search that succeeds fills the table with as many rows as it has      *)
(* lines, these when nothing was on the stack, and leaves the stack.       *)
LEMMA TableFilled ==
  ASSUME ScreensTypeOK, NEW w, NEW n \in Nat, NEW ls \in Seq(Value),
         UpdateTable(w, Returned(stack, <<Number(n)>> \o ls))
  PROVE  /\ stack' = stack /\ items' \in Seq(Value) /\ Len(items') = Len(ls)
         /\ stack = <<>> => items' = ls
<1> DEFINE values == <<Number(n)>> \o ls
<1>1. stack \in Seq(Value) /\ values \in Seq(Value) /\ Len(values) = Len(ls) + 1
  <2>1. stack \in Seq(Value)
    BY DEF ScreensTypeOK, Value
  <2>2. Number(n) \in Value
    BY DEF Value
  <2> QED BY <2>1, <2>2
<1>2. stack' = stack
  BY <1>1, PopsItsOwn DEF UpdateTable
<1>3. items' = [k \in 1 .. Len(values) - 1 |-> (stack \o values)[k + 1]]
  BY DEF UpdateTable, Returned
<1>4. items' = [k \in 1 .. Len(ls) |-> (stack \o values)[k + 1]]
  BY <1>1, <1>3
<1>5. \A k \in 1 .. Len(ls) : (stack \o values)[k + 1] \in Value
  <2>1. stack \o values \in Seq(Value) /\ Len(stack \o values) = Len(stack) + Len(ls) + 1
    BY <1>1
  <2> HIDE DEF values
  <2> QED BY <1>1, <2>1
<1>6. items' \in Seq(Value) /\ Len(items') = Len(ls)
  BY <1>4, <1>5
<1>7. ASSUME stack = <<>>
      PROVE  items' = ls
  <2>1. \A k \in 1 .. Len(ls) : (stack \o values)[k + 1] = ls[k]
    BY <1>1, <1>7
  <2> QED BY <1>4, <2>1
<1> QED BY <1>2, <1>6, <1>7

(* A search that fails empties the table, and the stack with it.           *)
LEMMA TableEmptied ==
  ASSUME ScreensTypeOK, NEW w, UpdateTable(w, Failed(stack))
  PROVE  stack' = <<>> /\ items' = <<>>
BY DEF UpdateTable, Failed, Pop

(* The text screen shows what get_paragraph returns, when nothing was left *)
(* on the stack, and leaves the stack as it was.                           *)
LEMMA TextShown ==
  ASSUME NEW st \in Seq({Message}), NEW r, ShowText([r |-> r, stack |-> st]),
         paragraph' = <<>> \/ \E p \in Positions : paragraph' = ParagraphOf(p)
  PROVE  stack' = st /\ (st = <<>> => <<title', body'>> = Shown(paragraph'))
<1> DEFINE values == Shown(paragraph')
<1>1. PICK a, b : values = <<a, b>>
  BY DEF Shown, Dashes, ParagraphOf
<1> HIDE DEF values
<1>2. PICK S : S = {Message, a, b}
  OBVIOUS
<1>3. st \in Seq(S) /\ values \in Seq(S)
  BY <1>1, <1>2
<1>4. stack' = st
  BY <1>3, PopsItsOwn DEF ShowText, values
<1>5. title' = (st \o values)[1] /\ body' = (st \o values)[2]
  BY DEF ShowText, Returned, values
<1>6. ASSUME st = <<>> PROVE <<title', body'>> = values
  BY <1>1, <1>3, <1>5, <1>6
<1> QED BY <1>4, <1>6 DEF values

(* Nothing is remembered, shown or on the stack when the program starts.   *)
LEMMA InitGivesIInv == ScreensInit => ScreensInv
<1> SUFFICES ASSUME ScreensInit PROVE ScreensInv
  OBVIOUS
<1>1. ScreensTypeOK
  BY DEF ScreensInit, ScreensTypeOK, LinesOf
<1>2. SessionIsOfWord
  BY WordsAssumption DEF ScreensInit, SessionIsOfWord
<1>3. ScreenFollowsSession /\ HeaderCountsHits /\ TextShowsTappedRow
  BY DEF ScreensInit, ScreenFollowsSession, HeaderCountsHits, TableReady, TextShowsTappedRow
<1> QED BY <1>1, <1>2, <1>3 DEF ScreensInv

(* What the handlers that show the search screen again keep.               *)
LEMMA ShowSearchKeeps ==
  ASSUME ScreensInv, ShowSearch
  PROVE  ScreensInv' /\ stack' = stack
<1>1. /\ stack' = stack /\ items' \in Seq(Value) /\ Len(items') = Len(positions)
      /\ stack = <<>> => items' = lines /\ box' = Text(word)
  BY ShowSearchAnswers DEF ScreensInv
<1>2. ScreensTypeOK'
  BY <1>1 DEF ScreensInv, ScreensTypeOK, ShowSearch, session
<1>3. SessionIsOfWord'
  BY DEF ScreensInv, SessionIsOfWord, ShowSearch, session
<1>4. ScreenFollowsSession'
  <2>1. UNCHANGED <<word, positions, lines>> /\ screen' = "search"
    BY DEF ShowSearch, session
  <2>2. Len(items') <= Len(positions')
    BY <1>1, <2>1 DEF ScreensInv, ScreensTypeOK
  <2> QED BY <1>1, <2>1, <2>2 DEF ScreenFollowsSession, Clean
<1>5. HeaderCountsHits' /\ TextShowsTappedRow'
  BY DEF ShowSearch, HeaderCountsHits, TableReady, TextShowsTappedRow
<1> QED BY <1>1, <1>2, <1>3, <1>4, <1>5 DEF ScreensInv

(* What the header of the table keeps: with nothing on the stack it is the *)
(* number Lua remembers for the word in the box.                           *)
LEMMA HeaderKeeps ==
  ASSUME ScreensInv, Header
  PROVE  ScreensInv' /\ stack' = stack
<1> DEFINE asked == Returned(stack, <<Number(count)>>)
<1>1. /\ header' = ToInteger(asked.stack[1]) /\ stack' = Pop(asked.stack, asked.r)
      /\ UNCHANGED <<screen, word, count, positions, lines, paragraph, items, box>>
  BY DEF Header, session
<1>2. stack \in Seq(Value) /\ <<Number(count)>> \in Seq(Value)
  BY DEF ScreensInv, ScreensTypeOK, Value
<1>3. stack' = stack
  BY <1>1, <1>2, PopsItsOwn
<1>4. stack = <<>> => header' = count
  <2>1. ASSUME stack = <<>> PROVE asked.stack[1] = Number(count)
    BY <2>1 DEF Returned
  <2> QED BY <1>1, <2>1 DEF ToInteger, Number
<1>5. ScreensTypeOK' /\ SessionIsOfWord' /\ ScreenFollowsSession'
  BY <1>1, <1>3 DEF ScreensInv, ScreensTypeOK, SessionIsOfWord, ScreenFollowsSession, Clean
<1>6. HeaderCountsHits'
  <2> SUFFICES ASSUME Clean', items' # <<>>, (\A w \in Raising : box # Text(w))'
               PROVE  \/ header' = 0
                      \/ \E w \in DOMAIN Hits : box' = Text(w) /\ header' = Len(Hits[w])
    BY DEF HeaderCountsHits
  <2>1. header' = count /\ box = Text(word) /\ items = lines /\ items # <<>>
    BY <1>1, <1>3, <1>4 DEF ScreensInv, ScreenFollowsSession, Clean, Header
  <2>2. word # NoWord
    BY <2>1 DEF ScreensInv, SessionIsOfWord, ScreensTypeOK, LinesOf
  <2>3. word \in DOMAIN Hits
    BY <1>1, <2>1, <2>2 DEF ScreensInv, ScreensTypeOK
  <2> QED BY <1>1, <2>1, <2>3 DEF ScreensInv, SessionIsOfWord
<1>7. TextShowsTappedRow'
  BY <1>1 DEF Header, TextShowsTappedRow
<1> QED BY <1>3, <1>5, <1>6, <1>7 DEF ScreensInv

(* What a keystroke keeps, by what becomes of its chunk.                   *)
LEMMA ClearKeeps ==
  ASSUME ScreensInv, Clear
  PROVE  ScreensInv' /\ stack' = stack
<1>1. UpdateTable(NoWord, Returned(stack, <<Number(0)>> \o <<>>))
  <2>1. <<Number(0)>> \o <<>> = <<Number(0)>>
    OBVIOUS
  <2> QED BY <2>1 DEF Clear
<1>2. stack' = stack /\ items' = <<>>
  <2>1. <<>> \in Seq(Value)
    OBVIOUS
  <2>2. stack' = stack /\ items' \in Seq(Value) /\ Len(items') = Len(<<>>)
    BY <1>1, <2>1, TableFilled DEF ScreensInv
  <2> QED BY <2>2
<1>3. /\ box' = Text(NoWord) /\ count' = 0 /\ laidOut' = FALSE /\ screen = "search"
      /\ UNCHANGED <<screen, word, positions, lines, paragraph>>
  BY <1>1 DEF Clear, UpdateTable, TableReady
<1>4. ScreensTypeOK'
  BY <1>2, <1>3 DEF ScreensInv, ScreensTypeOK
<1>5. SessionIsOfWord'
  BY <1>3 DEF ScreensInv, SessionIsOfWord
<1>6. ScreenFollowsSession'
  <2>1. Text(word) = Text(NoWord) => lines = <<>>
    BY DEF Text, ScreensInv, SessionIsOfWord, ScreensTypeOK, LinesOf
  <2>2. Len(positions) \in Nat
    BY DEF ScreensInv, ScreensTypeOK
  <2> QED BY <1>2, <1>3, <2>1, <2>2 DEF ScreenFollowsSession
<1>7. HeaderCountsHits' /\ TextShowsTappedRow'
  BY <1>3 DEF HeaderCountsHits, TableReady, TextShowsTappedRow
<1> QED BY <1>2, <1>4, <1>5, <1>6, <1>7 DEF ScreensInv

(* A search that succeeds makes its word the one remembered, in the box too. *)
LEMMA TypeKeeps ==
  ASSUME ScreensInv, NEW w \in DOMAIN Hits, Type(w)
  PROVE  ScreensInv' /\ stack' = stack
<1>1. /\ word' = w /\ positions' = Rows(w) /\ lines' = LinesOf(Rows(w)) /\ count' = Len(Hits[w])
      /\ UpdateTable(w, Returned(stack, <<Number(count')>> \o lines'))
      /\ box' = Text(w) /\ laidOut' = FALSE /\ screen = "search" /\ UNCHANGED <<screen, paragraph>>
  BY DEF Type, UpdateTable, TableReady
<1>2. /\ positions' \in Seq(Positions) /\ count' \in Nat
      /\ lines' \in Seq(Value) /\ Len(lines') = Len(positions')
  BY <1>1, RowsType, LinesType
<1>3. /\ stack' = stack /\ items' \in Seq(Value) /\ Len(items') = Len(lines')
      /\ stack = <<>> => items' = lines'
  BY <1>1, <1>2, TableFilled DEF ScreensInv
<1>4. ScreensTypeOK'
  BY <1>1, <1>2, <1>3 DEF ScreensInv, ScreensTypeOK
<1>5. SessionIsOfWord'
  BY <1>1, WordsAssumption DEF SessionIsOfWord
<1>6. ScreenFollowsSession'
  <2>1. Len(items') <= Len(positions')
    BY <1>2, <1>3
  <2> QED BY <1>1, <1>3, <2>1 DEF ScreenFollowsSession, Clean
<1>7. HeaderCountsHits' /\ TextShowsTappedRow'
  BY <1>1 DEF HeaderCountsHits, TableReady, TextShowsTappedRow
<1> QED BY <1>3, <1>4, <1>5, <1>6, <1>7 DEF ScreensInv

(* A chunk that does not load empties the table, whose box then has a word *)
(* that Lua does not remember.                                             *)
LEMMA TypeMalformedKeeps ==
  ASSUME ScreensInv, NEW w \in Malformed, TypeMalformed(w)
  PROVE  ScreensInv' /\ stack' = <<>>
<1>1. stack' = <<>> /\ items' = <<>>
  BY TableEmptied DEF ScreensInv, TypeMalformed
<1>2. /\ box' = Text(w) /\ laidOut' = FALSE /\ screen = "search"
      /\ UNCHANGED <<screen, word, count, positions, lines, paragraph>>
  BY DEF TypeMalformed, UpdateTable, TableReady, session
<1>3. ScreensTypeOK' /\ SessionIsOfWord'
  BY <1>1, <1>2 DEF ScreensInv, ScreensTypeOK, SessionIsOfWord
<1>4. ScreenFollowsSession'
  <2>1. Text(word) # Text(w)
    BY WordsAssumption DEF Text, ScreensInv, ScreensTypeOK
  <2>2. Len(positions) \in Nat
    BY DEF ScreensInv, ScreensTypeOK
  <2> QED BY <1>1, <1>2, <2>1, <2>2 DEF ScreenFollowsSession
<1>5. HeaderCountsHits' /\ TextShowsTappedRow'
  BY <1>2 DEF HeaderCountsHits, TableReady, TextShowsTappedRow
<1> QED BY <1>1, <1>3, <1>4, <1>5 DEF ScreensInv

(* A search that raises leaves Lua with rows of an older word than the one *)
(* it remembers, and none in the table.                                    *)
LEMMA TypeRaisingKeeps ==
  ASSUME ScreensInv, NEW w \in Raising, TypeRaising(w)
  PROVE  ScreensInv' /\ stack' = <<>>
<1>1. stack' = <<>> /\ items' = <<>>
  BY TableEmptied DEF ScreensInv, TypeRaising
<1>2. /\ word' = w /\ box' = Text(w) /\ laidOut' = FALSE /\ screen = "search"
      /\ UNCHANGED <<screen, count, positions, lines, paragraph>>
  BY DEF TypeRaising, UpdateTable, TableReady
<1>3. ScreensTypeOK'
  BY <1>1, <1>2 DEF ScreensInv, ScreensTypeOK
<1>4. SessionIsOfWord'
  BY <1>2, WordsAssumption DEF SessionIsOfWord
<1>5. ScreenFollowsSession'
  <2>1. Len(positions) \in Nat
    BY DEF ScreensInv, ScreensTypeOK
  <2> QED BY <1>1, <1>2, <2>1 DEF ScreenFollowsSession
<1>6. HeaderCountsHits' /\ TextShowsTappedRow'
  BY <1>2 DEF HeaderCountsHits, TableReady, TextShowsTappedRow
<1> QED BY <1>1, <1>3, <1>4, <1>5, <1>6 DEF ScreensInv

(* What a tap keeps.  With nothing on the stack the row tapped is a line   *)
(* of Lua, so that the paragraph selected is the one of that line.         *)
LEMMA TapKeeps ==
  ASSUME ScreensInv, NEW k \in DOMAIN items, Tap(k)
  PROVE  ScreensInv' /\ stack' = stack
<1>1. /\ paragraph' = ParagraphOf(positions[k]) /\ tapped' = items[k]
      /\ ShowText([r |-> 0, stack |-> stack \o <<>>])
      /\ screen = "search" /\ screen' = "text"
      /\ UNCHANGED <<word, count, positions, lines, items, box>>
  BY DEF Tap, ShowText, Returned, TableReady, session, table
<1>2. k \in DOMAIN positions /\ positions[k] \in Positions
  BY <1>1 DEF ScreensInv, ScreensTypeOK, ScreenFollowsSession
<1>3. stack \o <<>> = stack /\ stack \in Seq({Message})
  BY DEF ScreensInv, ScreensTypeOK
<1>4. stack' = stack /\ (stack = <<>> => <<title', body'>> = Shown(paragraph'))
  BY <1>1, <1>2, <1>3, TextShown
<1>5. ScreensTypeOK' /\ SessionIsOfWord' /\ ScreenFollowsSession'
  BY <1>1, <1>2, <1>4 DEF ScreensInv, ScreensTypeOK, SessionIsOfWord, ScreenFollowsSession
<1>6. HeaderCountsHits'
  BY <1>1 DEF HeaderCountsHits, TableReady
<1>7. TextShowsTappedRow'
  <2> SUFFICES ASSUME stack = <<>>
               PROVE  /\ tapped' = Line(positions[k])
                      /\ <<title', body'>> = Shown(ParagraphOf(positions[k]))
    BY <1>2, <1>4 DEF TextShowsTappedRow, Clean
  <2>1. items = LinesOf(positions)
    BY <1>1 DEF ScreensInv, ScreensTypeOK, ScreenFollowsSession, Clean
  <2> QED BY <1>1, <1>2, <1>4, <2>1, LinesType DEF ScreensInv, ScreensTypeOK
<1> QED BY <1>4, <1>5, <1>6, <1>7 DEF ScreensInv

(* A selection that raises leaves its message on the stack.                *)
LEMMA TapRaisesKeeps ==
  ASSUME ScreensInv, NEW k \in DOMAIN items, TapRaises(k)
  PROVE  /\ ScreensInv'
         /\ positions[k] \in Unselectable /\ tapped' = items[k]
<1>1. /\ ShowText([r |-> -1, stack |-> Append(stack, Message)])
      /\ screen = "search" /\ screen' = "text"
      /\ UNCHANGED <<word, count, positions, lines, paragraph, items, box>>
  BY DEF TapRaises, ShowText, Failed, TableReady, session, table
<1>2. Append(stack, Message) \in Seq({Message}) /\ Append(stack, Message) # <<>>
  BY DEF ScreensInv, ScreensTypeOK
<1>3. stack' = Append(stack, Message)
  BY <1>1, <1>2, TextShown DEF ScreensInv, ScreensTypeOK
<1>4. ScreensTypeOK' /\ SessionIsOfWord' /\ ScreenFollowsSession'
  BY <1>1, <1>2, <1>3 DEF ScreensInv, ScreensTypeOK, SessionIsOfWord, ScreenFollowsSession
<1>5. HeaderCountsHits' /\ TextShowsTappedRow'
  BY <1>1, <1>2, <1>3 DEF HeaderCountsHits, TableReady, TextShowsTappedRow, Clean
<1> QED BY <1>4, <1>5 DEF ScreensInv, TapRaises

(* Every handler keeps the invariant, and leaves more on the stack only    *)
(* when it is a tap whose selection raises.                                *)
LEMMA NextKeeps ==
  ASSUME ScreensInv, [ScreensNext]_screenVars
  PROVE  /\ ScreensInv'
         /\ \/ stack' = stack \/ stack' = <<>>
            \/ \E k \in DOMAIN items : positions[k] \in Unselectable /\ tapped' = items[k]
<1>1. CASE Launch
  <2>1. /\ screen = "none" /\ screen' = "search" /\ laidOut' = FALSE
        /\ UNCHANGED <<stack, word, count, positions, lines, paragraph, items, box, header, tapped>>
    BY <1>1 DEF Launch, session, table, textScreen
  <2>2. items = <<>> /\ word = NoWord /\ positions = <<>> /\ lines = <<>>
    BY <2>1 DEF ScreensInv, ScreenFollowsSession, SessionIsOfWord, ScreensTypeOK, LinesOf
  <2>3. ScreensTypeOK' /\ SessionIsOfWord' /\ ScreenFollowsSession'
    BY <2>1, <2>2 DEF ScreensInv, ScreensTypeOK, SessionIsOfWord, ScreenFollowsSession
  <2>4. HeaderCountsHits' /\ TextShowsTappedRow'
    BY <2>1 DEF HeaderCountsHits, TableReady, TextShowsTappedRow
  <2> QED BY <2>1, <2>3, <2>4 DEF ScreensInv
<1>2. CASE WillTerminate
  <2>1. ScreensTypeOK' /\ SessionIsOfWord'
    BY <1>2, WordsAssumption DEF WillTerminate, ScreensTypeOK, SessionIsOfWord, LinesOf
  <2>2. ScreenFollowsSession' /\ HeaderCountsHits' /\ TextShowsTappedRow'
    BY <1>2 DEF WillTerminate, ScreenFollowsSession, HeaderCountsHits, TableReady, TextShowsTappedRow
  <2> QED BY <1>2, <2>1, <2>2 DEF ScreensInv, WillTerminate
<1>3. CASE Header
  BY <1>3, HeaderKeeps
<1>4. CASE About
  <2>1. /\ screen' = "about" /\ laidOut' = FALSE
        /\ UNCHANGED <<stack, word, count, positions, lines, paragraph, items, box, header, tapped>>
    BY <1>4 DEF About, session, table, textScreen
  <2>2. ScreensTypeOK' /\ SessionIsOfWord' /\ ScreenFollowsSession'
    BY <2>1 DEF ScreensInv, ScreensTypeOK, SessionIsOfWord, ScreenFollowsSession
  <2>3. HeaderCountsHits' /\ TextShowsTappedRow'
    BY <2>1 DEF HeaderCountsHits, TableReady, TextShowsTappedRow
  <2> QED BY <2>1, <2>2, <2>3 DEF ScreensInv
<1>5. CASE Back
  BY <1>5, ShowSearchKeeps DEF Back
<1>6. CASE Clear
  BY <1>6, ClearKeeps
<1>7. CASE \E w \in DOMAIN Hits : Type(w)
  BY <1>7, TypeKeeps
<1>8. CASE \E w \in Malformed : TypeMalformed(w)
  BY <1>8, TypeMalformedKeeps
<1>9. CASE \E w \in Raising : TypeRaising(w)
  BY <1>9, TypeRaisingKeeps
<1>10. CASE \E k \in DOMAIN items : Tap(k)
  BY <1>10, TapKeeps
<1>11. CASE \E k \in DOMAIN items : TapRaises(k)
  BY <1>11, TapRaisesKeeps
<1>12. CASE UNCHANGED screenVars
  BY <1>12 DEF ScreensInv, ScreensTypeOK, SessionIsOfWord, ScreenFollowsSession, HeaderCountsHits,
       TextShowsTappedRow, TableReady, Clean, screenVars, session, table, textScreen
<1> QED
  BY <1>1, <1>2, <1>3, <1>4, <1>5, <1>6, <1>7, <1>8, <1>9, <1>10, <1>11, <1>12 DEF ScreensNext
-----------------------------------------------------------------------------
(* The invariant holds in every state, whatever the handlers come in.      *)
THEOREM Invariant == ScreensSpec => []ScreensInv
<1>1. ScreensInit => ScreensInv
  BY InitGivesIInv
<1>2. ScreensInv /\ [ScreensNext]_screenVars => ScreensInv'
  BY NextKeeps
<1> QED BY <1>1, <1>2, PTL DEF ScreensSpec

(* The rows, the box and the header are of one search, but for the         *)
(* exceptions that the property names: from the rows being those that Lua  *)
(* remembers whenever nothing was left on its stack.                       *)
THEOREM TableIsOfOneSearch == ScreensSpec => []TableShowsSearch
<1>1. ScreensInv => TableShowsSearch
  <2> SUFFICES ASSUME ScreensInv PROVE RowHasPosition /\ BoxNamesRows
    BY DEF ScreensInv, TableShowsSearch
  <2>1. RowHasPosition
    BY DEF ScreensInv, ScreenFollowsSession, RowHasPosition
  <2>2. ASSUME screen = "search", Clean, \A w \in Raising : box # Text(w)
        PROVE  /\ items # <<>> =>
                    \E w \in DOMAIN Hits : box = Text(w) /\ items = LinesOf(Rows(w))
               /\ box = Text(word) => items = lines
    <3>1. /\ items # <<>> => box = Text(word) /\ items = lines
          /\ box = Text(word) /\ word \notin Raising => items = lines
      BY <2>2 DEF ScreensInv, ScreenFollowsSession
    <3>2. box = Text(word) => word \notin Raising
      BY <2>2
    <3>3. ASSUME items # <<>> PROVE word \in DOMAIN Hits
      BY <3>1, <3>2, <3>3 DEF ScreensInv, SessionIsOfWord, ScreensTypeOK, LinesOf
    <3> QED BY <3>1, <3>2, <3>3 DEF ScreensInv, SessionIsOfWord, ScreensTypeOK
  <2> QED BY <2>1, <2>2 DEF BoxNamesRows
<1> QED BY <1>1, Invariant, PTL

(* The text screen shows the paragraph of the row that was tapped, unless  *)
(* a message was left on the stack.                                        *)
THEOREM TextIsOfTappedRow == ScreensSpec => []TextShowsTappedRow
<1>1. ScreensInv => TextShowsTappedRow
  BY DEF ScreensInv
<1> QED BY <1>1, Invariant, PTL

(* Of all handlers only a tap whose selection raises leaves a message on   *)
(* the stack that Lua shares.                                              *)
THEOREM OnlySelectionLeaks == ScreensSpec => OnlyRaisingTapsLeak
<1> DEFINE Leak == Len(stack') > Len(stack) =>
             \E k \in DOMAIN items : positions[k] \in Unselectable /\ tapped' = items[k]
<1>1. ScreensInv /\ [ScreensNext]_screenVars => [Leak]_screenVars
  <2> SUFFICES ASSUME ScreensInv, [ScreensNext]_screenVars PROVE Leak
    OBVIOUS
  <2>1. Len(stack) \in Nat /\ Len(<<>>) = 0
    BY DEF ScreensInv, ScreensTypeOK
  <2> QED BY <2>1, NextKeeps
<1> QED BY <1>1, Invariant, PTL DEF ScreensSpec, OnlyRaisingTapsLeak
-----------------------------------------------------------------------------
(* A load keeps the numbers right: the new effect's source is a fresh one, *)
(* so it takes no number from an effect that is remembered, and a load     *)
(* that fails changes no effect.                                           *)
LEMMA LoadKeeps ==
  ASSUME TypeOK, EffectsTracked, NumbersKept, NEW file \in Files, GetSound(file)
  PROVE  /\ DOMAIN sounds' \subseteq Files
         /\ \A f \in DOMAIN sounds' : sounds'[f] \in [id : Numbers, loaded : BOOLEAN]
         /\ DOMAIN effects' \subseteq sources'
         /\ \A s \in DOMAIN effects' : effects'[s] \in [file : Files, buffer : Buffers]
         /\ sources' \subseteq Sources /\ buffers' \subseteq Buffers
         /\ EffectsTracked' /\ NumbersKept'
         /\ file \in DOMAIN sounds'
<1>1. CASE file \in DOMAIN sounds /\ UNCHANGED <<sounds, engine>>
  BY <1>1 DEF engine, TypeOK, EffectsTracked, NumbersKept
<1>2. CASE file \notin DOMAIN sounds /\ LoadSucceeds(file)
  <2>1. PICK s \in Sources \ sources, b \in Buffers \ buffers :
          /\ sources' = sources \union {s}
          /\ buffers' = buffers \union {b}
          /\ effects' = [t \in DOMAIN effects \union {s} |->
                           IF t = s THEN [file |-> file, buffer |-> b] ELSE effects[t]]
          /\ Cache(file, s, TRUE)
    BY <1>2 DEF LoadSucceeds
  <2>2. s \notin DOMAIN effects
    BY <2>1 DEF TypeOK
  <2>3. /\ DOMAIN sounds' = DOMAIN sounds \union {file}
        /\ \A f \in DOMAIN sounds : sounds'[f] = sounds[f]
        /\ sounds'[file] = [id |-> s, loaded |-> TRUE]
    BY <1>2, <2>1 DEF Cache
  <2>4. /\ DOMAIN effects' = DOMAIN effects \union {s}
        /\ \A t \in DOMAIN effects : effects'[t] = effects[t]
        /\ effects'[s] = [file |-> file, buffer |-> b]
    BY <2>1, <2>2
  <2>5. /\ DOMAIN sounds' \subseteq Files
        /\ \A f \in DOMAIN sounds' : sounds'[f] \in [id : Numbers, loaded : BOOLEAN]
        /\ DOMAIN effects' \subseteq sources'
        /\ \A t \in DOMAIN effects' : effects'[t] \in [file : Files, buffer : Buffers]
        /\ sources' \subseteq Sources /\ buffers' \subseteq Buffers
    <3>1. [id |-> s, loaded |-> TRUE] \in [id : Numbers, loaded : BOOLEAN]
      BY DEF Numbers
    <3>2. \A f \in DOMAIN sounds' : sounds'[f] \in [id : Numbers, loaded : BOOLEAN]
      BY <2>3, <3>1 DEF TypeOK
    <3>3. [file |-> file, buffer |-> b] \in [file : Files, buffer : Buffers]
      OBVIOUS
    <3>4. \A t \in DOMAIN effects' : effects'[t] \in [file : Files, buffer : Buffers]
      BY <2>4, <3>3 DEF TypeOK
    <3> QED BY <2>1, <2>3, <2>4, <3>2, <3>4 DEF TypeOK
  <2>6. EffectsTracked'
    <3>1. /\ effects'[s].file \in DOMAIN sounds'
          /\ sounds'[effects'[s].file] = [id |-> s, loaded |-> TRUE]
      BY <2>3, <2>4
    <3>2. ASSUME NEW t \in DOMAIN effects
          PROVE  /\ effects'[t].file \in DOMAIN sounds'
                 /\ sounds'[effects'[t].file] = [id |-> t, loaded |-> TRUE]
      BY <2>3, <2>4 DEF EffectsTracked
    <3> QED BY <2>4, <3>1, <3>2 DEF EffectsTracked
  <2>7. NumbersKept'
    BY <1>2, <2>2, <2>3, <2>4 DEF NumbersKept
  <2> QED BY <2>3, <2>5, <2>6, <2>7
<1>3. CASE file \notin DOMAIN sounds /\ LoadFails(file)
  <2>1. PICK garbage \in Numbers : Cache(file, garbage, FALSE)
    BY <1>3 DEF LoadFails
  <2>2. /\ DOMAIN sounds' = DOMAIN sounds \union {file}
        /\ \A f \in DOMAIN sounds : sounds'[f] = sounds[f]
        /\ sounds'[file] = [id |-> garbage, loaded |-> FALSE]
    BY <1>3, <2>1 DEF Cache
  <2>3. /\ effects' = effects
        /\ sources \subseteq sources' /\ sources' \subseteq Sources
        /\ buffers' \subseteq Buffers
    BY <1>3 DEF LoadFails, TypeOK
  <2>4. /\ DOMAIN sounds' \subseteq Files
        /\ \A f \in DOMAIN sounds' : sounds'[f] \in [id : Numbers, loaded : BOOLEAN]
        /\ DOMAIN effects' \subseteq sources'
        /\ \A t \in DOMAIN effects' : effects'[t] \in [file : Files, buffer : Buffers]
    <3>1. [id |-> garbage, loaded |-> FALSE] \in [id : Numbers, loaded : BOOLEAN]
      OBVIOUS
    <3>2. \A f \in DOMAIN sounds' : sounds'[f] \in [id : Numbers, loaded : BOOLEAN]
      BY <2>2, <3>1 DEF TypeOK
    <3> QED BY <2>2, <2>3, <3>2 DEF TypeOK
  <2>5. EffectsTracked' /\ NumbersKept'
    BY <1>3, <2>2, <2>3 DEF EffectsTracked, NumbersKept
  <2> QED BY <2>2, <2>3, <2>4, <2>5
<1> QED BY <1>1, <1>2, <1>3 DEF GetSound

(* Every number the engine has an effect for is among the numbers          *)
(* purgeSounds goes by.                                                    *)
LEMMA AllCached ==
  ASSUME EffectsTracked
  PROVE  DOMAIN effects \subseteq CachedIds
<1>1. ASSUME NEW s \in DOMAIN effects
      PROVE  s \in CachedIds
  <2>1. effects[s].file \in DOMAIN sounds /\ sounds[effects[s].file] = [id |-> s, loaded |-> TRUE]
    BY DEF EffectsTracked
  <2>2. sounds[effects[s].file].id = s
    BY <2>1
  <2> QED BY <2>1, <2>2 DEF CachedIds
<1> QED BY <1>1

(* The engine begins without sounds.                                       *)
LEMMA InitInvariant == Init => IInv
BY SilenceAssumption
   DEF Init, IInv, TypeOK, EffectsTracked, NumbersKept, LoadedSoundPlays,
       NothingLeftBehind, NoSounds

(* Every call of the manager keeps the numbers and the effects matched.    *)
LEMMA NextInvariant == IInv /\ [Next]_vars => IInv'
<1> SUFFICES ASSUME IInv, [Next]_vars PROVE IInv'
  OBVIOUS
<1> USE DEF IInv
<1>1. ASSUME NEW file \in Files, Preload(file) PROVE IInv'
  <2>1. /\ app = "running" /\ GetSound(file)
        /\ started' = started /\ app' = app
    BY <1>1 DEF Preload
  <2>2. TypeOK' /\ EffectsTracked' /\ NumbersKept'
    BY <2>1, LoadKeeps DEF TypeOK
  <2> QED BY <2>1, <2>2 DEF LoadedSoundPlays, NothingLeftBehind
<1>2. ASSUME NEW file \in Files, PlaySound(file) PROVE IInv'
  <2> DEFINE number == sounds'[file].id
             heard == IF number \in DOMAIN effects' THEN effects'[number].file ELSE Silence
  <2>1. /\ app = "running" /\ GetSound(file) /\ app' = app
        /\ started' = [asked |-> file, loaded |-> sounds'[file].loaded, played |-> heard]
    BY <1>2 DEF PlaySound
  <2>2. /\ EffectsTracked' /\ NumbersKept'
        /\ file \in DOMAIN sounds'
        /\ \A s \in DOMAIN effects' : effects'[s] \in [file : Files, buffer : Buffers]
        /\ sounds'[file] \in [id : Numbers, loaded : BOOLEAN]
    BY <2>1, LoadKeeps
  <2>3. TypeOK'
    <3>1. started' \in [asked  : Files \union {Silence}, loaded : BOOLEAN,
                        played : Files \union {Silence}]
      BY <2>1, <2>2
    <3> QED BY <2>1, <3>1, LoadKeeps DEF TypeOK
  <2>4. LoadedSoundPlays'
    <3>1. sounds'[file].loaded => heard = file
      BY <2>2 DEF NumbersKept
    <3> QED BY <2>1, <3>1 DEF LoadedSoundPlays
  <2> QED BY <2>1, <2>2, <2>3, <2>4 DEF NothingLeftBehind
<1>3. CASE MemoryWarning
  <2>1. /\ app = "running" /\ started' = started /\ app' = app
        /\ sounds' = NoSounds /\ buffers' = buffers
        /\ effects' = [s \in DOMAIN effects \ CachedIds |-> effects[s]]
        /\ sources' = sources \ (DOMAIN effects \intersect CachedIds)
    BY <1>3 DEF MemoryWarning, PurgeSounds, Unload
  <2>2. DOMAIN effects' = {}
    BY <2>1, AllCached
  <2>3. DOMAIN sounds' = {}
    BY <2>1 DEF NoSounds
  <2> QED BY <2>1, <2>2, <2>3
          DEF TypeOK, EffectsTracked, NumbersKept, LoadedSoundPlays, NothingLeftBehind
<1>4. CASE Terminate
  <2>1. /\ sources' = {} /\ buffers' = {} /\ sounds' = NoSounds
        /\ started' = started /\ app' = "terminated"
        /\ effects' = [s \in TeardownLeaves(DOMAIN effects \ CachedIds) |-> effects[s]]
    BY <1>4 DEF Terminate
  <2>2. DOMAIN effects' = {}
    BY <2>1, AllCached DEF TeardownLeaves
  <2>3. DOMAIN sounds' = {}
    BY <2>1 DEF NoSounds
  <2> QED BY <2>1, <2>2, <2>3
          DEF TypeOK, EffectsTracked, NumbersKept, LoadedSoundPlays, NothingLeftBehind
<1>5. CASE UNCHANGED vars
  BY <1>5 DEF vars, TypeOK, EffectsTracked, NumbersKept, LoadedSoundPlays, NothingLeftBehind
<1> QED BY <1>1, <1>2, <1>3, <1>4, <1>5 DEF Next

(* Every effect is remembered and every number of a loaded sound is right, *)
(* in every state, for any files and any device.                           *)
THEOREM SoundsInductive == Spec => []IInv
BY InitInvariant, NextInvariant, PTL DEF Spec

(* playSound never starts the sound of another file, if its own could be   *)
(* loaded.                                                                 *)
THEOREM OwnSoundPlays == Spec => []LoadedSoundPlays
<1>1. IInv => LoadedSoundPlays
  BY DEF IInv
<1> QED BY <1>1, SoundsInductive, PTL

(* Nothing is left of the effects once the application has terminated.     *)
THEOREM NothingLeft == Spec => []NothingLeftBehind
<1>1. IInv => NothingLeftBehind
  BY DEF IInv
<1> QED BY <1>1, SoundsInductive, PTL
-----------------------------------------------------------------------------
(* How lists of buffers that were played and that wait are seen as one.    *)
LEMMA BufferedLists ==
  ASSUME NEW S, NEW done \in Seq(S), NEW due \in Seq(S)
  PROVE  /\ done \o due \in Seq(S)
         /\ Len(done \o due) = Len(done) + Len(due)
         /\ \A b \in S : done \o Append(due, b) = Append(done \o due, b)
         /\ due # <<>> => /\ Append(done, Head(due)) \o Tail(due) = done \o due
                          /\ Append(done, Head(due)) \in Seq(S) /\ Tail(due) \in Seq(S)
         /\ done # <<>> => /\ Tail(done) \o due = Tail(done \o due)
                           /\ Head(done) = Head(done \o due)
                           /\ Head(done) \in S /\ Tail(done) \in Seq(S)
<1>1. done \o due \in Seq(S) /\ Len(done \o due) = Len(done) + Len(due)
  OBVIOUS
<1>2. ASSUME NEW b \in S
      PROVE  done \o Append(due, b) = Append(done \o due, b)
  <2> DEFINE one == done \o Append(due, b)
             other == Append(done \o due, b)
  <2>1. /\ one \in Seq(S) /\ Len(one) = Len(done) + Len(due) + 1
        /\ other \in Seq(S) /\ Len(other) = Len(done) + Len(due) + 1
    OBVIOUS
  <2>2. \A k \in 1 .. Len(one) : one[k] = other[k]
    OBVIOUS
  <2> QED BY <2>1, <2>2
<1>3. ASSUME due # <<>>
      PROVE  /\ Append(done, Head(due)) \o Tail(due) = done \o due
             /\ Append(done, Head(due)) \in Seq(S) /\ Tail(due) \in Seq(S)
  <2>1. /\ Head(due) \in S /\ Tail(due) \in Seq(S) /\ Len(Tail(due)) = Len(due) - 1
        /\ Head(due) = due[1] /\ \A k \in 1 .. Len(due) - 1 : Tail(due)[k] = due[k + 1]
        /\ Len(due) \in Nat /\ Len(due) > 0
    BY <1>3
  <2> DEFINE a == Append(done, Head(due))
             one == a \o Tail(due)
  <2>2. /\ a \in Seq(S) /\ Len(a) = Len(done) + 1 /\ a[Len(done) + 1] = due[1]
        /\ \A k \in 1 .. Len(done) : a[k] = done[k]
    BY <2>1
  <2> HIDE DEF a
  <2>3. one \in Seq(S) /\ Len(one) = Len(done) + Len(due)
    BY <2>1, <2>2
  <2> DEFINE all == done \o due
  <2>4. \A k \in 1 .. Len(done) + Len(due) : one[k] = all[k]
    BY <2>1, <2>2
  <2>5. all \in Seq(S) /\ Len(all) = Len(done) + Len(due)
    BY <1>1
  <2> HIDE DEF one, all
  <2>6. one = all
    BY <2>3, <2>4, <2>5
  <2> QED BY <2>1, <2>2, <2>6 DEF one, all, a
<1>4. ASSUME done # <<>>
      PROVE  /\ Tail(done) \o due = Tail(done \o due)
             /\ Head(done) = Head(done \o due)
             /\ Head(done) \in S /\ Tail(done) \in Seq(S)
  <2>1. /\ Head(done) \in S /\ Tail(done) \in Seq(S) /\ Len(Tail(done)) = Len(done) - 1
        /\ Head(done) = done[1] /\ \A k \in 1 .. Len(done) - 1 : Tail(done)[k] = done[k + 1]
        /\ Len(done) \in Nat /\ Len(done) > 0
    BY <1>4
  <2> DEFINE one == Tail(done) \o due
             other == Tail(done \o due)
  <2>2. /\ one \in Seq(S) /\ Len(one) = Len(done) + Len(due) - 1
        /\ other \in Seq(S) /\ Len(other) = Len(done) + Len(due) - 1
    BY <1>1, <2>1
  <2>3. \A k \in 1 .. Len(one) : one[k] = other[k]
    BY <1>1, <2>1
  <2>4. one = other
    BY <2>2, <2>3
  <2> QED BY <1>1, <2>1, <2>4
<1> QED BY <1>1, <1>2, <1>3, <1>4

(* What is left of a packet number that is inside a track or at its end.   *)
LEMMA PacketNumber ==
  ASSUME NEW n \in Nat, NEW x \in 0 .. n, 0 < n
  PROVE  x % n = IF x = n THEN 0 ELSE x
OBVIOUS

(* Every list that continues one it begins with, buffer by buffer, holds   *)
(* the packets in order when that one does.                                *)
LEMMA OrderContinues ==
  ASSUME NEW list \in Seq(Music!Buffers), NEW b \in Music!Buffers, NEW n \in Nat,
         \A k \in 1 .. Len(list) - 1 : list[k + 1].from = (list[k].from + list[k].n) % n,
         list # <<>> => b.from = (list[Len(list)].from + list[Len(list)].n) % n
  PROVE  \A k \in 1 .. Len(Append(list, b)) - 1 :
            Append(list, b)[k + 1].from = (Append(list, b)[k].from + Append(list, b)[k].n) % n
<1> SUFFICES ASSUME NEW k \in 1 .. Len(list)
             PROVE  Append(list, b)[k + 1].from
                      = (Append(list, b)[k].from + Append(list, b)[k].n) % n
  OBVIOUS
<1>1. Append(list, b)[k] = list[k]
  OBVIOUS
<1>2. CASE k = Len(list)
  BY <1>1, <1>2
<1>3. CASE k < Len(list)
  <2>1. k \in 1 .. Len(list) - 1 /\ Append(list, b)[k + 1] = list[k + 1]
    BY <1>3
  <2> QED BY <1>1, <2>1
<1> QED BY <1>2, <1>3

(* A track that is listed is not the record that stands for none.          *)
LEMMA TrackType ==
  /\ Music!NoTrack \notin Music!TracksListed
  /\ \A t \in Music!TracksListed :
       /\ t.file \in Tracks /\ PacketsOf[t.file] \in Nat
       /\ t.deleted \in BOOLEAN /\ t.inQueue \in BOOLEAN /\ t.atOnce \in BOOLEAN
<1>1. \A t \in Music!TracksListed : DOMAIN t = {"file", "deleted", "inQueue", "atOnce"}
  BY DEF Music!TracksListed
<1>2. DOMAIN Music!NoTrack = {"file"}
  BY DEF Music!NoTrack
<1> QED BY <1>1, <1>2, MusicAssumption DEF Music!TracksListed

(* A track that is changed is of the same file and loaded the same way.    *)
LEMMA TrackChanged ==
  ASSUME NEW t \in Music!TracksListed, NEW q \in BOOLEAN
  PROVE  /\ [t EXCEPT !.inQueue = q] \in Music!TracksListed
         /\ [t EXCEPT !.inQueue = q].file = t.file
         /\ [t EXCEPT !.inQueue = q].atOnce = t.atOnce
         /\ [t EXCEPT !.inQueue = q].deleted = t.deleted
         /\ [t EXCEPT !.inQueue = q].inQueue = q
BY DEF Music!TracksListed

(* A new track is not in the queue yet.                                    *)
LEMMA TrackNew ==
  ASSUME NEW file \in Tracks, NEW d \in BOOLEAN
  PROVE  /\ Music!TrackOf(file, d) \in Music!TracksListed
         /\ Music!TrackOf(file, d).file = file
         /\ Music!TrackOf(file, d).deleted = d
         /\ ~ Music!TrackOf(file, d).inQueue
BY MusicAssumption DEF Music!TrackOf, Music!TracksListed, Music!kNumberBuffers

(* Before any music there is a manager without a track.                    *)
LEMMA MusicInit == Music!Init => Music!IInv
<1> SUFFICES ASSUME Music!Init PROVE Music!IInv
  OBVIOUS
<1>1. Music!Buffered = <<>>
  BY DEF Music!Init, Music!Buffered
<1>2. Music!TypeOK
  <2>1. track \in Music!TracksListed \union {Music!NoTrack}
    BY DEF Music!Init
  <2>2. enqueued \in Seq(Music!Buffers) /\ finished \in Seq(Music!Buffers)
    BY DEF Music!Init
  <2>3. manager \in BOOLEAN /\ mQueue \in BOOLEAN /\ playing \in BOOLEAN /\ failed \in BOOLEAN
    BY DEF Music!Init
  <2> QED BY <2>1, <2>2, <2>3 DEF Music!Init, Music!TypeOK, Music!kNumberBuffers
<1>3. Music!FilledFromTrack /\ Music!WholeInOneBuffer /\ Music!ReadToTheEnd
  BY <1>1 DEF Music!Init, Music!FilledFromTrack, Music!WholeInOneBuffer, Music!ReadToTheEnd
<1>4. Music!PlaysInOrder /\ Music!OneQueue
  BY <1>1 DEF Music!Init, Music!PlaysInOrder, Music!OneQueue
<1> QED BY <1>2, <1>3, <1>4 DEF Music!IInv

(* A program that reads a deleted track has changed nothing before.        *)
LEMMA UndefinedKeeps ==
  ASSUME Music!IInv, Music!Undefined
  PROVE  Music!IInv'
<1>1. /\ pc' = "undefined"
      /\ UNCHANGED <<manager, track, mQueue, queues, playing, enqueued, finished,
                     mCurrentPacket, mNumPacketsToRead, unfilled, failed>>
  BY DEF Music!Undefined, Music!setup
<1>2. Music!TypeOK' /\ Music!FilledFromTrack'
  BY <1>1 DEF Music!IInv, Music!TypeOK, Music!FilledFromTrack, Music!Buffered
<1>3. Music!WholeInOneBuffer' /\ Music!ReadToTheEnd'
  BY <1>1 DEF Music!IInv, Music!WholeInOneBuffer, Music!ReadToTheEnd, Music!Buffered
<1>4. Music!PlaysInOrder' /\ Music!OneQueue'
  BY <1>1 DEF Music!IInv, Music!PlaysInOrder, Music!OneQueue, Music!Buffered, Music!After
<1> QED BY <1>2, <1>3, <1>4 DEF Music!IInv

(* A call that stops the music leaves nothing in the buffers and at most   *)
(* the queue that it has made.                                             *)
LEMMA PlayMusicKeeps ==
  ASSUME Music!IInv, NEW file \in Tracks, Music!PlayMusic(file)
  PROVE  Music!IInv'
<1>1. ASSUME Music!Fresh, mQueue' \in BOOLEAN,
             queues' = Music!QueuesLeft + (IF mQueue' THEN 1 ELSE 0)
      PROVE  /\ Music!OneQueue' /\ Music!PlaysInOrder' /\ Music!Buffered' = <<>>
             /\ queues' \in Nat /\ enqueued' = <<>> /\ finished' = <<>>
             /\ manager' = TRUE /\ playing' = FALSE /\ mCurrentPacket' = 0
  <2>1. Music!QueuesLeft = 0
    BY DEF Music!IInv, Music!OneQueue, Music!QueuesLeft
  <2>2. queues' = IF mQueue' THEN 1 ELSE 0
    BY <1>1, <2>1
  <2>3. Music!Buffered' = <<>>
    BY <1>1 DEF Music!Fresh, Music!Silenced, Music!Buffered
  <2> QED BY <1>1, <2>2, <2>3 DEF Music!Fresh, Music!Silenced, Music!OneQueue, Music!PlaysInOrder
<1>2. CASE Music!OpenFails
  <2>1. /\ Music!Fresh /\ mQueue' = FALSE /\ queues' = Music!QueuesLeft
        /\ failed' = TRUE /\ track' = Music!NoTrack /\ mNumPacketsToRead' = 0
        /\ unfilled' = 0 /\ pc' = "idle"
    BY <1>2 DEF Music!OpenFails
  <2>2. queues' = Music!QueuesLeft + (IF mQueue' THEN 1 ELSE 0)
    BY <2>1 DEF Music!QueuesLeft, Music!IInv, Music!TypeOK, Music!OneQueue
  <2>0. /\ Music!OneQueue' /\ Music!PlaysInOrder' /\ Music!Buffered' = <<>>
        /\ queues' \in Nat /\ enqueued' = <<>> /\ finished' = <<>>
        /\ manager' = TRUE /\ playing' = FALSE /\ mCurrentPacket' = 0 /\ mQueue' \in BOOLEAN
    BY <1>1, <2>1, <2>2, Zenon
  <2>3. Music!TypeOK'
    <3>1. enqueued' \in Seq(Music!Buffers) /\ finished' \in Seq(Music!Buffers)
      BY <2>0
    <3>2. queues' \in Nat /\ mCurrentPacket' \in Nat
      BY <2>0
    <3>3. manager' \in BOOLEAN /\ mQueue' \in BOOLEAN /\ playing' \in BOOLEAN /\ failed' \in BOOLEAN
      BY <2>0, <2>1
    <3> QED BY <2>1, <2>2, <3>1, <3>2, <3>3 DEF Music!TypeOK, Music!kNumberBuffers
  <2> QED BY <2>0, <2>1, <2>2, <2>3 DEF Music!IInv, Music!FilledFromTrack,
         Music!WholeInOneBuffer, Music!ReadToTheEnd
<1>3. CASE Music!SetupFails(file)
  <2>1. /\ Music!Fresh /\ mQueue' \in BOOLEAN
        /\ queues' = Music!QueuesLeft + (IF mQueue' THEN 1 ELSE 0)
        /\ failed' = TRUE /\ mNumPacketsToRead' = 0
        /\ unfilled' = 0 /\ pc' = "start"
    BY <1>3 DEF Music!SetupFails
  <2>2. /\ track' \in Music!TracksListed /\ track'.file = file /\ track'.deleted
        /\ ~ track'.inQueue /\ PacketsOf[file] \in Nat
    BY <1>3, TrackNew, TrackType DEF Music!SetupFails
  <2>0. /\ Music!OneQueue' /\ Music!PlaysInOrder' /\ Music!Buffered' = <<>>
        /\ queues' \in Nat /\ enqueued' = <<>> /\ finished' = <<>>
        /\ manager' = TRUE /\ playing' = FALSE /\ mCurrentPacket' = 0 /\ mQueue' \in BOOLEAN
    BY <1>1, <2>1, <2>2, Zenon
  <2>3. Music!TypeOK'
    <3>1. enqueued' \in Seq(Music!Buffers) /\ finished' \in Seq(Music!Buffers)
      BY <2>0
    <3>2. queues' \in Nat /\ mCurrentPacket' \in Nat
      BY <2>0
    <3>3. manager' \in BOOLEAN /\ mQueue' \in BOOLEAN /\ playing' \in BOOLEAN /\ failed' \in BOOLEAN
      BY <2>0, <2>1
    <3> QED BY <2>1, <2>2, <3>1, <3>2, <3>3 DEF Music!TypeOK, Music!kNumberBuffers
  <2>4. Music!FilledFromTrack' /\ Music!WholeInOneBuffer' /\ Music!ReadToTheEnd'
    BY <2>0, <2>1, <2>2 DEF Music!FilledFromTrack, Music!WholeInOneBuffer, Music!ReadToTheEnd
  <2> QED BY <2>0, <2>1, <2>2, <2>3, <2>4 DEF Music!IInv
<1>4. CASE Music!SetupSucceeds(file)
  <2>1. /\ Music!Fresh /\ mQueue' = TRUE
        /\ queues' = Music!QueuesLeft + (IF mQueue' THEN 1 ELSE 0)
        /\ failed' = FALSE
        /\ mNumPacketsToRead' = IF track'.atOnce THEN PacketsOf[file] ELSE PerBuffer
        /\ unfilled' = IF track'.atOnce THEN 1 ELSE 3
        /\ pc' = "allocate"
    BY <1>4 DEF Music!SetupSucceeds, Music!kNumberBuffers
  <2>2. /\ track' \in Music!TracksListed /\ track' # Music!NoTrack
        /\ track'.file = file /\ ~ track'.deleted /\ track'.atOnce \in BOOLEAN
        /\ ~ track'.inQueue /\ PacketsOf[file] \in Nat /\ PerBuffer \in Nat
    BY <1>4, TrackNew, TrackType, MusicAssumption DEF Music!SetupSucceeds
  <2>0. /\ Music!OneQueue' /\ Music!PlaysInOrder' /\ Music!Buffered' = <<>>
        /\ queues' \in Nat /\ enqueued' = <<>> /\ finished' = <<>>
        /\ manager' = TRUE /\ playing' = FALSE /\ mCurrentPacket' = 0 /\ mQueue' \in BOOLEAN
    BY <1>1, <2>1, <2>2, Zenon
  <2>3. Music!TypeOK'
    <3>1. enqueued' \in Seq(Music!Buffers) /\ finished' \in Seq(Music!Buffers)
      BY <2>0
    <3>2. queues' \in Nat /\ mCurrentPacket' \in Nat
      BY <2>0
    <3>3. manager' \in BOOLEAN /\ mQueue' \in BOOLEAN /\ playing' \in BOOLEAN /\ failed' \in BOOLEAN
      BY <2>0, <2>1
    <3> QED BY <2>1, <2>2, <3>1, <3>2, <3>3 DEF Music!TypeOK, Music!kNumberBuffers
  <2>4. Music!FilledFromTrack' /\ Music!WholeInOneBuffer' /\ Music!ReadToTheEnd'
    BY <2>0, <2>1, <2>2 DEF Music!FilledFromTrack, Music!WholeInOneBuffer, Music!ReadToTheEnd
  <2> QED BY <2>0, <2>1, <2>3, <2>4 DEF Music!IInv
<1> QED BY <1>2, <1>3, <1>4, UndefinedKeeps DEF Music!PlayMusic

(* The music goes with its queue.                                          *)
LEMMA RemoveKeeps ==
  ASSUME Music!IInv, NEW next \in {"idle", "terminated"}, Music!Remove(next)
  PROVE  Music!IInv'
<1>1. ASSUME manager' = FALSE, track' = Music!NoTrack, mQueue' = FALSE,
             queues' = Music!QueuesLeft, Music!Silenced, pc' = next,
             UNCHANGED <<mCurrentPacket, mNumPacketsToRead, unfilled, failed>>
      PROVE  Music!IInv'
  <2>1. queues' = 0
    BY <1>1 DEF Music!IInv, Music!OneQueue, Music!QueuesLeft
  <2>2. Music!Buffered' = <<>> /\ enqueued' = <<>> /\ finished' = <<>> /\ playing' = FALSE
    BY <1>1 DEF Music!Silenced, Music!Buffered
  <2>3. Music!TypeOK'
    <3>1. manager' \in BOOLEAN /\ mQueue' \in BOOLEAN /\ playing' \in BOOLEAN
      BY <1>1, <2>2
    <3>5. failed' \in BOOLEAN
      BY <1>1 DEF Music!IInv, Music!TypeOK
    <3>2. enqueued' \in Seq(Music!Buffers) /\ finished' \in Seq(Music!Buffers)
      BY <2>2
    <3>3. queues' \in Nat /\ mCurrentPacket' \in Nat /\ mNumPacketsToRead' \in Nat
          /\ unfilled' \in 0 .. Music!kNumberBuffers
      BY <1>1, <2>1 DEF Music!IInv, Music!TypeOK
    <3>4. pc' \in {"idle", "allocate", "reading", "ended", "start", "undefined", "terminated"}
      BY <1>1
    <3> QED BY <1>1, <3>1, <3>2, <3>3, <3>4, <3>5 DEF Music!TypeOK
  <2> QED BY <1>1, <2>1, <2>2, <2>3 DEF Music!IInv, Music!FilledFromTrack,
         Music!WholeInOneBuffer, Music!ReadToTheEnd, Music!PlaysInOrder, Music!OneQueue
<1> QED BY <1>1, UndefinedKeeps DEF Music!Remove

(* Buffers are allocated for an open track; one that cannot be had leaves  *)
(* those that were filled.                                                 *)
LEMMA AllocateKeeps ==
  ASSUME Music!IInv, Music!Allocate
  PROVE  Music!IInv'
<1>1. /\ UNCHANGED <<manager, mQueue, queues, playing, enqueued, finished,
                     mCurrentPacket, mNumPacketsToRead>>
      /\ pc = "allocate" /\ track \in Music!TracksListed /\ ~ track.deleted /\ mQueue
  BY DEF Music!Allocate, Music!setup, Music!IInv, Music!TypeOK, Music!FilledFromTrack
<1>2. PICK d \in BOOLEAN :
        /\ track' = [track EXCEPT !.deleted = d]
        /\ failed' \in BOOLEAN
        /\ \/ pc' = "start" /\ unfilled' \in {0, unfilled} /\ (d \/ unfilled = 0)
           \/ pc' = "reading" /\ unfilled > 0 /\ unfilled' = unfilled /\ ~ d
  <2>1. CASE UNCHANGED <<track, failed>>
    <3>1. track = [track EXCEPT !.deleted = FALSE]
      BY <1>1 DEF Music!TracksListed
    <3>2. failed' \in BOOLEAN
      BY <2>1 DEF Music!IInv, Music!TypeOK
    <3>3. \/ pc' = "start" /\ unfilled' \in {0, unfilled} /\ unfilled = 0
          \/ pc' = "reading" /\ unfilled > 0 /\ unfilled' = unfilled
          \/ failed' = TRUE /\ track' = [track EXCEPT !.deleted = TRUE] /\ pc' = "start" /\ unfilled' = 0
      BY DEF Music!Allocate
    <3> QED BY <2>1, <3>1, <3>2, <3>3
  <2>2. CASE /\ track' = [track EXCEPT !.deleted = TRUE]
             /\ unfilled' = 0 /\ failed' = TRUE /\ pc' = "start"
    BY <2>2
  <2> QED BY <2>1, <2>2 DEF Music!Allocate
<1>3. /\ track' \in Music!TracksListed /\ track' # Music!NoTrack
      /\ track'.file = track.file /\ track'.atOnce = track.atOnce
      /\ track'.inQueue = track.inQueue /\ track'.deleted = d
      /\ track # Music!NoTrack /\ PacketsOf[track.file] \in Nat
  BY <1>1, <1>2, TrackType DEF Music!TracksListed
<1>4. Music!Buffered' = Music!Buffered
  BY <1>1 DEF Music!Buffered
<1>5. unfilled' \in 0 .. Music!kNumberBuffers /\ (unfilled' > 0 => unfilled > 0)
  BY <1>2 DEF Music!IInv, Music!TypeOK, Music!kNumberBuffers
<1>6. Music!TypeOK'
  BY <1>1, <1>2, <1>3, <1>5 DEF Music!IInv, Music!TypeOK
<1>7. Music!FilledFromTrack' /\ Music!WholeInOneBuffer' /\ Music!ReadToTheEnd'
  BY <1>1, <1>2, <1>3, <1>4, <1>5
     DEF Music!IInv, Music!FilledFromTrack, Music!WholeInOneBuffer, Music!ReadToTheEnd
<1>8. Music!PlaysInOrder' /\ Music!OneQueue'
  BY <1>1, <1>3, <1>4 DEF Music!IInv, Music!PlaysInOrder, Music!OneQueue, Music!After
<1> QED BY <1>6, <1>7, <1>8 DEF Music!IInv

(* What a callback that comes to its end does to the track.                *)
LEMMA CallbackTrack ==
  ASSUME Music!IInv, NEW q \in BOOLEAN, Music!CallbackReturns(q), pc = "reading"
  PROVE  /\ track \in Music!TracksListed /\ track # Music!NoTrack
         /\ ~ track.deleted /\ mQueue
         /\ PacketsOf[track.file] \in Nat /\ mCurrentPacket <= PacketsOf[track.file]
         /\ track' \in Music!TracksListed /\ track' # Music!NoTrack
         /\ track'.file = track.file /\ track'.atOnce = track.atOnce /\ ~ track'.deleted
         /\ track'.inQueue = (q \/ (unfilled > 0 /\ track.atOnce))
         /\ pc' \in {"allocate", "idle"} /\ unfilled' \in 0 .. 3
         /\ track.atOnce => /\ ~ track.inQueue /\ Music!Buffered = <<>> /\ mCurrentPacket = 0
                            /\ mNumPacketsToRead = PacketsOf[track.file]
         /\ ~ track.atOnce => ~ track.inQueue
<1>1. /\ track \in Music!TracksListed /\ track # Music!NoTrack /\ ~ track.deleted /\ mQueue
      /\ PacketsOf[track.file] \in Nat /\ mCurrentPacket <= PacketsOf[track.file]
  BY TrackType DEF Music!IInv, Music!TypeOK, Music!FilledFromTrack
<1> DEFINE next == q \/ (unfilled > 0 /\ track.atOnce)
<1>2. PICK b \in BOOLEAN : b = next
  OBVIOUS
<1>3. track' = [track EXCEPT !.inQueue = b]
  BY <1>2, Zenon DEF Music!CallbackReturns
<1>4. /\ track' \in Music!TracksListed /\ track' # Music!NoTrack
      /\ track'.file = track.file /\ track'.atOnce = track.atOnce /\ ~ track'.deleted
      /\ track'.inQueue = b
  BY <1>1, <1>3, TrackChanged, TrackType
<1>5. pc' \in {"allocate", "idle"} /\ unfilled' \in 0 .. 3
  BY DEF Music!CallbackReturns, Music!IInv, Music!TypeOK, Music!kNumberBuffers
<1>6. /\ track.atOnce => /\ ~ track.inQueue /\ Music!Buffered = <<>> /\ mCurrentPacket = 0
                         /\ mNumPacketsToRead = PacketsOf[track.file]
      /\ ~ track.atOnce => ~ track.inQueue
  BY <1>1 DEF Music!IInv, Music!WholeInOneBuffer, Music!ReadToTheEnd
<1> QED BY <1>1, <1>2, <1>4, <1>5, <1>6

(* The packets read continue those that were read before; where the track  *)
(* is loaded at once they are all of it.                                   *)
LEMMA ReadKeeps ==
  ASSUME Music!IInv, Music!Read
  PROVE  Music!IInv'
<1> DEFINE n == PacketsOf[track.file]
           new == [from |-> mCurrentPacket, n |-> Music!Readable]
<1>1. /\ pc = "reading" /\ Music!Readable > 0
      /\ enqueued' = Append(enqueued, new) /\ mCurrentPacket' = mCurrentPacket + Music!Readable
      /\ Music!CallbackReturns(track.atOnce)
      /\ UNCHANGED <<manager, mQueue, queues, playing, finished, mNumPacketsToRead, failed>>
  BY DEF Music!Read, Music!setup
<1>2. track.atOnce \in BOOLEAN
  BY <1>1, TrackType DEF Music!IInv, Music!TypeOK, Music!FilledFromTrack
<1>3. /\ track \in Music!TracksListed /\ track # Music!NoTrack
      /\ ~ track.deleted /\ mQueue /\ n \in Nat /\ mCurrentPacket <= n
      /\ track' \in Music!TracksListed /\ track' # Music!NoTrack
      /\ track'.file = track.file /\ track'.atOnce = track.atOnce /\ ~ track'.deleted
      /\ track'.inQueue = (track.atOnce \/ (unfilled > 0 /\ track.atOnce))
      /\ pc' \in {"allocate", "idle"} /\ unfilled' \in 0 .. 3
      /\ track.atOnce => /\ ~ track.inQueue /\ Music!Buffered = <<>> /\ mCurrentPacket = 0
                         /\ mNumPacketsToRead = n
      /\ ~ track.atOnce => ~ track.inQueue
  BY <1>1, <1>2, CallbackTrack
<1>4. /\ mCurrentPacket \in Nat /\ mNumPacketsToRead \in Nat
      /\ enqueued \in Seq(Music!Buffers) /\ finished \in Seq(Music!Buffers)
  BY DEF Music!IInv, Music!TypeOK
<1>5. /\ Music!Readable \in 1 .. n - mCurrentPacket /\ Music!Readable <= mNumPacketsToRead
      /\ mCurrentPacket' \in 1 .. n /\ mCurrentPacket < n
      /\ track.atOnce => Music!Readable = n
  BY <1>1, <1>3, <1>4 DEF Music!Readable
<1>6. new \in Music!Buffers /\ new.from = mCurrentPacket /\ new.n = Music!Readable
  BY <1>4, <1>5 DEF Music!Buffers
<1>7. /\ Music!Buffered \in Seq(Music!Buffers) /\ Music!Buffered' = Append(Music!Buffered, new)
      /\ enqueued' \in Seq(Music!Buffers) /\ Music!Buffered' # <<>>
  <2>1. finished \o enqueued \in Seq(Music!Buffers)
    BY <1>4, BufferedLists
  <2>2. finished \o Append(enqueued, new) = Append(finished \o enqueued, new)
    BY <1>4, <1>6, BufferedLists
  <2> HIDE DEF new
  <2>3. Append(enqueued, new) \in Seq(Music!Buffers)
    BY <1>4, <1>6
  <2>4. Music!Buffered' = Append(Music!Buffered, new)
    BY <1>1, <2>2 DEF Music!Buffered
  <2> QED BY <1>1, <1>6, <2>1, <2>3, <2>4 DEF Music!Buffered
<1> HIDE DEF new
<1>8. Music!TypeOK'
  <2>1. mCurrentPacket' \in Nat /\ finished' \in Seq(Music!Buffers)
    BY <1>1, <1>4, <1>5
  <2>2. pc' \in {"idle", "allocate", "reading", "ended", "start", "undefined", "terminated"}
    BY <1>3
  <2>3. /\ manager' \in BOOLEAN /\ mQueue' \in BOOLEAN /\ playing' \in BOOLEAN /\ failed' \in BOOLEAN
        /\ queues' \in Nat /\ mNumPacketsToRead' \in Nat
    BY <1>1 DEF Music!IInv, Music!TypeOK
  <2> QED BY <1>3, <1>7, <2>1, <2>2, <2>3 DEF Music!TypeOK, Music!kNumberBuffers
<1>9. Music!FilledFromTrack'
  BY <1>1, <1>3, <1>5 DEF Music!FilledFromTrack
<1>10. Music!WholeInOneBuffer'
  <2> SUFFICES ASSUME track.atOnce PROVE Music!WholeInOneBuffer'
    BY <1>3 DEF Music!WholeInOneBuffer
  <2>1. Music!Buffered' = << [from |-> 0, n |-> n] >>
    BY <1>3, <1>5, <1>7 DEF new
  <2>2. track'.inQueue /\ mNumPacketsToRead' = n
    BY <1>1, <1>3
  <2>3. unfilled' = 0
    BY <1>1, <1>3 DEF Music!CallbackReturns, Music!IInv, Music!WholeInOneBuffer, Music!TypeOK
  <2> QED BY <1>3, <2>1, <2>2, <2>3 DEF Music!WholeInOneBuffer
<1>11. Music!ReadToTheEnd'
  <2>1. ~ track'.atOnce => ~ track'.inQueue
    BY <1>3
  <2>2. 0 < mNumPacketsToRead' /\ pc' # "ended"
    BY <1>1, <1>3, <1>4, <1>5
  <2> QED BY <2>1, <2>2 DEF Music!ReadToTheEnd
<1>12. Music!PlaysInOrder'
  <2> DEFINE list == Music!Buffered
  <2>1. \A k \in 1 .. Len(list) - 1 : list[k + 1].from = (list[k].from + list[k].n) % n
    BY DEF Music!IInv, Music!PlaysInOrder, Music!After
  <2>2. list # <<>> => new.from = (list[Len(list)].from + list[Len(list)].n) % n
    <3>1. mCurrentPacket \in 0 .. n /\ 0 < n /\ mCurrentPacket # n
      BY <1>3, <1>4, <1>5
    <3>2. mCurrentPacket % n = mCurrentPacket
      <4> HIDE DEF n
      <4> QED BY <1>3, <3>1, PacketNumber
    <3> QED BY <1>6, <3>2 DEF Music!IInv, Music!PlaysInOrder, Music!After
  <2> HIDE DEF n
  <2>3. \A k \in 1 .. Len(Append(list, new)) - 1 :
          Append(list, new)[k + 1].from
            = (Append(list, new)[k].from + Append(list, new)[k].n) % n
    BY <1>3, <1>6, <1>7, <2>1, <2>2, OrderContinues
  <2>4. Append(list, new)[Len(Append(list, new))] = new
    BY <1>7
  <2>5. mCurrentPacket' = new.from + new.n
    BY <1>1, <1>6
  <2> HIDE DEF list
  <2>6. Music!Buffered' = Append(list, new) /\ PacketsOf[track'.file] = n
    BY <1>3, <1>7 DEF list, n
  <2> QED BY <2>3, <2>4, <2>5, <2>6 DEF Music!PlaysInOrder, Music!After
<1>13. Music!OneQueue'
  BY <1>1, <1>3 DEF Music!IInv, Music!OneQueue
<1> QED BY <1>8, <1>9, <1>10, <1>11, <1>12, <1>13 DEF Music!IInv

(* A callback that fails changes no buffer.                                *)
LEMMA ReadFailsKeeps ==
  ASSUME Music!IInv, Music!ReadFails
  PROVE  Music!IInv'
<1>1. /\ pc = "reading" /\ failed' = TRUE /\ Music!CallbackReturns(track.inQueue)
      /\ UNCHANGED <<manager, mQueue, queues, playing, enqueued, finished,
                     mCurrentPacket, mNumPacketsToRead>>
  BY DEF Music!ReadFails, Music!setup
<1>2. track.inQueue \in BOOLEAN
  BY <1>1, TrackType DEF Music!IInv, Music!TypeOK, Music!FilledFromTrack
<1>3. /\ track \in Music!TracksListed /\ track # Music!NoTrack /\ ~ track.deleted /\ mQueue
      /\ track' \in Music!TracksListed /\ track' # Music!NoTrack
      /\ track'.file = track.file /\ track'.atOnce = track.atOnce /\ ~ track'.deleted
      /\ track'.inQueue = (track.inQueue \/ (unfilled > 0 /\ track.atOnce))
      /\ pc' \in {"allocate", "idle"} /\ unfilled' \in 0 .. 3
      /\ track.atOnce => /\ ~ track.inQueue /\ Music!Buffered = <<>> /\ mCurrentPacket = 0
      /\ ~ track.atOnce => ~ track.inQueue
  BY <1>1, <1>2, CallbackTrack
<1>4. Music!Buffered' = Music!Buffered
  BY <1>1 DEF Music!Buffered
<1>5. Music!TypeOK'
  <2>1. pc' \in {"idle", "allocate", "reading", "ended", "start", "undefined", "terminated"}
    BY <1>3
  <2> QED BY <1>1, <1>3, <2>1 DEF Music!IInv, Music!TypeOK, Music!kNumberBuffers
<1>6. Music!FilledFromTrack'
  BY <1>1, <1>3, <1>4 DEF Music!IInv, Music!FilledFromTrack
<1>7. Music!WholeInOneBuffer'
  <2> SUFFICES ASSUME track.atOnce PROVE Music!WholeInOneBuffer'
    BY <1>3 DEF Music!WholeInOneBuffer
  <2>1. unfilled' = 0
    BY <1>1, <1>3 DEF Music!CallbackReturns, Music!IInv, Music!WholeInOneBuffer, Music!TypeOK
  <2> QED BY <1>1, <1>3, <1>4, <2>1 DEF Music!IInv, Music!WholeInOneBuffer
<1>8. Music!ReadToTheEnd'
  BY <1>1, <1>3, <1>4 DEF Music!IInv, Music!ReadToTheEnd
<1>9. Music!PlaysInOrder' /\ Music!OneQueue'
  BY <1>1, <1>3, <1>4 DEF Music!IInv, Music!PlaysInOrder, Music!OneQueue, Music!After
<1> QED BY <1>5, <1>6, <1>7, <1>8, <1>9 DEF Music!IInv

(* A streamed track of which nothing is left is at its end.                *)
LEMMA ReadNothingKeeps ==
  ASSUME Music!IInv, Music!ReadNothing
  PROVE  Music!IInv'
<1>1. /\ pc = "reading" /\ Music!Readable = 0 /\ pc' = "ended"
      /\ UNCHANGED <<manager, mQueue, queues, track, playing, enqueued, finished,
                     mCurrentPacket, mNumPacketsToRead, unfilled, failed>>
  BY DEF Music!ReadNothing, Music!setup
<1>2. Music!Buffered' = Music!Buffered
  BY <1>1 DEF Music!Buffered
<1>3. Music!TypeOK' /\ Music!FilledFromTrack' /\ Music!WholeInOneBuffer'
  BY <1>1, <1>2 DEF Music!IInv, Music!TypeOK, Music!FilledFromTrack, Music!WholeInOneBuffer
<1>4. Music!ReadToTheEnd'
  <2>1. /\ PacketsOf[track.file] \in Nat /\ mCurrentPacket <= PacketsOf[track.file]
        /\ mCurrentPacket \in Nat /\ mNumPacketsToRead \in Nat
    BY <1>1, TrackType DEF Music!IInv, Music!TypeOK, Music!FilledFromTrack
  <2>2. 0 < mNumPacketsToRead => mCurrentPacket = PacketsOf[track.file]
    BY <1>1, <2>1 DEF Music!Readable
  <2> QED BY <1>1, <1>2, <2>2 DEF Music!IInv, Music!ReadToTheEnd
<1>5. Music!PlaysInOrder' /\ Music!OneQueue'
  BY <1>1, <1>2 DEF Music!IInv, Music!PlaysInOrder, Music!OneQueue, Music!After
<1> QED BY <1>3, <1>4, <1>5 DEF Music!IInv

(* After its last packet a track goes on with its first.                   *)
LEMMA RewindKeeps ==
  ASSUME Music!IInv, Music!Rewind
  PROVE  Music!IInv'
<1>1. /\ pc = "ended" /\ pc' = "reading" /\ mCurrentPacket' = 0
      /\ track' = [track EXCEPT !.inQueue = FALSE]
      /\ UNCHANGED <<manager, mQueue, queues, playing, enqueued, finished,
                     mNumPacketsToRead, unfilled, failed>>
  BY DEF Music!Rewind, Music!setup
<1>2. /\ track \in Music!TracksListed /\ track # Music!NoTrack
      /\ PacketsOf[track.file] \in Nat /\ ~ track.deleted /\ mQueue
      /\ Music!Buffered # <<>> => 0 < PacketsOf[track.file]
  BY <1>1, TrackType DEF Music!IInv, Music!TypeOK, Music!FilledFromTrack
<1>3. /\ track' \in Music!TracksListed /\ track' # Music!NoTrack
      /\ track'.file = track.file /\ track'.atOnce = track.atOnce /\ ~ track'.deleted
      /\ ~ track'.inQueue
  <2>1. /\ track' \in Music!TracksListed
        /\ track'.file = track.file /\ track'.atOnce = track.atOnce
        /\ track'.deleted = track.deleted /\ track'.inQueue = FALSE
    BY <1>1, <1>2, TrackChanged
  <2> QED BY <1>2, <2>1, TrackType
<1>4. Music!Buffered' = Music!Buffered
  BY <1>1 DEF Music!Buffered
<1>5. Music!TypeOK'
  BY <1>1, <1>3 DEF Music!IInv, Music!TypeOK
<1>6. Music!FilledFromTrack'
  BY <1>1, <1>2, <1>3, <1>4 DEF Music!IInv, Music!FilledFromTrack
<1>7. Music!WholeInOneBuffer' /\ Music!ReadToTheEnd'
  BY <1>1, <1>2, <1>3, <1>4 DEF Music!IInv, Music!WholeInOneBuffer, Music!ReadToTheEnd
<1>8. Music!PlaysInOrder'
  <2>1. ASSUME Music!Buffered # <<>>
        PROVE  mCurrentPacket % PacketsOf[track.file] = mCurrentPacket' % PacketsOf[track.file]
    <3>1. mCurrentPacket = PacketsOf[track.file]
      BY <1>1, <1>2, <2>1 DEF Music!IInv, Music!WholeInOneBuffer, Music!ReadToTheEnd
    <3> QED BY <1>1, <1>2, <2>1, <3>1, PacketNumber
  <2> QED BY <1>3, <1>4, <2>1 DEF Music!IInv, Music!PlaysInOrder, Music!After
<1>9. Music!OneQueue'
  BY <1>1, <1>4 DEF Music!IInv, Music!OneQueue
<1> QED BY <1>5, <1>6, <1>7, <1>8, <1>9 DEF Music!IInv

(* Starting changes no buffer.                                             *)
LEMMA StartKeeps ==
  ASSUME Music!IInv, Music!Start
  PROVE  Music!IInv'
<1>1. /\ pc = "start" /\ pc' = "idle" /\ playing' \in {mQueue, FALSE}
      /\ UNCHANGED <<manager, mQueue, queues, track, enqueued, finished,
                     mCurrentPacket, mNumPacketsToRead, unfilled, failed>>
  BY DEF Music!Start, Music!setup
<1>2. Music!Buffered' = Music!Buffered
  BY <1>1 DEF Music!Buffered
<1>3. playing' \in BOOLEAN
  BY <1>1 DEF Music!IInv, Music!TypeOK
<1>4. Music!TypeOK' /\ Music!FilledFromTrack'
  BY <1>1, <1>2, <1>3 DEF Music!IInv, Music!TypeOK, Music!FilledFromTrack
<1>5. Music!WholeInOneBuffer' /\ Music!ReadToTheEnd' /\ Music!PlaysInOrder'
  BY <1>1, <1>2 DEF Music!IInv, Music!WholeInOneBuffer, Music!ReadToTheEnd,
                    Music!PlaysInOrder, Music!After
<1>6. Music!OneQueue'
  <2>1. ~ mQueue => ~ playing'
    BY <1>1, Zenon
  <2>2. /\ queues' = IF mQueue' THEN 1 ELSE 0
        /\ ~ manager' => ~ mQueue'
        /\ ~ mQueue' => Music!Buffered' = <<>>
    BY <1>1, <1>2 DEF Music!IInv, Music!OneQueue
  <2> QED BY <1>1, <2>1, <2>2 DEF Music!OneQueue
<1> QED BY <1>4, <1>5, <1>6 DEF Music!IInv

(* A buffer that has been played is behind those played before, and before *)
(* those that wait.                                                        *)
LEMMA BufferPlayedKeeps ==
  ASSUME Music!IInv, Music!BufferPlayed
  PROVE  Music!IInv'
<1>1. /\ enqueued # <<>> /\ enqueued' = Tail(enqueued)
      /\ finished' = Append(finished, Head(enqueued))
      /\ UNCHANGED <<manager, mQueue, queues, track, playing, mCurrentPacket,
                     mNumPacketsToRead, unfilled, failed, pc>>
  BY DEF Music!BufferPlayed, Music!setup
<1>2. enqueued \in Seq(Music!Buffers) /\ finished \in Seq(Music!Buffers)
  BY DEF Music!IInv, Music!TypeOK
<1>3. /\ Music!Buffered' = Music!Buffered
      /\ enqueued' \in Seq(Music!Buffers) /\ finished' \in Seq(Music!Buffers)
  BY <1>1, <1>2, BufferedLists DEF Music!Buffered
<1>4. Music!TypeOK' /\ Music!FilledFromTrack'
  BY <1>1, <1>3 DEF Music!IInv, Music!TypeOK, Music!FilledFromTrack
<1>5. Music!WholeInOneBuffer' /\ Music!ReadToTheEnd'
  BY <1>1, <1>3 DEF Music!IInv, Music!WholeInOneBuffer, Music!ReadToTheEnd
<1>6. Music!PlaysInOrder' /\ Music!OneQueue'
  BY <1>1, <1>3 DEF Music!IInv, Music!PlaysInOrder, Music!OneQueue, Music!After
<1> QED BY <1>4, <1>5, <1>6 DEF Music!IInv

(* A callback takes the first of all buffers; the one of a track loaded at *)
(* once comes back as the only one.                                        *)
LEMMA QueueCallbackKeeps ==
  ASSUME Music!IInv, Music!QueueCallback
  PROVE  Music!IInv'
<1> DEFINE list == Music!Buffered
           n == PacketsOf[track.file]
<1>1. CASE Music!Undefined
  BY <1>1, UndefinedKeeps
<1>2. ASSUME ~ Music!Deleted, finished # <<>>, finished' = Tail(finished), pc = "idle",
             UNCHANGED <<manager, mQueue, queues, track, playing, mCurrentPacket,
                         mNumPacketsToRead, unfilled>>
      PROVE  /\ enqueued \in Seq(Music!Buffers) /\ finished' \in Seq(Music!Buffers)
             /\ Head(finished) \in Music!Buffers /\ Head(finished) = list[1]
             /\ list \in Seq(Music!Buffers) /\ list # <<>>
             /\ Tail(finished) \o enqueued = Tail(list)
             /\ track \in Music!TracksListed /\ track # Music!NoTrack /\ n \in Nat /\ 0 < n
             /\ ~ track.deleted /\ mQueue
  <2>1. enqueued \in Seq(Music!Buffers) /\ finished \in Seq(Music!Buffers)
    BY DEF Music!IInv, Music!TypeOK
  <2>2. /\ list \in Seq(Music!Buffers) /\ Len(list) = Len(finished) + Len(enqueued)
        /\ Tail(finished) \o enqueued = Tail(list) /\ Head(finished) = Head(list)
        /\ Head(finished) \in Music!Buffers /\ Tail(finished) \in Seq(Music!Buffers)
    BY <1>2, <2>1, BufferedLists DEF Music!Buffered
  <2> HIDE DEF list
  <2>3. list # <<>> /\ Head(list) = list[1]
    BY <1>2, <2>1, <2>2
  <2>4. /\ track # Music!NoTrack /\ 0 < n /\ mQueue
    BY <2>3 DEF list, Music!IInv, Music!FilledFromTrack, Music!OneQueue
  <2> QED BY <1>2, <2>1, <2>2, <2>3, <2>4, TrackType DEF Music!IInv, Music!TypeOK, Music!Deleted
<1>3. CASE /\ ~ Music!Deleted /\ track.inQueue /\ finished' = Tail(finished)
           /\ finished # <<>> /\ pc = "idle"
           /\ \/ enqueued' = Append(enqueued, Head(finished)) /\ failed' = failed
              \/ enqueued' = enqueued /\ failed' = TRUE
           /\ UNCHANGED <<manager, mQueue, queues, track, playing, mCurrentPacket,
                          mNumPacketsToRead, unfilled, pc>>
  <2>1. /\ enqueued \in Seq(Music!Buffers) /\ finished' \in Seq(Music!Buffers)
        /\ Head(finished) \in Music!Buffers /\ Head(finished) = list[1]
        /\ list \in Seq(Music!Buffers) /\ list # <<>>
        /\ Tail(finished) \o enqueued = Tail(list)
        /\ track \in Music!TracksListed /\ track # Music!NoTrack /\ n \in Nat /\ 0 < n
        /\ mQueue
    BY <1>2, <1>3
  <2>2. track.atOnce /\ list = << [from |-> 0, n |-> n] >>
    BY <1>3, <2>1, TrackType DEF Music!IInv, Music!ReadToTheEnd, Music!WholeInOneBuffer
  <2>3. Tail(list) = <<>> /\ list[1] = [from |-> 0, n |-> n]
    BY <2>2
  <2>4. Music!Buffered' \in {<<>>, << [from |-> 0, n |-> n] >>}
    <3>1. CASE enqueued' = enqueued
      BY <1>3, <2>1, <2>3, <3>1 DEF Music!Buffered
    <3>2. CASE enqueued' = Append(enqueued, Head(finished))
      <4> DEFINE first == Head(finished)
      <4>1. Tail(finished) \o Append(enqueued, first) = Append(Tail(finished) \o enqueued, first)
        BY <1>3, <2>1, BufferedLists
      <4>2. Music!Buffered' = Append(<<>>, first)
        BY <1>3, <2>1, <2>3, <3>2, <4>1 DEF Music!Buffered
      <4> HIDE DEF first
      <4>3. Music!Buffered' = << first >>
        BY <4>2
      <4> QED BY <2>1, <2>3, <4>3 DEF first
    <3> QED BY <1>3, <3>1, <3>2
  <2>5. enqueued' \in Seq(Music!Buffers) /\ failed' \in BOOLEAN
    <3>1. failed \in BOOLEAN
      BY DEF Music!IInv, Music!TypeOK
    <3>2. failed' \in BOOLEAN
      BY <1>3, <3>1, Zenon
    <3>3. Append(enqueued, Head(finished)) \in Seq(Music!Buffers)
      BY <2>1
    <3> QED BY <1>3, <2>1, <3>2, <3>3, Zenon
  <2>6. Music!TypeOK'
    <3>1. /\ manager' \in BOOLEAN /\ mQueue' \in BOOLEAN /\ playing' \in BOOLEAN
          /\ track' \in Music!TracksListed \union {Music!NoTrack}
          /\ queues' \in Nat /\ mCurrentPacket' \in Nat /\ mNumPacketsToRead' \in Nat
          /\ unfilled' \in 0 .. Music!kNumberBuffers
          /\ pc' \in {"idle", "allocate", "reading", "ended", "start", "undefined", "terminated"}
      BY <1>3 DEF Music!IInv, Music!TypeOK
    <3> QED BY <2>1, <2>5, <3>1 DEF Music!TypeOK
  <2>7. Music!FilledFromTrack' /\ Music!WholeInOneBuffer' /\ Music!ReadToTheEnd'
    BY <1>3, <2>1, <2>2, <2>4
       DEF Music!IInv, Music!FilledFromTrack, Music!WholeInOneBuffer, Music!ReadToTheEnd
  <2>8. Music!PlaysInOrder'
    <3>1. mCurrentPacket % n = (0 + n) % n
      BY <2>1, <2>2 DEF Music!IInv, Music!PlaysInOrder, Music!After
    <3>2. Music!Buffered' # <<>> =>
            /\ Len(Music!Buffered') = 1
            /\ Music!Buffered'[1] = [from |-> 0, n |-> n]
      BY <2>4
    <3> QED BY <1>3, <2>4, <3>1, <3>2 DEF Music!PlaysInOrder, Music!After
  <2>9. Music!OneQueue'
    BY <1>3, <2>1 DEF Music!IInv, Music!OneQueue
  <2> QED BY <2>6, <2>7, <2>8, <2>9 DEF Music!IInv
<1>4. CASE /\ ~ Music!Deleted /\ ~ track.inQueue /\ finished' = Tail(finished)
           /\ finished # <<>> /\ pc = "idle" /\ pc' = "reading"
           /\ UNCHANGED <<manager, mQueue, queues, track, playing, enqueued, mCurrentPacket,
                          mNumPacketsToRead, unfilled, failed>>
  <2>1. /\ enqueued \in Seq(Music!Buffers) /\ finished' \in Seq(Music!Buffers)
        /\ list \in Seq(Music!Buffers) /\ list # <<>>
        /\ Tail(finished) \o enqueued = Tail(list)
        /\ track \in Music!TracksListed /\ track # Music!NoTrack /\ n \in Nat /\ 0 < n
        /\ ~ track.deleted /\ mQueue
    BY <1>2, <1>4
  <2>2. Music!Buffered' = Tail(list)
    BY <1>4, <2>1 DEF Music!Buffered
  <2>3. ~ track.atOnce
    BY <2>1, <1>4 DEF Music!IInv, Music!WholeInOneBuffer
  <2>4. Music!TypeOK'
    BY <1>4, <2>1 DEF Music!IInv, Music!TypeOK
  <2>5. Music!FilledFromTrack' /\ Music!WholeInOneBuffer' /\ Music!ReadToTheEnd'
    BY <1>4, <2>1, <2>2, <2>3
       DEF Music!IInv, Music!FilledFromTrack, Music!WholeInOneBuffer, Music!ReadToTheEnd
  <2>6. Music!PlaysInOrder'
    <3>1. /\ \A k \in 1 .. Len(list) - 1 : list[k + 1].from = Music!After(list[k])
          /\ mCurrentPacket % n = Music!After(list[Len(list)])
      BY <2>1 DEF Music!IInv, Music!PlaysInOrder
    <3> HIDE DEF list
    <3>2. /\ Len(Tail(list)) = Len(list) - 1 /\ Len(list) \in Nat \ {0}
          /\ \A k \in 1 .. Len(list) - 1 : Tail(list)[k] = list[k + 1]
      BY <2>1
    <3>3. \A k \in 1 .. Len(Tail(list)) - 1 : Tail(list)[k + 1].from = Music!After(Tail(list)[k])
      BY <3>1, <3>2
    <3>4. Tail(list) # <<>> => mCurrentPacket % n = Music!After(Tail(list)[Len(Tail(list))])
      BY <3>1, <3>2
    <3> QED BY <1>4, <2>2, <3>3, <3>4 DEF Music!PlaysInOrder, Music!After
  <2>7. Music!OneQueue'
    BY <1>4, <2>1 DEF Music!IInv, Music!OneQueue
  <2> QED BY <2>4, <2>5, <2>6, <2>7 DEF Music!IInv
<1> QED BY <1>1, <1>3, <1>4 DEF Music!QueueCallback, Music!setup
-----------------------------------------------------------------------------
(* Both kinds of calls keep both invariants.                               *)
LEMMA ManagerNextKeeps ==
  ASSUME IInv, Music!IInv, [ManagerNext]_allVars
  PROVE  IInv' /\ Music!IInv'
<1>1. ASSUME UNCHANGED vars PROVE IInv'
  BY <1>1, NextInvariant
<1>2. ASSUME UNCHANGED musicVars PROVE Music!IInv'
  <2>1. /\ Music!Buffered' = Music!Buffered /\ track' = track
        /\ UNCHANGED <<manager, mQueue, queues, playing, enqueued, finished,
                       mCurrentPacket, mNumPacketsToRead, unfilled, failed, pc>>
    BY <1>2 DEF musicVars, Music!Buffered
  <2>2. Music!TypeOK' /\ Music!FilledFromTrack'
    BY <2>1 DEF Music!IInv, Music!TypeOK, Music!FilledFromTrack
  <2>3. Music!WholeInOneBuffer' /\ Music!ReadToTheEnd'
    BY <2>1 DEF Music!IInv, Music!WholeInOneBuffer, Music!ReadToTheEnd
  <2>4. Music!PlaysInOrder' /\ Music!OneQueue'
    BY <2>1 DEF Music!IInv, Music!PlaysInOrder, Music!OneQueue, Music!After
  <2> QED BY <2>2, <2>3, <2>4 DEF Music!IInv
<1>3. CASE SoundCall
  <2>1. Next /\ UNCHANGED musicVars
    BY <1>3 DEF SoundCall, Next
  <2> QED BY <1>2, <2>1, NextInvariant
<1>4. CASE MusicCall
  <2>1. Music!IInv'
    BY <1>4, PlayMusicKeeps, RemoveKeeps DEF MusicCall, Music!StopMusic
  <2> QED BY <1>1, <1>4, <2>1 DEF MusicCall
<1>5. CASE MusicStep
  <2>1. Music!IInv'
    BY <1>5, AllocateKeeps, ReadKeeps, ReadFailsKeeps, ReadNothingKeeps, RewindKeeps, StartKeeps,
       QueueCallbackKeeps DEF MusicStep, Music!MainStep
  <2> QED BY <1>1, <1>5, <2>1 DEF MusicStep
<1>6. CASE BufferPlayed
  BY <1>1, <1>6, BufferPlayedKeeps DEF BufferPlayed
<1>7. CASE Shutdown
  <2>1. Next /\ Music!Remove("terminated")
    BY <1>7 DEF Shutdown, Next, Music!Terminate
  <2> QED BY <2>1, NextInvariant, RemoveKeeps
<1>8. CASE UNCHANGED allVars
  BY <1>1, <1>2, <1>8 DEF allVars
<1> QED BY <1>3, <1>4, <1>5, <1>6, <1>7, <1>8 DEF ManagerNext

(* Both invariants hold in every state of the manager.                     *)
THEOREM ManagerInvariant == ManagerSpec => [](IInv /\ Music!IInv)
<1>1. ManagerInit => IInv /\ Music!IInv
  BY InitInvariant, MusicInit DEF ManagerInit
<1>2. IInv /\ Music!IInv /\ [ManagerNext]_allVars => IInv' /\ Music!IInv'
  BY ManagerNextKeeps
<1> QED BY <1>1, <1>2, PTL DEF ManagerSpec

(* Whatever fails and whenever buffers end, the buffers hold the packets   *)
(* of the track in the order in which they are heard, over its end and     *)
(* back to its beginning.                                                  *)
THEOREM MusicInOrder == ManagerSpec => []PlaysInOrder
<1>1. Music!IInv => PlaysInOrder
  BY DEF Music!IInv, PlaysInOrder
<1> QED BY <1>1, ManagerInvariant, PTL

(* No queue goes on beside the manager's, and none without it.             *)
THEOREM OnlyQueue == ManagerSpec => []OneQueue
<1>1. Music!IInv => OneQueue
  BY DEF Music!IInv, OneQueue
<1> QED BY <1>1, ManagerInvariant, PTL
=============================================================================
