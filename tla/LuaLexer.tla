------------------------------ MODULE LuaLexer ------------------------------
(***************************************************************************)
(* Lua's scanner (llex.c): it reads a text of characters from left to      *)
(* right and hands the parser one token at a time, at most one ahead.      *)
(*                                                                         *)
(* A character is a one-character string and EOZ the end of the text.  A   *)
(* token keeps its kind, its value (the characters of a name, a numeral or *)
(* a string), the position after it and the line the scanner is then in;   *)
(* an error is a token of kind "error".  Numerals are not converted: only  *)
(* whether they are numerals matters here.                                 *)
(***************************************************************************)
EXTENDS Integers, SequencesExt

CONSTANT MAX_INT        \* no text has as many lines

VARIABLES source,       \* the text
          current,      \* position of the character the scanner is at
          linenumber,   \* line it is in
          lastline,     \* line it was in when the last token was consumed
          t,            \* current token
          lookahead,    \* token read ahead of it, or of kind "eos"
          consumed      \* the tokens handed out, in order

lexVars == <<source, current, linenumber, lastline, t, lookahead, consumed>>
-----------------------------------------------------------------------------
EOZ == "EOZ"
NUL == "NUL"
Newline == {"\n", "\r"}
Digit == <<"0", "1", "2", "3", "4", "5", "6", "7", "8", "9">>
Lower == <<"a", "b", "c", "d", "e", "f", "g", "h", "i", "j", "k", "l", "m", "n", "o", "p",
           "q", "r", "s", "t", "u", "v", "w", "x", "y", "z">>
isdigit(c) == c \in Range(Digit)
isalpha(c) == c \in Range(Lower)
NameChar == Range(Digit) \union Range(Lower) \union {"_"}

At(i) == IF i <= Len(source) THEN source[i] ELSE EOZ
Text(i, j) == SubSeq(source, i, j - 1)
After(i, C) == Min({j \in i .. Len(source) + 1 : At(j) \notin C})

Token(kind, value, at, line) == [kind |-> kind, value |-> value, at |-> at, line |-> line]
Refused(why, at, line) == Token("error", why, at, line)
NoToken == Token("eos", <<>>, 0, 0)

(* strchr also finds the NUL that ends the set.                            *)
check_next(i, C) == At(i) \in C \union {NUL}

(* A line break is one character, or two different ones; what comes behind *)
(* it is in the next line.                                                 *)
inclinenumber(i, line) ==
  LET end == IF At(i + 1) \in Newline \ {At(i)} THEN i + 2 ELSE i + 1
  IN IF line + 1 >= MAX_INT THEN Refused("chunk has too many lines", end, line + 1)
     ELSE Token("layout", <<>>, end, line + 1)

(* strtod and strtoul: what is left after a numeral must be blank.         *)
Digits(u) == Range(u) \subseteq Range(Digit)
Mantissa(u) == \E d \in 0 .. Len(u) :
  /\ Digits(SubSeq(u, 1, d)) /\ Digits(SubSeq(u, d + 2, Len(u))) /\ Len(u) > 0
  /\ d < Len(u) => u[d + 1] = "." /\ Len(u) > 1
Exponent(u) ==
  /\ Len(u) > 1 /\ u[1] = "e"
  /\ LET d == IF u[2] \in {"+", "-"} THEN 3 ELSE 2 IN d <= Len(u) /\ Digits(SubSeq(u, d, Len(u)))
luaO_str2d(u) ==
  \/ \E m \in 1 .. Len(u) :
       Mantissa(SubSeq(u, 1, m)) /\ (m = Len(u) \/ Exponent(SubSeq(u, m + 1, Len(u))))
  \/ /\ Len(u) > 2 /\ u[1] = "0" /\ u[2] = "x"
     /\ Range(SubSeq(u, 3, Len(u))) \subseteq Range(Digit \o SubSeq(Lower, 1, 6))

(* From the first digit at i of a numeral that starts at first, everything *)
(* that could belong to one is taken.                                      *)
read_numeral(first, i, line) ==
  LET dots == After(i, Range(Digit) \union {"."})
      sign == IF ~check_next(dots, {"e"}) THEN dots
              ELSE IF check_next(dots + 1, {"+", "-"}) THEN dots + 2 ELSE dots + 1
      end == After(sign, NameChar)
  IN IF luaO_str2d(Text(first, end)) THEN Token("number", Text(first, end), end, line)
     ELSE Refused("malformed number", end, line)

(* A bracket, its signs and, when the level is not negative, its twin.     *)
skip_sep(i) ==
  LET j == After(i + 1, {"="})
      count == j - i - 1
  IN [at |-> j, level |-> IF At(j) = At(i) THEN count ELSE -count - 1]

(* The rest of a long string or comment from i on.  A second opening       *)
(* bracket of level 0 is refused (LUA_COMPAT_LSTR is 1).                   *)
RECURSIVE LongRest(_, _, _, _)
LongRest(i, line, value, level) ==
  LET sep == skip_sep(i) IN
  CASE At(i) = EOZ -> Refused("unfinished long string", i, line)
    [] At(i) \in {"[", "]"} /\ sep.level # level ->
         LongRest(sep.at, line, value \o Text(i, sep.at), level)
    [] At(i) = "[" /\ sep.level = level ->
         IF level = 0 THEN Refused("nesting of [[...]] is deprecated", sep.at + 1, line)
         ELSE LongRest(sep.at + 1, line, value \o Text(i, sep.at + 1), level)
    [] At(i) = "]" /\ sep.level = level -> Token("string", value, sep.at + 1, line)
    [] At(i) \in Newline ->
         LET break == inclinenumber(i, line)
         IN IF break.kind = "error" THEN break
            ELSE LongRest(break.at, break.line, Append(value, "\n"), level)
    [] OTHER -> LongRest(i + 1, line, Append(value, At(i)), level)

read_long_stringKeepsBreak(i, line, level) == LongRest(i + 1, line, <<>>, level)
read_long_string(i, line, level) ==
  LET break == inclinenumber(i + 1, line)
  IN CASE At(i + 1) \notin Newline -> LongRest(i + 1, line, <<>>, level)
       [] At(i + 1) \in Newline /\ break.kind = "error" -> break
       [] OTHER -> LongRest(break.at, break.line, <<>>, level)

Escapes == [c \in {"a", "b", "f", "n", "r", "t", "v"} |->
  CASE c = "n" -> "\n" [] c = "r" -> "\r" [] OTHER -> "\\" \o c]
Decimal(u) == FoldLeft(LAMBDA n, d : 10 * n + SelectInSeq(Digit, LAMBDA e : e = d) - 1, 0, u)
Chr(n) ==
  CASE n \in 48 .. 57 -> Digit[n - 47] [] n \in 97 .. 122 -> Lower[n - 96]
    [] n = 10 -> "\n" [] n = 13 -> "\r" [] OTHER -> "\\" \o ToString(n)

(* The rest of a string that the character del ends.                       *)
RECURSIVE StringRest(_, _, _, _)
Escape(i, line, value, del) ==
  LET end == Min({After(i, Range(Digit)), i + 3})
      code == Decimal(Text(i, end))
  IN CASE At(i) \in DOMAIN Escapes -> StringRest(i + 1, line, Append(value, Escapes[At(i)]), del)
       [] At(i) \in Newline ->
            LET break == inclinenumber(i, line)
            IN IF break.kind = "error" THEN break
               ELSE StringRest(break.at, break.line, Append(value, "\n"), del)
       [] At(i) = EOZ -> StringRest(i, line, value, del)
       [] isdigit(At(i)) ->
            IF code > 255 THEN Refused("escape sequence too large", end, line)
            ELSE StringRest(end, line, Append(value, Chr(code)), del)
       [] OTHER -> StringRest(i + 1, line, Append(value, At(i)), del)

StringRest(i, line, value, del) ==
  CASE At(i) = del -> Token("string", value, i + 1, line)
    [] At(i) \in Newline \union {EOZ} -> Refused("unfinished string", i, line)
    [] At(i) = "\\" -> Escape(i + 1, line, value, del)
    [] OTHER -> StringRest(i + 1, line, Append(value, At(i)), del)
read_string(i, line) == StringRest(i + 1, line, <<>>, At(i))
-----------------------------------------------------------------------------
(* A few of luaX_tokens' reserved words; the others differ in spelling.    *)
Reserved == {<<"d", "o">>, <<"i", "f">>, <<"i", "n">>, <<"o", "r">>}
read_name(i, line) ==
  LET end == After(i, NameChar) IN
  Token(IF Text(i, end) \in Reserved THEN "reserved" ELSE "name", Text(i, end), end, line)

Op(n, i, line) == Token("op", Text(i, i + n), i + n, line)
Period(i, line) ==
  CASE check_next(i + 1, {"."}) -> Op(IF check_next(i + 2, {"."}) THEN 3 ELSE 2, i, line)
    [] isdigit(At(i + 1)) -> read_numeral(i, i + 1, line)
    [] OTHER -> Op(1, i, line)
Bracket(i, line) ==
  LET sep == skip_sep(i) IN
  CASE sep.level >= 0 -> read_long_string(sep.at, line, sep.level)
    [] sep.level = -1 -> Op(1, i, line)
    [] OTHER -> Refused("invalid long string delimiter", sep.at, line)

(* The position after a comment that starts at i, or the error in it.      *)
Comment(i, line) ==
  LET sep == IF At(i + 2) = "[" THEN skip_sep(i + 2) ELSE [at |-> i + 2, level |-> -1]
      end == Min({j \in sep.at .. Len(source) + 1 : At(j) \in Newline \union {EOZ}})
  IN IF sep.level >= 0 THEN read_long_string(sep.at, line, sep.level)
     ELSE Token("comment", <<>>, end, line)

RECURSIVE llex(_, _)
llex(i, line) ==
  CASE At(i) = EOZ -> Token("eos", <<>>, i, line)
    [] At(i) \in Newline ->
         LET break == inclinenumber(i, line)
         IN IF break.kind = "error" THEN break ELSE llex(break.at, break.line)
    [] At(i) = " " -> llex(i + 1, line)
    [] At(i) = "-" /\ At(i + 1) = "-" ->
         LET comment == Comment(i, line) IN
         IF comment.kind = "error" THEN comment ELSE llex(comment.at, comment.line)
    [] At(i) = "[" -> Bracket(i, line)
    [] At(i) \in {"=", "<", ">", "~"} -> Op(IF At(i + 1) = "=" THEN 2 ELSE 1, i, line)
    [] At(i) \in {"\"", "'"} -> read_string(i, line)
    [] At(i) = "." -> Period(i, line)
    [] isdigit(At(i)) -> read_numeral(i, i, line)
    [] isalpha(At(i)) \/ At(i) = "_" -> read_name(i, line)
    [] OTHER -> Op(1, i, line)
-----------------------------------------------------------------------------
(* luaX_setinput.                                                          *)
LexInit(text) ==
  /\ source = text
  /\ current = 1 /\ linenumber = 1 /\ lastline = 1
  /\ t = NoToken /\ lookahead = NoToken
  /\ consumed = <<>>

LexDone == consumed # <<>> /\ Last(consumed).kind \in {"eos", "error"}

(* The next token: the one read ahead if there is one.                     *)
luaX_next ==
  /\ ~LexDone
  /\ LET next == IF lookahead.kind # "eos" THEN lookahead ELSE llex(current, linenumber) IN
     /\ t' = next
     /\ consumed' = Append(consumed, next)
     /\ current' = next.at /\ linenumber' = next.line
  /\ lastline' = linenumber
  /\ lookahead' = NoToken
  /\ UNCHANGED source

(* A table constructor that starts an item with a name looks one further   *)
(* (lparser.c, constructor); an error is thrown there and then.            *)
luaX_lookahead ==
  /\ ~LexDone /\ t.kind = "name" /\ lookahead.kind = "eos"
  /\ LET next == llex(current, linenumber) IN
     /\ lookahead' = next
     /\ current' = next.at /\ linenumber' = next.line
     /\ consumed' = IF next.kind = "error" THEN Append(consumed, next) ELSE consumed
  /\ UNCHANGED <<source, lastline, t>>

LexNext == luaX_next \/ luaX_lookahead
-----------------------------------------------------------------------------
(* What the manual's section 2.1 says the words of a text are, said of     *)
(* pieces of the text and not of a scanner: source[i .. j-1] is a lexeme   *)
(* of a kind when it has that kind's shape, and a text is read by taking   *)
(* the longest lexeme at each place, up to the limit on lines.             *)

Piece(i, j) == Range(Text(i, j))
Opening(i, n) == <<"[">> \o [k \in 1 .. n |-> "="] \o <<"[">>
Closing(n) == <<"]">> \o [k \in 1 .. n |-> "="] \o <<"]">>
Begins(i, word) == Text(i, Min({i + Len(word), Len(source) + 1})) = word
Opens(i) == {n \in 0 .. Len(source) : Begins(i, Opening(i, n))}

(* It ends at the first closing bracket of its level.                      *)
LongBracket(i, j) == \E n \in Opens(i) :
  LET closes == {k \in i + n + 2 .. Len(source) : Begins(k, Closing(n))}
  IN closes # {} /\ j = Min(closes) + n + 2

(* The quote at i ends at the next one no backslash stands before; a pair  *)
(* of backslashes is one character.  So is a line break after a backslash. *)
Slashes(i, k) == k - 1 - Max({i} \union {m \in i .. k - 1 : At(m) # "\\"})
Escaped(i, k) == Slashes(i, k) % 2 = 1
SecondOfBreak(i, k) ==
  k - 1 > i /\ At(k - 1) \in Newline \ {At(k)} /\ Escaped(i, k - 1)
Quoted(i, j) ==
  /\ At(i) \in {"\"", "'"} /\ j > i + 1 /\ At(j - 1) = At(i) /\ ~Escaped(i, j - 1)
  /\ \A k \in i + 1 .. j - 2 :
       /\ At(k) = At(i) => Escaped(i, k)
       /\ At(k) \in Newline => Escaped(i, k) \/ SecondOfBreak(i, k)
       /\ isdigit(At(k)) /\ Escaped(i, k) =>
            Decimal(Text(k, Min({k + 3, After(k, Range(Digit))}))) <= 255

(* Any other character is a word too, for the parser to refuse.            *)
Operators == {<<"=">>, <<"=", "=">>, <<"<">>, <<"<", "=">>, <<">">>, <<">", "=">>, <<"~">>,
              <<"~", "=">>, <<".">>, <<".", ".">>, <<".", ".", ".">>, <<"[">>, <<"]">>, <<"-">>,
              <<"+">>, <<"\\">>}
BlankLine(i, j) ==
  \/ j = i + 1 /\ At(i) \in Newline \union {" "}
  \/ j = i + 2 /\ At(i) \in Newline /\ At(i + 1) \in Newline \ {At(i)}
ShortComment(i, j) ==
  /\ Begins(i, <<"-", "-">>) /\ Opens(i + 2) = {} /\ j >= i + 2
  /\ Piece(i, j) \intersect Newline = {} /\ At(j) \in Newline \union {EOZ}
LongComment(i, j) == Begins(i, <<"-", "-">>) /\ LongBracket(i + 2, j)
Name(i, j) == ~isdigit(At(i)) /\ Piece(i, j) \subseteq NameChar

Kinds == {"layout", "name", "number", "string", "op"}
Lexeme(kind, i, j) ==
  CASE kind = "layout" -> BlankLine(i, j) \/ ShortComment(i, j) \/ LongComment(i, j)
    [] kind = "name" -> Name(i, j)
    [] kind = "number" -> luaO_str2d(Text(i, j))
    [] kind = "string" -> LongBracket(i, j) \/ Quoted(i, j)
    [] kind = "op" -> Text(i, j) \in Operators

(* What the longest lexeme must not be followed by, or be the start of.    *)
Simple(i, j) == {"e", "x"} \intersect Piece(i, j) = {}
Cut(kind, i, j) ==
  \/ kind = "number" /\ (At(j) \in NameChar \/ (At(j) = "." /\ Simple(i, j)))
  \/ kind = "op" /\ At(i) = "[" /\ (At(j) = "=" \/ Opens(i) # {})
  \/ kind = "op" /\ Begins(i, <<"-", "-", "[">>) /\ Opens(i + 2) # {}
(* The code's exception, against the manual: no second [[ after a first.   *)
Nests(i, j) ==
  LET open == IF At(i) = "-" THEN i + 2 ELSE i IN
  0 \in Opens(open) /\ \E k \in open + 2 .. j - 4 : Begins(k, Opening(k, 0))

(* What a string says.                                                     *)
RECURSIVE Unescaped(_, _)
Unescaped(i, j) ==
  LET end == Min({j, i + 4, After(i + 1, Range(Digit))}) IN
  CASE i >= j -> <<>>
    [] i < j /\ At(i) # "\\" -> <<At(i)>> \o Unescaped(i + 1, j)
    [] i < j /\ At(i) = "\\" /\ isdigit(At(i + 1)) ->
         <<Chr(Decimal(Text(i + 1, end)))>> \o Unescaped(end, j)
    [] i < j /\ At(i) = "\\" /\ At(i + 1) \in Newline ->
         <<"\n">> \o Unescaped(IF BlankLine(i + 1, i + 3) THEN i + 3 ELSE i + 2, j)
    [] OTHER -> <<IF At(i + 1) \in DOMAIN Escapes THEN Escapes[At(i + 1)] ELSE At(i + 1)>>
                  \o Unescaped(i + 2, j)
RECURSIVE Lines(_, _)
Lines(i, j) ==
  CASE i >= j -> <<>>
    [] i < j /\ At(i) \notin Newline -> <<At(i)>> \o Lines(i + 1, j)
    [] i < j /\ At(i) \in Newline ->
         <<"\n">> \o Lines(IF BlankLine(i, i + 2) /\ i + 2 <= j THEN i + 2 ELSE i + 1, j)
Value(kind, i, j) ==
  CASE kind = "string" /\ At(i) # "[" -> Unescaped(i + 1, j - 1)
    [] kind = "string" /\ At(i) = "[" ->
         LET n == CHOOSE n \in Opens(i) : TRUE
             first == i + n + 2
             skip == IF At(first) \notin Newline THEN 0 ELSE IF BlankLine(first, first + 2) THEN 2 ELSE 1
         IN Lines(first + skip, j - n - 2)
    [] OTHER -> Text(i, j)

(* Line breaks before position j, pairing from the left.                   *)
RECURSIVE Breaks(_, _)
Breaks(i, j) ==
  CASE i >= j -> 0
    [] i < j /\ At(i) \notin Newline -> Breaks(i + 1, j)
    [] i < j /\ At(i) \in Newline ->
         1 + Breaks(IF BlankLine(i, i + 2) THEN i + 2 ELSE i + 1, j)
LineAt(j) == 1 + Breaks(1, j)

(* The words of the text from i on, up to the first place where it has     *)
(* none: a kind, a value and a place after each.                           *)
RECURSIVE Words(_)
Words(i) ==
  LET ends == {<<kind, j>> \in Kinds \X (i + 1 .. Len(source) + 1) : Lexeme(kind, i, j)}
      longest == CHOOSE e \in ends : \A f \in ends : f[2] <= e[2]
      j == longest[2]
      kind == IF longest[1] = "name" /\ Text(i, j) \in Reserved THEN "reserved" ELSE longest[1]
  IN CASE i > Len(source) -> <<[kind |-> "eos", value |-> <<>>, at |-> i]>>
       [] i <= Len(source) /\ ends = {} -> <<[kind |-> "error"]>>
       [] OTHER ->
            IF Cut(kind, i, j) \/ Nests(i, j) \/ LineAt(j) >= MAX_INT THEN <<[kind |-> "error"]>>
            ELSE IF kind = "layout" THEN Words(j)
            ELSE <<[kind |-> kind, value |-> Value(kind, i, j), at |-> j]>> \o Words(j)
-----------------------------------------------------------------------------
(* The scanner hands out the words of the text: each the longest there is, *)
(* with its value, and an error where the text has none (llex.c:332).      *)
TokensAreLongest == LexDone =>
  LET words == Words(1) IN
  /\ Len(consumed) = Len(words)
  /\ \A n \in DOMAIN consumed :
       /\ consumed[n].kind = words[n].kind
       /\ words[n].kind # "error" =>
            consumed[n].at = words[n].at /\ consumed[n].value = words[n].value

(* The line the scanner is in, and the one each token is reported in, is   *)
(* one more than the line breaks before its end, whatever they are in and  *)
(* however they are written (llex.c:127).                                  *)
LinesCounted ==
  /\ linenumber = LineAt(current)
  /\ \A n \in DOMAIN consumed : consumed[n].line = LineAt(consumed[n].at)
=============================================================================
