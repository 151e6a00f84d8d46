----------------------------- MODULE SourceText -----------------------------
(***************************************************************************)
(* Texts as sequences of bytes, positions counted from 0, and the ways the *)
(* program looks at them: strcasecmp over C strings (sufarr.cpp), and      *)
(* lower-cased reads of a few bytes or of a line (indexer.lua).            *)
(***************************************************************************)
EXTENDS Integers, Sequences, FiniteSets

NUL == 0
Newline == 10
Space == 32
Letters == 65 .. 90     \* capital letters, the only bytes lower () changes
Blank == 9 .. 13 \union {Space}

(* ifs >> &buf: the extraction skips blanks first, so what create_indexer  *)
(* and load_index have of a file starts at its first byte that is none.    *)
LoadedText(file) ==
  LET kept == {k \in 1 .. Len(file) : file[k] \notin Blank}
  IN  IF kept = {} THEN <<>>
      ELSE SubSeq(file, CHOOSE k \in kept : \A j \in kept : k <= j, Len(file))

Lower(b) == IF b \in Letters THEN b + 32 ELSE b
Lowered(s) == [k \in 1 .. Len(s) |-> Lower(s[k])]

(* s comes before t, byte by byte: at the first difference s has the       *)
(* smaller byte, or has ended.                                             *)
LexLess(s, t) ==
  \E k \in 1 .. Len(t) :
    /\ k <= Len(s) + 1
    /\ \A j \in 1 .. k - 1 : s[j] = t[j]
    /\ k <= Len(s) => s[k] < t[k]

(* Lua's str:lower () < word:lower ().                                     *)
CaseLess(s, t) == LexLess(Lowered(s), Lowered(t))

(* UTF8Filter: an ASCII byte or the first byte of a longer sequence.       *)
UTF8Filter(b) == b < 128 \/ b >= 192

(* The text from a position on.                                            *)
From(text, p) == SubSeq(text, p + 1, Len(text))

(* The C string at a position: up to the first NUL or the end.             *)
CString(text, p) ==
  LET ends == {e \in p .. Len(text) : e = Len(text) \/ text[e + 1] = NUL}
  IN  SubSeq(text, p + 1, CHOOSE e \in ends : \A f \in ends : e <= f)

CompareCaseSensitive(text, p, q) == LexLess(CString(text, p), CString(text, q))

(* ltstr: strcasecmp of two suffixes is negative.                          *)
SuffixLess(text, p, q) == CaseLess(CString(text, p), CString(text, q))

(* What std::set takes for the same key: neither is less.                  *)
SameSuffix(text, p, q) ==
  ~ SuffixLess(text, p, q) /\ ~ SuffixLess(text, q, p)

(* The positions Indexer offers to its set.                                *)
Starts(text) == {p \in 0 .. Len(text) - 1 : UTF8Filter(text[p + 1])}

(* The members of a set in a strict and total order: each has the place    *)
(* that the members before it leave it.                                    *)
Ordered(set, Less(_, _)) ==
  [k \in 1 .. Cardinality(set) |->
     CHOOSE p \in set : Cardinality({q \in set : Less(q, p)}) = k - 1]

(* The records the index of a text without NUL has (module Indexer).       *)
SuffixArray(text) ==
  Ordered(Starts(text), LAMBDA p, q : SuffixLess(text, p, q))

HasNoNUL(text) == \A k \in 1 .. Len(text) : text[k] # NUL

(* srcf:seek ("set", p); srcf:read (n): fewer than n bytes at the end.     *)
ReadAt(text, p, n) ==
  SubSeq(text, p + 1, IF p + n <= Len(text) THEN p + n ELSE Len(text))

(* srcf:read () of a text without NUL: the rest of the line.               *)
LineEnd(text, p) ==
  CHOOSE e \in p .. Len(text) :
    /\ e = Len(text) \/ text[e + 1] = Newline
    /\ \A f \in p .. e - 1 : text[f + 1] # Newline
ReadLine(text, p) == SubSeq(text, p + 1, LineEnd(text, p))
=============================================================================
