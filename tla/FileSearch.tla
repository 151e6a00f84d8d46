----------------------------- MODULE FileSearch -----------------------------
(***************************************************************************)
(* indexer.lua: mkindex builds the two index files of a text, and a        *)
(* session searches words in them and selects results.  The binary         *)
(* searches are used by what modules LowerBound and ParagraphLookup show   *)
(* they return; everything between them is here.  The text has no NUL, so  *)
(* the index lists every start of what is loaded of it (module Indexer);   *)
(* its positions are those of the file unless the file begins with blanks. *)
(***************************************************************************)
EXTENDS SourceText, Bisection, SequencesExt

CONSTANTS
  Texts,        \* the source texts
  Words,        \* the words searched for, the empty one included
  RowLimit      \* 10 in get_result_texts: rows beyond the first

ASSUME RowLimitAssumption == RowLimit \in Nat

(* Texts are in UTF-8, without NUL, and their positions fit an int.        *)
INT_MAX == 2147483647
ASSUME TextsAssumption ==
  \A t \in Texts : t \in Seq(1 .. 254) /\ Len(t) <= INT_MAX
ASSUME WordsAssumption == \A w \in Words : w \in Seq(1 .. 255)

R == INSTANCE Records WITH ByteBase <- 256

VARIABLES
  text,         \* the source file
  idx,          \* the whole records of the index file; <<>> when it has none
  pidx,         \* those of the paragraph index file, likewise
  phase,        \* mkindex: "start", "indexed", then "ready" or "failed"
  last_search_word,
  last_result_count,
  last_pos_list,
  last_text_list,
  paragraph,    \* <<last_title, last_body>>, or <<>> when they are nil
  ret           \* the call that ended last, and how

files == <<text, idx, pidx, phase>>
results == <<last_search_word, last_result_count, last_pos_list, last_text_list>>
vars == <<files, results, paragraph, ret>>
-----------------------------------------------------------------------------
Position(rec) == R!Unpack(rec)

(* lower_bound over an index of two records or more: the boundary of the   *)
(* verdicts on the records (module LowerBound).                            *)
lower_bound(word) ==
  LET below == [k \in 1 .. Len(idx) |->
                  CaseLess(ReadAt(text, Position(idx[k]), Len(word)), word)]
  IN  CHOOSE k \in 1 .. Len(idx) : IsBoundary(Len(idx), below, k)

upper_boundSameWord(word) == lower_bound(word)

(* The upper end of search_range: word .. "\255".                          *)
upper_bound(word) == lower_bound(Append(word, 255))

(* With fewer than two records an assertion of lower_bound fails.          *)
SearchRaises == Len(idx) < 2

PositionsOneDown(lb, ub) == [k \in 1 .. ub - lb |-> Position(idx[lb + k - 1])]

(* get_position_lua for i = lb .. ub - 1: 0-based, so records lb + 1 .. ub. *)
PositionsIn(lb, ub) == [k \in 1 .. ub - lb |-> Position(idx[lb + k])]

(* get_result_texts leaves its loop once i > lb + 10.                      *)
Rows(lb, ub) ==
  LET all == PositionsIn(lb, ub)
  IN  SubSeq(all, 1, IF Len(all) <= RowLimit THEN Len(all) ELSE RowLimit + 1)

ParagraphAtAfter(pos) ==
  LET starts == {Position(pidx[k]) : k \in 1 .. Len(pidx)}
      after == {p \in starts : p > pos}
  IN  IF after = {} THEN Max(starts) ELSE Min(after)

(* lower_bound_paragraph over a paragraph index of two records or more:    *)
(* the last record at or before pos, or the first record.                  *)
ParagraphAt(pos) ==
  LET starts == {Position(pidx[k]) : k \in 1 .. Len(pidx)}
      before == {p \in starts : p <= pos}
  IN  IF before = {} THEN Min(starts) ELSE Max(before)

(* line:match: title and body around the first space, or nothing.          *)
Split(line) ==
  IF Space \notin ToSet(line) THEN <<>>
  ELSE LET k == SelectInSeq(line, LAMBDA b : b = Space)
       IN  <<SubSeq(line, 1, k - 1), SubSeq(line, k + 1, Len(line))>>
-----------------------------------------------------------------------------
Init ==
  /\ text \in Texts
  /\ idx = <<>> /\ pidx = <<>>
  /\ phase = "start"
  /\ last_search_word = <<>>
  /\ last_result_count = 0
  /\ last_pos_list = <<>>
  /\ last_text_list = <<>>
  /\ paragraph = <<>>
  /\ ret = [op |-> "none", ok |-> TRUE]

(* create_indexer and save_index: no write is checked, and mkindex goes on *)
(* (or is stopped) with the records that have reached the file.            *)
WholeIndex ==
  LET order == SuffixArray(LoadedText(text))
  IN  [k \in DOMAIN order |-> R!Pack(order[k])]

SaveIndex ==
  /\ phase = "start"
  /\ \E records \in {WholeIndex} : idx' \in Prefixes(records)
  /\ phase' = "indexed"
  /\ UNCHANGED <<text, pidx, results, paragraph, ret>>

(* mk_paragraph_index: 0 and the newlines found, sorted; then p + 1 each.  *)
ParagraphStarts ==
  LET word == <<Newline>> IN <<0>> \o PositionsIn(lower_bound(word), upper_bound(word))

Sorted(list) ==
  LET order == Ordered(DOMAIN list, LAMBDA k, l :
                 list[k] < list[l] \/ (list[k] = list[l] /\ k < l))
  IN  [k \in DOMAIN list |-> list[order[k]]]

(* These writes are not checked either; mkindex, or who stops it among     *)
(* them, leaves the first ones.                                            *)
SaveParagraphs ==
  /\ phase = "indexed" /\ ~ SearchRaises
  /\ \E sorted \in {Sorted(ParagraphStarts)} :
       pidx' \in Prefixes([k \in DOMAIN sorted |-> R!Pack(sorted[k] + 1)])
  /\ phase' = "ready"
  /\ UNCHANGED <<text, idx, results, paragraph, ret>>

(* The newline search raises, or mkindex is stopped before the first write *)
(* of a paragraph: no paragraph index.                                     *)
StopMkindex ==
  /\ phase = "indexed"
  /\ phase' = "failed"
  /\ UNCHANGED <<text, idx, pidx, results, paragraph, ret>>

Session == phase \in {"ready", "failed"}

(* search_on_file with the empty word clears the count and nothing else.   *)
SearchEmpty ==
  /\ Session /\ <<>> \in Words
  /\ last_result_count' = 0
  /\ ret' = [op |-> "search", ok |-> TRUE, word |-> <<>>, count |-> 0]
  /\ UNCHANGED <<files, last_search_word, last_pos_list, last_text_list, paragraph>>

(* The word is remembered before the search that may raise.                *)
SearchFails(word) ==
  /\ Session /\ word # <<>> /\ SearchRaises
  /\ last_search_word' = word
  /\ ret' = [op |-> "search", ok |-> FALSE, word |-> word]
  /\ UNCHANGED <<files, last_result_count, last_pos_list, last_text_list, paragraph>>

Search(word) ==
  /\ Session /\ word # <<>> /\ ~ SearchRaises
  /\ LET lb == lower_bound(word)
         ub == upper_bound(word)
     IN  /\ last_pos_list' = Rows(lb, ub)
         /\ last_text_list' = [k \in DOMAIN Rows(lb, ub) |->
                                 ReadLine(text, Rows(lb, ub)[k])]
         /\ last_result_count' = ub - lb
         /\ ret' = [op |-> "search", ok |-> TRUE, word |-> word, count |-> ub - lb]
  /\ last_search_word' = word
  /\ UNCHANGED <<files, paragraph>>

(* select_item of a row there is.                                          *)
Select(n) ==
  /\ Session /\ n + 1 \in DOMAIN last_pos_list /\ Len(pidx) >= 2
  /\ LET beginpos == ParagraphAt(last_pos_list[n + 1])
     IN  /\ paragraph' = Split(ReadLine(text, beginpos))
         /\ ret' = [op |-> "select", ok |-> TRUE, n |-> n, beginpos |-> beginpos]
  /\ UNCHANGED <<files, results>>

(* An assertion of lower_bound_paragraph fails, or there is no file.       *)
SelectFails(n) ==
  /\ Session /\ n + 1 \in DOMAIN last_pos_list /\ Len(pidx) < 2
  /\ ret' = [op |-> "select", ok |-> FALSE, n |-> n]
  /\ UNCHANGED <<files, results, paragraph>>

Next ==
  \/ SaveIndex \/ SaveParagraphs \/ StopMkindex
  \/ SearchEmpty
  \/ \E word \in Words : Search(word) \/ SearchFails(word)
  \/ \E n \in 0 .. RowLimit : Select(n) \/ SelectFails(n)

Spec == Init /\ [][Next]_vars
-----------------------------------------------------------------------------
(* Where the word occurs in the text, whatever the case of its letters.    *)
Occurs(word, p) == Lowered(ReadAt(text, p, Len(word))) = Lowered(word)
Occurrences(word) == {p \in Starts(text) : Occurs(word, p)}

(* No suffix of the text is below the word: the binary search then never   *)
(* looks at the first record of the index.                                 *)
WordIsLowest(word) ==
  \A p \in Starts(text) : ~ CaseLess(ReadAt(text, p, Len(word)), word)

(* The beginning of the line a position is in.                             *)
LineStart(p) == Max({0} \union {q \in 1 .. p : text[q] = Newline})

Paragraphs == Cardinality({k \in 1 .. Len(text) : text[k] = Newline})

(* The index has the positions of the file itself.                         *)
Aligned == text # <<>> => text[1] \notin Blank

(* The positions in the index file, and whether all have reached it; and   *)
(* whether the paragraph index has as many as mkindex wrote.               *)
Indexed == {Position(idx[k]) : k \in 1 .. Len(idx)}
IndexWhole == Len(idx) = Cardinality(Starts(LoadedText(text)))
FilesWhole == IndexWhole /\ phase = "ready" /\ Len(pidx) = Len(ParagraphStarts)

(* Every row of a result is shown as its own line of the text, and is an   *)
(* occurrence of the word searched last unless the file begins with blanks.*)
(* There are as many rows as the count says, up to the limit, unless the   *)
(* empty word has cleared the count since (indexer.lua:197, 251).          *)
RowsAreHits ==
  /\ Len(last_pos_list) = Len(last_text_list)
  /\ last_result_count # 0 =>
       Len(last_pos_list) = Max({0, Min({last_result_count, RowLimit + 1})})
  /\ \A k \in 1 .. Len(last_pos_list) :
       /\ Aligned => Occurs(last_search_word, last_pos_list[k])
       /\ last_text_list[k] = ReadLine(text, last_pos_list[k])

(* A search counts every occurrence of the word that begins at a UTF-8     *)
(* character and whose record has reached the index file; only when no     *)
(* suffix is below the word is one left out, the smallest of the index     *)
(* (indexer.lua:142).  A whole index file has them all.                    *)
CountsOccurrences ==
  ret.op = "search" /\ ret.ok /\ ret.word # <<>> /\ Aligned =>
    LET counted == IF WordIsLowest(ret.word)
                     THEN Occurrences(ret.word) \ {Position(idx[1])}
                     ELSE Occurrences(ret.word)
    IN  /\ ret.count = Cardinality(counted \intersect Indexed)
        /\ IndexWhole => counted \subseteq Indexed

(* In a file that begins with no blank and ends with a newline, selecting  *)
(* a row shows the line the row is in, except that a first line is shown   *)
(* from its second byte: the newline that the search leaves out is the     *)
(* last one of the file.  When an index file has been cut short, it shows  *)
(* a line before it instead, and never one after it.  Once mkindex has     *)
(* written both files, the rows of such a file of two lines or more can    *)
(* all be selected (indexer.lua:13, 34).                                   *)
SelectsLine ==
  ret.op = "select" /\ Aligned /\ Last(text) = Newline =>
    LET line == Max({1, LineStart(last_pos_list[ret.n + 1])})
    IN  /\ ret.ok => \E p \in {1} \union {q \in 1 .. line : text[q] = Newline} :
             /\ paragraph = Split(ReadLine(text, p))
             /\ FilesWhole => p = line
        /\ FilesWhole /\ Paragraphs >= 2 => ret.ok
-----------------------------------------------------------------------------
(* The inductive invariant: the files are beginnings of what mkindex makes *)
(* of the text, the rows are those of the word remembered, and what the    *)
(* last call answered was worked out from the files and rows there still   *)
(* are.                                                                    *)
FilesAreMade ==
  /\ phase \in {"start", "indexed", "ready", "failed"}
  /\ IF phase = "start" THEN idx = <<>> ELSE idx \in Prefixes(WholeIndex)
  /\ phase = "ready" => ~ SearchRaises
  /\ IF phase = "ready"
       THEN pidx \in Prefixes([k \in DOMAIN Sorted(ParagraphStarts) |->
                                 R!Pack(Sorted(ParagraphStarts)[k] + 1)])
       ELSE pidx = <<>>

NoRows == last_pos_list = <<>> /\ last_text_list = <<>> /\ last_result_count = 0

RowsOfWord ==
  LET lb == lower_bound(last_search_word)
      ub == upper_bound(last_search_word)
  IN  /\ Session /\ ~ SearchRaises /\ last_search_word \in Words \ {<<>>}
      /\ last_pos_list = Rows(lb, ub)
      /\ last_text_list = [k \in DOMAIN Rows(lb, ub) |-> ReadLine(text, Rows(lb, ub)[k])]
      /\ last_result_count \in {0, ub - lb}

CountOfWord ==
  ret.op = "search" /\ ret.ok /\ ret.word # <<>> =>
    /\ Session /\ ~ SearchRaises /\ ret.word \in Words
    /\ ret.count = upper_bound(ret.word) - lower_bound(ret.word)

SelectedRow ==
  ret.op = "select" =>
    /\ Session /\ ret.n + 1 \in DOMAIN last_pos_list
    /\ IF ret.ok THEN /\ Len(pidx) >= 2
                       /\ paragraph = Split(ReadLine(text, ParagraphAt(last_pos_list[ret.n + 1])))
                  ELSE Len(pidx) < 2

IInv ==
  /\ text \in Texts
  /\ FilesAreMade
  /\ NoRows \/ RowsOfWord
  /\ Session \/ ret.op = "none"
  /\ CountOfWord
  /\ SelectedRow
-----------------------------------------------------------------------------
(* indexer.lua:113 asserts n2 > m in every turn of lower_bound_paragraph,  *)
(* so that a row of a text mkindex has processed could be selected.        *)
ParagraphAssertHolds ==
  FilesWhole => ~ (ret.op = "select" /\ ~ ret.ok)
=============================================================================
