------------------------------ MODULE Indexer ------------------------------
(***************************************************************************)
(* sufarr.cpp, Indexer and operator<<: every position of the text is       *)
(* offered to a std::set ordered by strcasecmp, and the set is written out *)
(* in its order.  One step is one turn of the constructor's loop or one    *)
(* element written.                                                        *)
(***************************************************************************)
EXTENDS SourceText

CONSTANTS
  Files,        \* the files indexed
  LaterWords    \* the words searched for later

ASSUME FilesAssumption == \A f \in Files : f \in Seq(0 .. 255)
ASSUME LaterWordsAssumption == \A w \in LaterWords : w \in Seq(0 .. 255)

VARIABLES
  source,       \* the text, as create_indexer loads it
  turn,         \* the position the loop is at
  tree,         \* the positions in the set
  left,         \* the positions from the iterator `it' on
  out,          \* the positions written
  pc            \* "scan", "write" or "done"

SourceTexts == {LoadedText(f) : f \in Files}

indexerVars == <<source, turn, tree, left, out, pc>>

IndexerInit ==
  /\ source \in SourceTexts
  /\ turn = 0
  /\ tree = {}
  /\ left = {}
  /\ out = <<>>
  /\ pc = "scan"

(* Variant: the later of two equivalent suffixes replaces the earlier.     *)
InsertReplacing ==
  {q \in tree : ~ SameSuffix(source, q, turn)} \union {turn}

(* tree.insert (data): no effect when an equivalent key is there.          *)
Insert ==
  IF \E q \in tree : SameSuffix(source, q, turn) THEN tree ELSE tree \union {turn}

Scan ==
  /\ pc = "scan" /\ turn < Len(source)
  /\ tree' = IF UTF8Filter(source[turn + 1]) THEN Insert ELSE tree
  /\ turn' = turn + 1
  /\ UNCHANGED <<source, left, out, pc>>

(* The loop ends; save_index calls operator<<, which takes t.begin ().     *)
EndScan ==
  /\ pc = "scan" /\ turn = Len(source)
  /\ left' = tree
  /\ pc' = "write"
  /\ UNCHANGED <<source, turn, tree, out>>

(* The element the iterator is at: the least of those left.                *)
WriteInTextOrder ==
  /\ pc = "write"
  /\ \E p \in left :
       /\ \A q \in left : p <= q
       /\ out' = Append(out, p)
       /\ left' = left \ {p}
  /\ UNCHANGED <<source, turn, tree, pc>>

Write ==
  /\ pc = "write"
  /\ \E p \in left :
       /\ \A q \in left \ {p} : SuffixLess(source, p, q)
       /\ out' = Append(out, p)
       /\ left' = left \ {p}
  /\ UNCHANGED <<source, turn, tree, pc>>

Finish ==
  /\ pc = "write" /\ left = {}
  /\ pc' = "done"
  /\ UNCHANGED <<source, turn, tree, left, out>>

IndexerNext == Scan \/ EndScan \/ Write \/ Finish

IndexerSpec == IndexerInit /\ [][IndexerNext]_indexerVars /\ WF_indexerVars(IndexerNext)
-----------------------------------------------------------------------------
Written == {out[k] : k \in 1 .. Len(out)}

TypeOK ==
  /\ source \in SourceTexts
  /\ turn \in 0 .. Len(source)
  /\ tree \subseteq {p \in Starts(source) : p < turn}
  /\ left \subseteq tree
  /\ pc \in {"scan", "done"} => left = {}
  /\ out \in Seq(tree)
  /\ pc \in {"scan", "write", "done"}

(* A text without NUL loses no suffix: two suffixes of it have different   *)
(* lengths, so the set never takes one for another.                        *)
NoSuffixLost ==
  HasNoNUL(source) =>
    tree = {p \in Starts(source) : p < turn}

(* A NUL ends the C string, so equal stretches before a NUL are one key;   *)
(* the set keeps the first in the text of each class and nothing else.     *)
FirstOfClassKept ==
  /\ \A p \in Starts(source) : p < turn =>
       \E q \in tree : q <= p /\ SameSuffix(source, q, p)
  /\ \A p, q \in tree : SameSuffix(source, p, q) => p = q

(* The records written are the whole set, each once, in strict order.      *)
WrittenInOrder ==
  /\ \A k, l \in 1 .. Len(out) : k < l => SuffixLess(source, out[k], out[l])
  /\ pc = "done" => Written = tree

(* The inductive invariant: what is left follows all that is written, and  *)
(* the two make up the set the scan left.                                  *)
IndexerInv ==
  /\ TypeOK
  /\ FirstOfClassKept
  /\ NoSuffixLost
  /\ WrittenInOrder
  /\ pc = "scan" => out = <<>>
  /\ pc # "scan" => turn = Len(source) /\ tree = left \union Written
  /\ \A k \in 1 .. Len(out), q \in left : SuffixLess(source, out[k], q)

(* What makes indexer.lua's binary search sound: whatever the word, with   *)
(* or without the "\255" of the upper bound, the entries whose first bytes *)
(* are below it come first, although the index was ordered by another      *)
(* comparison, in another language, over whole suffixes.                   *)
ReadsBelow(word, k) == CaseLess(ReadAt(source, out[k], Len(word)), word)

OrderServesSearch ==
  HasNoNUL(source) =>
    \A word \in LaterWords \union {Append(w, 255) : w \in LaterWords} :
      \A k, l \in 1 .. Len(out) :
        k < l /\ ReadsBelow(word, l) => ReadsBelow(word, k)
=============================================================================
