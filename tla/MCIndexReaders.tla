--------------------------- MODULE MCIndexReaders ---------------------------
(* IndexReaders for TLC: every table of up to six verdicts, every index of *)
(* up to five paragraphs.                                                  *)
EXTENDS IndexReaders

(* Two byte values, so that 16 positions fit in a record, 7 is the last    *)
(* one an int of that width holds, and what is left of the cut record of 2 *)
(* or 3 makes 2.                                                           *)
MCByteBase == 2
MCPositions == {0, 1, 2, 3, 4, 6, 7, 8, 9, 15}

(* Texts with a blank to begin with, both cases of a letter and a second   *)
(* line.                                                                   *)
MCFiles == UNION {[1 .. n -> {10, 65, 97, 98}] : n \in 0 .. 4}
MCWords == {<<>>, <<97>>, <<66>>, <<98, 65>>}
=============================================================================
