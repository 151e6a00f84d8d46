----------------------------- MODULE MCIndexer -----------------------------
(* Indexer for TLC: files of up to four bytes, of a NUL, a newline, both   *)
(* cases of a letter, one between them in ASCII order, and a two-byte      *)
(* UTF-8 character.                                                        *)
EXTENDS Indexer

MCAlphabet == {NUL, Newline, 65, 95, 97, 195, 169}
MCFiles == UNION {[1 .. n -> MCAlphabet] : n \in 0 .. 4}

MCLaterWords == UNION {[1 .. n -> {65, 95, 97, 195}] : n \in 1 .. 2}
=============================================================================
