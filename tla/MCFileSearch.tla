---------------------------- MODULE MCFileSearch ----------------------------
(* FileSearch for TLC: texts of up to six bytes with several lines, a tab  *)
(* below the newline or a space above it; words in the other case, of one  *)
(* and two bytes.                                                          *)
EXTENDS FileSearch

Strings(alphabet, n) == UNION {[1 .. k -> alphabet] : k \in 0 .. n}

MCTexts ==
  Strings({Newline, Space, 97, 66}, 4)
    \union Strings({9, Newline, 97}, 4)
    \union Strings({Newline, 97}, 6)
MCWords == {<<>>, <<65>>, <<98>>, <<Space>>, <<97, 66>>, <<97, 97>>}
MCRowLimit == 1
=============================================================================
