---------------------------- MODULE MCSearchApp ----------------------------
(* SearchApp for TLC: a word with more hits than rows, one with a single   *)
(* hit that cannot be selected, one with none, and a word of each failing  *)
(* kind.                                                                   *)
EXTENDS SearchApp, TLC

MCHits == ("many" :> <<3, 1, 4, 2>>) @@ ("one" :> <<5>>) @@ ("none" :> <<>>)
MCMalformed == {"quote"}
MCRaising == {"raises"}
MCNoSpace == {1}
MCUnselectable == {4, 5}
MCRowLimit == 2
MCMaxLeft == 2
=============================================================================
