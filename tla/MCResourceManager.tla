-------------------------- MODULE MCResourceManager --------------------------
(* ResourceManager for TLC.  With two packets to a buffer, a track of      *)
(* three packets is loaded at once, those of six and of seven are          *)
(* streamed, one of them to end in a buffer that is not full, and one has  *)
(* no packets.                                                             *)
EXTENDS ResourceManager, TLC

CONSTANTS Bell, Click, Flip

MCPacketsOf == ("blank" :> 0) @@ ("jingle" :> 3) @@ ("march" :> 6) @@ ("theme" :> 7)
MCTracks == DOMAIN MCPacketsOf
=============================================================================
