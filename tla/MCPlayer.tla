------------------------------- MODULE MCPlayer -------------------------------
(***************************************************************************)
(* Two episodes that can be played and one the feed no longer has.         *)
(***************************************************************************)
EXTENDS Player

CONSTANTS e1, e2, e3

MCEpisodes == {e1, e2, e3}
MCGone == {e3}
MCQueued == <<e3, e2>>

=============================================================================
