------------------------------ MODULE MCRound -------------------------------
(***************************************************************************)
(* A small instance of Round: three players for two slots, so that a match *)
(* can be full and the one who waits outside can take a slot that is left. *)
(***************************************************************************)
EXTENDS Round

CONSTANTS ann, bob, cat

MCPlayers == {ann, bob, cat}
MCSlots == 0 .. 1
=============================================================================
