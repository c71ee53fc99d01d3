--------------------------- MODULE MCGameSession ---------------------------
(* Small instances of the game page and its frame for TLC. *)
EXTENDS GameSession

\* The last slot, which the rightmost path leads to, and one that ten paths lead to.
MCResults == <<5, 2>>
=============================================================================
