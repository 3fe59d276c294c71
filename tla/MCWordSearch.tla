--------------------------- MODULE MCWordSearch ----------------------------
(* WordSearch over every short text and every short word. *)
EXTENDS WordSearch
=============================================================================
